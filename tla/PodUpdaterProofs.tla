--------------------------- MODULE PodUpdaterProofs ---------------------------
(***************************************************************************)
(* Theorems about PodUpdater, for every set of containers, every resources *)
(* and every bound.                                                        *)
(***************************************************************************)
EXTENDS PodUpdater, TLAPS

Allocs == [Containers -> Values]

LEMMA NewPodType == \A n \in Nat : NewPod(n) \in PodType
  BY UpdaterAssumption DEF NewPod, PodType

LEMMA PodTypeFields ==
    ASSUME NEW p \in PodType
    PROVE  /\ p.alloc \in Allocs /\ p.uid \in Nat
           /\ p.state \in {"Running", "Terminating", "Absent"}
           /\ \A s \in {"Running", "Terminating", "Absent"} :
                /\ [p EXCEPT !.state = s] \in PodType
                /\ [p EXCEPT !.state = s].alloc = p.alloc
                /\ [p EXCEPT !.state = s].state = s
           /\ \A a \in Allocs :
                /\ [p EXCEPT !.alloc = a] \in PodType
                /\ [p EXCEPT !.alloc = a].alloc = a
                /\ [p EXCEPT !.alloc = a].state = p.state
           /\ \A c \in Containers, v \in Values :
                /\ [p EXCEPT !.alloc[c] = v] \in PodType
                /\ [p EXCEPT !.alloc[c] = v].alloc = [p.alloc EXCEPT ![c] = v]
                /\ [p EXCEPT !.alloc[c] = v].state = p.state
  BY DEF PodType, Allocs

LEMMA AllocFields ==
    ASSUME NEW a \in Allocs, NEW c \in Containers, NEW v \in Values
    PROVE  /\ [a EXCEPT ![c] = v] \in Allocs /\ [a EXCEPT ![c] = v][c] = v
           /\ \A d \in Containers \ {c} : [a EXCEPT ![c] = v][d] = a[d]
           /\ [a EXCEPT ![c] = v] = a <=> a[c] = v
  BY DEF Allocs

\* What a patch makes of the pod: with the fields of the object in memory,
\* unless it is empty.
LEMMA PatchedFields ==
    ASSUME TypeOK, NEW c \in DOMAIN rec
    PROVE  /\ c \in Containers /\ rec[c] \in Values
           /\ Wanted(c) \in PodType
           /\ Wanted(c).alloc = [mem.alloc EXCEPT ![c] = rec[c]]
           /\ MergePatch(pod, Base, Wanted(c)) \in PodType
           /\ MergePatch(pod, Base, Wanted(c)).state = pod.state
           /\ mem.alloc[c] = rec[c]
                => MergePatch(pod, Base, Wanted(c)) = pod /\ Wanted(c).alloc = mem.alloc
           /\ mem.alloc[c] # rec[c]
                => MergePatch(pod, Base, Wanted(c)).alloc = Wanted(c).alloc
  <1>1. c \in Containers /\ rec[c] \in Values /\ mem \in PodType /\ pod \in PodType
    BY DEF TypeOK
  <1>2. /\ Wanted(c) \in PodType
        /\ Wanted(c).alloc = [mem.alloc EXCEPT ![c] = rec[c]]
    BY <1>1 DEF Wanted, Base, PodType
  <1>3. Wanted(c).alloc \in Allocs /\ mem.alloc \in Allocs
    BY <1>1, <1>2, PodTypeFields
  <1>4. Wanted(c).alloc = mem.alloc <=> mem.alloc[c] = rec[c]
    BY <1>1, <1>2, <1>3, AllocFields
  <1> DEFINE patched == MergePatch(pod, Base, Wanted(c))
  <1>5. CASE mem.alloc[c] = rec[c]
    <2>1. patched = pod
      BY <1>4, <1>5 DEF MergePatch, Base
    <2> QED BY <1>1, <1>2, <1>4, <1>5, <2>1
  <1>6. CASE mem.alloc[c] # rec[c]
    <2>1. patched = [pod EXCEPT !.alloc = Wanted(c).alloc]
      BY <1>4, <1>6 DEF MergePatch, Base
    <2> HIDE DEF patched
    <2>2. patched \in PodType /\ patched.alloc = Wanted(c).alloc /\ patched.state = pod.state
      BY <1>1, <1>3, <2>1 DEF PodType, Allocs
    <2> QED BY <1>1, <1>2, <1>6, <2>2 DEF patched
  <1> QED BY <1>5, <1>6

\* The three things that may become of a patch.
LEMMA PatchCases ==
    ASSUME TypeOK, Patch
    PROVE  /\ pc = "patch" /\ cur \in DOMAIN rec
           /\ UNCHANGED <<cache, mode, source, listed, rec, todo, clean, disturbed, writes>>
           /\ faults' = faults \/ Fault
           /\ \/ /\ pod' = MergePatch(pod, Base, Wanted(cur)) /\ mem' = pod'
                 /\ pod.state # "Absent"
                 /\ resized' = resized \cup {cur} /\ failed' = failed
                 /\ pc' = "loop" /\ cur' = NoContainer
              \/ /\ \/ pod' = pod
                    \/ /\ pod' = MergePatch(pod, Base, Wanted(cur))
                       /\ pod.state # "Absent"
                 /\ mem' = Wanted(cur) /\ resized' = resized /\ failed' = TRUE
                 /\ \/ pc' = "annotate" /\ cur' = cur /\ mode = "Auto"
                    \/ pc' = "loop" /\ cur' = NoContainer
  <1>1. cur # NoContainer
    BY DEF Patch, TypeOK
  <1>2. cur \in DOMAIN rec
    BY <1>1 DEF TypeOK
  <1> QED BY <1>2 DEF Patch, PatchFails, Continue

LEMMA NoRecommendations == DOMAIN << >> = {} /\ << >> \in [{} -> Values]
  OBVIOUS

LEMMA InitTypes == Init => TypeOK
  <1> SUFFICES ASSUME Init PROVE TypeOK
    OBVIOUS
  <1>1. NewPod(0) \in PodType /\ NewPod(1) \in PodType
    BY NewPodType
  <1>2. DOMAIN rec = {} /\ rec \in [{} -> Values]
    BY NoRecommendations DEF Init
  <1>3. /\ pod \in PodType /\ cache \in PodType /\ mem \in PodType
        /\ pc = "idle" /\ mode \in Modes /\ source \in {"podfather", "vpa"}
        /\ listed \in [Containers -> Values] /\ todo = {} /\ cur = NoContainer
        /\ resized = {} /\ disturbed = {} /\ failed \in BOOLEAN /\ clean \in BOOLEAN
        /\ writes = 0 /\ faults = 0
    BY <1>1, UpdaterAssumption DEF Init
  <1>4. writes \in 0 .. MaxWrites /\ faults \in 0 .. MaxFaults
    BY <1>3, UpdaterAssumption
  <1> QED BY <1>2, <1>3, <1>4 DEF TypeOK

LEMMA ForgetTypes ==
    ASSUME TypeOK, Forget
    PROVE  /\ pod' \in PodType /\ mem' \in PodType /\ pc' = "idle"
           /\ mode' \in Modes /\ source' \in {"podfather", "vpa"}
           /\ listed' \in Allocs /\ DOMAIN rec' = {} /\ rec' \in [{} -> Values]
           /\ todo' = {} /\ cur' = NoContainer /\ resized' = {} /\ disturbed' = {}
           /\ failed' \in BOOLEAN /\ clean' \in BOOLEAN
           /\ UNCHANGED <<writes, faults>>
  BY NewPodType, NoRecommendations, UpdaterAssumption DEF Forget, TypeOK, Allocs

\* What the loop is about to do and what it has done are apart.
LoopInv ==
    /\ pc = "idle" => todo = {} /\ resized = {}
    /\ resized \cap todo = {} /\ cur \notin todo \cup resized

LEMMA NextTypes == TypeOK /\ LoopInv /\ [Next]_vars => TypeOK' /\ LoopInv'
  <1> SUFFICES ASSUME TypeOK, LoopInv, [Next]_vars PROVE TypeOK' /\ LoopInv'
    OBVIOUS
  <1> USE DEF passVars, loopVars, passHistory, Others
  <1>1. Fault => faults' \in 0 .. MaxFaults
    BY UpdaterAssumption DEF Fault, TypeOK
  <1>2. writes < MaxWrites /\ writes' = writes + 1 => writes' \in 0 .. MaxWrites
    BY UpdaterAssumption DEF TypeOK
  <1>3. NoContainer \notin DOMAIN rec
    BY UpdaterAssumption DEF TypeOK
  <1>4. ASSUME NEW c \in Containers, NEW v \in Values, Write(c, v)
        PROVE  TypeOK' /\ LoopInv'
    <2>1. pod' \in PodType
      BY <1>4, PodTypeFields DEF Write, TypeOK
    <2> QED BY <1>4, <1>2, <2>1 DEF Write, TypeOK, LoopInv
  <1>5. CASE PodStops \/ PodEnds
    <2>1. pod' \in PodType
      BY <1>5 DEF PodStops, PodEnds, TypeOK, PodType
    <2> QED BY <1>5, <1>2, <2>1 DEF PodStops, PodEnds, TypeOK, LoopInv
  <1>6. CASE PodStarts
    <2>1. pod.uid + 1 \in Nat
      BY DEF TypeOK, PodType
    <2>2. pod' \in PodType
      BY <1>6, <2>1, NewPodType DEF PodStarts
    <2> QED BY <1>6, <2>2 DEF PodStarts, TypeOK, LoopInv
  <1>7. CASE Sync
    BY <1>7 DEF Sync, TypeOK, LoopInv
  <1>8. ASSUME NEW some \in SUBSET Containers, NEW recommended \in [some -> Values],
               StartPass(recommended)
        PROVE  TypeOK' /\ LoopInv'
    <2>1. rec' \in [some -> Values] /\ DOMAIN rec' = some /\ todo' = some
      BY <1>8 DEF StartPass
    <2>2. listed' \in [Containers -> Values] /\ mem' \in PodType
      BY <1>8, PodTypeFields DEF StartPass, TypeOK, Allocs
    <2>3. cur = NoContainer /\ resized = {} /\ NoContainer \notin some
      BY <1>8, UpdaterAssumption DEF StartPass, TypeOK, LoopInv
    <2> QED BY <1>8, <2>1, <2>2, <2>3 DEF StartPass, TypeOK, LoopInv
  <1>9. ASSUME NEW c \in Containers, LeaveAlone(c) PROVE TypeOK' /\ LoopInv'
    BY <1>9 DEF LeaveAlone, TypeOK, LoopInv
  <1>10. ASSUME NEW c \in Containers, Apply(c) PROVE TypeOK' /\ LoopInv'
    BY <1>10, <1>3 DEF Apply, TypeOK, LoopInv
  <1>11. CASE Patch
    <2>1. pod' \in PodType /\ mem' \in PodType
      BY <1>11, PatchCases, PatchedFields DEF TypeOK
    <2>2. faults' \in 0 .. MaxFaults
      BY <1>11, <1>1, PatchCases DEF TypeOK
    <2>3. /\ pc = "patch" /\ cur \in DOMAIN rec
          /\ UNCHANGED <<cache, mode, source, listed, rec, todo, clean, disturbed, writes>>
          /\ resized' \in {resized, resized \cup {cur}} /\ failed' \in BOOLEAN
          /\ \/ pc' = "annotate" /\ cur' = cur /\ resized' = resized
             \/ pc' = "loop" /\ cur' = NoContainer
      BY <1>11, PatchCases DEF TypeOK
    <2> QED BY <1>3, <2>1, <2>2, <2>3 DEF TypeOK, LoopInv
  <1>12. CASE Annotate
    <2>1. /\ mem' \in PodType /\ faults' \in 0 .. MaxFaults /\ failed' \in BOOLEAN
          /\ pc = "annotate"
          /\ \/ pc' = "evict" /\ UNCHANGED <<todo, cur>>
             \/ pc' = "loop" /\ cur' = NoContainer /\ UNCHANGED todo
      BY <1>12, <1>1 DEF Annotate, Continue, TypeOK
    <2> QED BY <1>12, <1>3, <2>1 DEF Annotate, TypeOK, LoopInv
  <1>13. CASE Evict
    <2>1. /\ pod' \in PodType /\ faults' \in 0 .. MaxFaults /\ failed' \in BOOLEAN
          /\ pc = "evict" /\ pc' = "loop" /\ cur' = NoContainer /\ UNCHANGED todo
      BY <1>13, <1>1 DEF Evict, Continue, TypeOK, PodType
    <2> QED BY <1>13, <1>3, <2>1 DEF Evict, TypeOK, LoopInv
  <1>14. CASE EndPass \/ Crash
    <2>1. Forget /\ cache' \in PodType
      BY <1>14 DEF EndPass, Crash, TypeOK
    <2> QED BY <2>1, ForgetTypes DEF TypeOK, LoopInv, Allocs
  <1>15. CASE UNCHANGED vars
    BY <1>15 DEF vars, TypeOK, LoopInv
  <1> QED
    BY <1>4, <1>5, <1>6, <1>7, <1>8, <1>9, <1>10, <1>11, <1>12, <1>13, <1>14, <1>15
       DEF Next, Worker, Environment

LEMMA InitLoop == Init => LoopInv
  BY UpdaterAssumption DEF Init, LoopInv

\* Type correctness: the pod, its copies and the state of the loop keep their
\* types, and a container is being updated when and only when the loop is in
\* the middle of one.
THEOREM TypeCorrectness == Spec => []TypeOK
  BY InitTypes, InitLoop, NextTypes, PTL DEF Spec

-----------------------------------------------------------------------------
(***************************************************************************)
(* What was resized stays resized.  The argument is about the object in    *)
(* memory, which every patch writes as a whole: before the first answer it *)
(* may be old, from then on it is the server's but for what others change  *)
(* and what was refused.                                                   *)
(***************************************************************************)

\* Containers whose patch is still to come.
Pending == todo \cup (IF pc = "patch" THEN {cur} ELSE {})

\* The object in memory agrees with what was resized.  Of a container still to
\* come it has what was listed or what the server has; one whose recommendation
\* it has already got that from the server.  A pod that ended took with it
\* whatever had been done to it.
KeptInv ==
    /\ \A c \in resized \ disturbed : pod.alloc[c] = rec[c] /\ mem.alloc[c] = rec[c]
    /\ \A c \in Pending \ disturbed : mem.alloc[c] \in {listed[c], pod.alloc[c]}
    /\ pc = "patch" => mem.alloc[cur] # rec[cur] \/ listed[cur] # rec[cur]
    /\ pod.state = "Absent" =>
         /\ resized \subseteq disturbed
         /\ \A c \in Pending \ disturbed : mem.alloc[c] = listed[c]

PassInv == TypeOK /\ LoopInv

\* The steps that change the pod behind the worker's back.
Behind == PodStops \/ PodEnds \/ PodStarts \/ \E c \in Containers, v \in Values : Write(c, v)

\* What a pass works on is its own.
LEMMA OthersFrame ==
    ASSUME Behind \/ Sync \/ UNCHANGED vars
    PROVE  UNCHANGED <<pc, mem, mode, source, listed, rec, todo, cur, resized, failed,
                       clean>>
  BY DEF Behind, Write, PodStops, PodEnds, PodStarts, Sync, Others, vars, passVars,
         loopVars, passHistory

\* And these are what others do to the pod.
LEMMA BehindCases ==
    ASSUME TypeOK, Behind
    PROVE  \/ pod'.alloc = pod.alloc /\ disturbed' = disturbed
                /\ pod'.state = "Terminating" /\ pod.state = "Running"
           \/ disturbed' = Containers /\ pod'.alloc = pod.alloc /\ pod.state # "Absent"
           \/ disturbed' = disturbed /\ pod.state = "Absent" /\ pod'.state = "Running"
           \/ \E c \in Containers : /\ disturbed' = disturbed \cup {c}
                                    /\ \A d \in Containers \ {c} : pod'.alloc[d] = pod.alloc[d]
                                    /\ pod.state # "Absent" /\ pod'.state = pod.state
  <1>0. pod \in PodType
    BY DEF TypeOK
  <1>1. CASE PodStops \/ PodEnds
    BY <1>0, <1>1 DEF PodStops, PodEnds, PodType
  <1>2. CASE PodStarts
    BY <1>2 DEF PodStarts, NewPod
  <1>3. ASSUME NEW c \in Containers, NEW v \in Values, Write(c, v)
        PROVE  /\ disturbed' = disturbed \cup {c}
               /\ \A d \in Containers \ {c} : pod'.alloc[d] = pod.alloc[d]
               /\ pod.state # "Absent" /\ pod'.state = pod.state
    BY <1>0, <1>3 DEF Write, PodType
  <1> QED BY <1>1, <1>2, <1>3 DEF Behind

LEMMA NextKeptInv == PassInv /\ PassInv' /\ KeptInv /\ [Next]_vars => KeptInv'
  <1> SUFFICES ASSUME PassInv, PassInv', KeptInv, [Next]_vars PROVE KeptInv'
    OBVIOUS
  <1>1. TypeOK /\ TypeOK' /\ LoopInv /\ LoopInv' /\ NoContainer \notin DOMAIN rec
    BY UpdaterAssumption DEF PassInv, TypeOK
  <1>2. resized \subseteq Containers /\ todo \subseteq Containers /\ Pending \subseteq Containers
    BY <1>1 DEF TypeOK, Pending
  <1>3. CASE Behind
    <2>1. UNCHANGED <<pc, mem, listed, rec, todo, cur, resized>> /\ Pending' = Pending
      BY <1>3, OthersFrame DEF Pending
    <2> QED BY <1>1, <1>2, <1>3, <2>1, BehindCases DEF KeptInv
  <1>4. CASE Sync \/ UNCHANGED vars
    BY <1>4, OthersFrame DEF KeptInv, Pending, Sync, vars, passHistory
  <1>5. ASSUME NEW some \in SUBSET Containers, NEW recommended \in [some -> Values],
               StartPass(recommended)
        PROVE  KeptInv'
    <2>1. resized' = {} /\ pc' = "loop" /\ mem'.alloc = listed'
      BY <1>1, <1>5 DEF StartPass, LoopInv
    <2> QED BY <2>1 DEF KeptInv, Pending
  <1>6. ASSUME NEW c \in Containers, LeaveAlone(c) PROVE KeptInv'
    <2>1. /\ UNCHANGED <<pod, pc, mem, listed, rec, resized, disturbed>>
          /\ Pending' \subseteq Pending /\ pc = "loop"
      BY <1>6 DEF LeaveAlone, Pending, passVars, passHistory
    <2> QED BY <2>1 DEF KeptInv
  <1>7. ASSUME NEW c \in Containers, Apply(c) PROVE KeptInv'
    <2>1. /\ UNCHANGED <<pod, mem, listed, rec, resized, disturbed>> /\ cur' = c
          /\ Pending' \subseteq Pending /\ rec[c] # CurrentAllocations[c]
      BY <1>7 DEF Apply, Pending, passVars, passHistory
    <2>2. mem.alloc[c] # rec[c] \/ listed[c] # rec[c]
      BY <2>1 DEF CurrentAllocations
    <2> QED BY <2>1, <2>2 DEF KeptInv
  <1>8. CASE Patch
    <2> DEFINE w == Wanted(cur)
               patched == MergePatch(pod, Base, w)
    <2>1. /\ pc = "patch" /\ cur \in DOMAIN rec /\ cur \in Containers
          /\ UNCHANGED <<listed, rec, todo, disturbed>>
          /\ Pending = todo \cup {cur} /\ Pending' = todo
          /\ cur \notin todo \cup resized
      BY <1>1, <1>8, PatchCases DEF Pending, LoopInv, TypeOK
    <2>2. /\ w.alloc[cur] = rec[cur]
          /\ \A c \in Containers \ {cur} : w.alloc[c] = mem.alloc[c]
      <3>1. w.alloc = [mem.alloc EXCEPT ![cur] = rec[cur]]
        BY <1>1, <2>1, PatchedFields
      <3>2. mem.alloc \in Allocs
        BY <1>1, PodTypeFields DEF TypeOK
      <3> QED BY <2>1, <3>1, <3>2 DEF Allocs
    <2>3. /\ patched.state = pod.state
          /\ mem.alloc[cur] = rec[cur] => patched = pod
          /\ mem.alloc[cur] # rec[cur] => patched.alloc = w.alloc
      BY <1>1, <2>1, PatchedFields
    <2> HIDE DEF w, patched
    <2>4. \A c \in resized \ disturbed : /\ patched.alloc[c] = rec[c] /\ w.alloc[c] = rec[c]
                                         /\ pod.alloc[c] = rec[c]
      BY <1>2, <2>1, <2>2, <2>3 DEF KeptInv
    <2>5. CASE /\ pod' = patched /\ mem' = pod' /\ pod.state # "Absent"
               /\ resized' = resized \cup {cur} /\ pc' = "loop"
      <3>1. cur \notin disturbed => patched.alloc[cur] = rec[cur]
        BY <2>1, <2>2, <2>3 DEF KeptInv
      <3> QED BY <2>1, <2>3, <2>4, <2>5, <3>1 DEF KeptInv
    <2>6. CASE /\ \/ pod' = pod
                  \/ pod' = patched /\ pod.state # "Absent"
               /\ mem' = w /\ resized' = resized /\ pc' \in {"annotate", "loop"}
      <3>1. \A c \in todo \ disturbed : /\ mem'.alloc[c] \in {listed[c], pod'.alloc[c]}
                                        /\ pod.state = "Absent" => mem'.alloc[c] = listed[c]
        BY <1>2, <2>1, <2>2, <2>3, <2>6 DEF KeptInv
      <3>2. pod'.state = pod.state
        BY <2>3, <2>6
      <3> QED BY <2>1, <2>4, <2>6, <3>1, <3>2 DEF KeptInv
    <2> QED BY <1>1, <1>8, <2>5, <2>6, PatchCases DEF w, patched
  <1>9. CASE Annotate
    <2>1. /\ UNCHANGED <<pod, listed, rec, todo, resized, disturbed>>
          /\ pc' \in {"evict", "loop"} /\ Pending = todo /\ Pending' = todo
          /\ mem' = mem \/ (mem' = pod /\ pod.state # "Absent")
      BY <1>9 DEF Annotate, Continue, Pending
    <2> QED BY <2>1 DEF KeptInv
  <1>10. CASE Evict
    <2>1. /\ UNCHANGED <<mem, listed, rec, todo, resized, disturbed>>
          /\ pc' = "loop" /\ Pending = todo /\ Pending' = todo
          /\ pod'.alloc = pod.alloc
          /\ pod'.state = "Absent" => pod.state = "Absent"
      BY <1>1, <1>10 DEF Evict, Continue, Pending, passVars, TypeOK, PodType
    <2> QED BY <2>1 DEF KeptInv
  <1>11. CASE EndPass \/ Crash
    <2>1. resized' = {} /\ todo' = {} /\ pc' = "idle"
      BY <1>11 DEF EndPass, Crash, Forget
    <2> QED BY <2>1 DEF KeptInv, Pending
  <1> QED
    BY <1>3, <1>4, <1>5, <1>6, <1>7, <1>8, <1>9, <1>10, <1>11
       DEF Next, Worker, Environment, Behind

\* Whatever the listed pod was, whichever patches fail or are lost and whatever
\* others do meanwhile: what a pass has resized, it does not take back.
THEOREM ResizedStaysResizedAlways == Spec => []ResizedStaysResized
  <1>1. Init => PassInv /\ KeptInv
    BY InitTypes, InitLoop DEF Init, PassInv, KeptInv, Pending, NewPod
  <1>2. PassInv /\ [Next]_vars => PassInv'
    BY NextTypes DEF PassInv
  <1>3. KeptInv => ResizedStaysResized
    BY DEF KeptInv, ResizedStaysResized
  <1> QED BY <1>1, <1>2, <1>3, NextKeptInv, PTL DEF Spec

-----------------------------------------------------------------------------
(***************************************************************************)
(* A pass that is alone with the pod.                                      *)
(***************************************************************************)

\* A pass that is alone with the current pod: what it has not reached is as it
\* was listed, on the server and in memory; what it has reached differs in
\* memory only by a recommendation that was refused.
AloneInv ==
    pc # "idle" /\ clean /\ disturbed = {} =>
      /\ pod.state = "Absent" => Containers = {}
      /\ \A c \in Containers :
           IF c \in DOMAIN rec \ todo
             THEN mem.alloc[c] \in {pod.alloc[c], rec[c]}
             ELSE mem.alloc[c] = listed[c] /\ pod.alloc[c] = listed[c]

\* As long as no call has failed nothing was refused.
DeliveredInv ==
    pc # "idle" /\ clean /\ disturbed = {} /\ ~failed /\ mode # "Recreate" =>
      /\ pc \in {"loop", "patch"}
      /\ mem.alloc = pod.alloc
      /\ \A c \in DOMAIN rec \ (todo \cup {cur}) : pod.alloc[c] = rec[c]

Alone == pc # "idle" /\ clean /\ disturbed = {}

\* What others do ends the pass's being alone, or is none of its business.
LEMMA AloneBehind ==
    ASSUME TypeOK, AloneInv, Behind, Alone'
    PROVE  /\ Alone /\ UNCHANGED <<pc, mem, mode, listed, rec, todo, cur, failed>>
           /\ \/ pod'.alloc = pod.alloc /\ pod'.state # "Absent"
              \/ Containers = {}
  <1>1. UNCHANGED <<pc, mem, mode, listed, rec, todo, cur, failed, clean>>
    BY OthersFrame
  <1>2. disturbed = {}
    BY BehindCases DEF Alone, TypeOK
  <1> QED BY <1>1, <1>2, BehindCases DEF Alone, AloneInv

\* A patch of a pass that is alone.
LEMMA AlonePatch ==
    ASSUME PassInv, AloneInv, Patch, Alone
    PROVE  /\ pc' # "idle" /\ UNCHANGED <<mode, listed, rec, todo, clean, disturbed>>
           /\ pc = "patch" /\ cur \in DOMAIN rec \ todo /\ cur \in Containers
           /\ pod'.state = pod.state
           /\ \A c \in Containers :
                /\ c \notin DOMAIN rec \ todo
                     => mem'.alloc[c] = listed[c] /\ pod'.alloc[c] = listed[c]
                /\ c \in DOMAIN rec \ todo => mem'.alloc[c] \in {pod'.alloc[c], rec[c]}
                /\ pod'.alloc[c] # pod.alloc[c]
                     => c \in DOMAIN rec \ todo /\ pod'.alloc[c] = rec[c]
  <1> DEFINE w == Wanted(cur)
             patched == MergePatch(pod, Base, w)
  <1>1. TypeOK /\ LoopInv
    BY DEF PassInv
  <1>2. /\ pc = "patch" /\ cur \in DOMAIN rec \ todo /\ cur \in Containers
        /\ UNCHANGED <<mode, listed, rec, todo, clean, disturbed>>
        /\ pc' # "idle"
    BY <1>1, PatchCases DEF LoopInv, TypeOK
  <1>3. w.alloc[cur] = rec[cur] /\ \A c \in Containers \ {cur} : w.alloc[c] = mem.alloc[c]
    <2>1. w.alloc = [mem.alloc EXCEPT ![cur] = rec[cur]]
      BY <1>1, <1>2, PatchedFields
    <2>2. mem.alloc \in Allocs
      BY <1>1, PodTypeFields DEF TypeOK
    <2> QED BY <1>2, <2>1, <2>2 DEF Allocs
  <1>4. /\ patched.state = pod.state
        /\ mem.alloc[cur] = rec[cur] => patched = pod
        /\ mem.alloc[cur] # rec[cur] => patched.alloc = w.alloc
    BY <1>1, <1>2, PatchedFields
  <1>5. pod' \in {pod, patched} /\ (mem' = w \/ (mem' = pod' /\ pod' = patched))
    BY <1>1, PatchCases
  <1> HIDE DEF w, patched
  <1>6. pod'.state = pod.state
    BY <1>4, <1>5
  <1>7. ASSUME NEW c \in Containers
        PROVE  /\ c \notin DOMAIN rec \ todo
                    => mem'.alloc[c] = listed[c] /\ pod'.alloc[c] = listed[c]
               /\ c \in DOMAIN rec \ todo => mem'.alloc[c] \in {pod'.alloc[c], rec[c]}
               /\ pod'.alloc[c] # pod.alloc[c]
                    => c \in DOMAIN rec \ todo /\ pod'.alloc[c] = rec[c]
    <2>1. IF c \in DOMAIN rec \ todo
            THEN mem.alloc[c] \in {pod.alloc[c], rec[c]}
            ELSE mem.alloc[c] = listed[c] /\ pod.alloc[c] = listed[c]
      BY DEF AloneInv, Alone
    <2>2. w.alloc[c] = mem.alloc[c] \/ (c = cur /\ w.alloc[c] = rec[c])
      BY <1>3
    <2>3. patched.alloc[c] = pod.alloc[c] \/ patched.alloc[c] = w.alloc[c]
      BY <1>4
    <2> QED BY <1>2, <1>5, <2>1, <2>2, <2>3
  <1> QED BY <1>2, <1>6, <1>7

LEMMA NextAloneInv ==
    PassInv /\ AloneInv /\ [Next]_vars => AloneInv'
  <1> SUFFICES ASSUME PassInv, AloneInv, [Next]_vars, Alone' PROVE AloneInv'
    BY DEF AloneInv, Alone
  <1>1. TypeOK /\ LoopInv
    BY DEF PassInv
  <1>2. CASE Behind
    BY <1>1, <1>2, AloneBehind DEF AloneInv, Alone
  <1>3. CASE Sync \/ UNCHANGED vars
    BY <1>3, OthersFrame DEF AloneInv, Sync, vars, passHistory
  <1>4. ASSUME NEW some \in SUBSET Containers, NEW recommended \in [some -> Values],
               StartPass(recommended)
        PROVE  AloneInv'
    BY <1>4 DEF StartPass, AloneInv, Alone
  <1>5. ASSUME NEW c \in Containers, LeaveAlone(c) \/ Apply(c) PROVE AloneInv'
    <2>1. /\ UNCHANGED <<pod, mem, listed, rec, clean, disturbed>>
          /\ todo' = todo \ {c} /\ pc = "loop"
      BY <1>5 DEF LeaveAlone, Apply, passVars, passHistory
    <2> QED BY <2>1 DEF AloneInv
  <1>6. CASE Patch
    <2>1. Alone
      BY <1>1, <1>6, PatchCases DEF Alone
    <2> QED BY <1>6, <2>1, AlonePatch DEF AloneInv, Alone
  <1>7. CASE Annotate
    <2>1. /\ UNCHANGED <<pod, listed, rec, todo, clean, disturbed>>
          /\ pc = "annotate" /\ mem' \in {mem, pod}
      BY <1>7 DEF Annotate, Continue
    <2> QED BY <2>1 DEF AloneInv
  <1>8. CASE Evict
    <2>1. /\ UNCHANGED <<mem, listed, rec, todo, clean, disturbed>>
          /\ pc = "evict" /\ pod'.alloc = pod.alloc
          /\ pod'.state = "Absent" => pod.state = "Absent"
      BY <1>1, <1>8 DEF Evict, Continue, passVars, TypeOK, PodType
    <2> QED BY <2>1 DEF AloneInv
  <1>9. CASE EndPass \/ Crash
    BY <1>9 DEF EndPass, Crash, Forget, AloneInv
  <1> QED
    BY <1>2, <1>3, <1>4, <1>5, <1>6, <1>7, <1>8, <1>9
       DEF Next, Worker, Environment, Behind

\* The patch of one container writes all of them, and yet changes none but to
\* what was recommended for it.
THEOREM OnlyRecommendedAlways == Spec => OnlyRecommended
  <1>1. Init => PassInv /\ AloneInv
    BY InitTypes, InitLoop DEF Init, PassInv, AloneInv
  <1>2. PassInv /\ AloneInv /\ [Next]_vars => PassInv' /\ AloneInv'
    BY NextTypes, NextAloneInv DEF PassInv
  <1>3. PassInv /\ AloneInv /\ [Next]_vars =>
          [Worker /\ clean /\ disturbed = {}
             => \A c \in Containers :
                  pod'.alloc[c] # pod.alloc[c]
                    => c \in DOMAIN rec \ todo /\ pod'.alloc[c] = rec[c]]_vars
    <2> SUFFICES ASSUME PassInv, AloneInv, Worker, clean, disturbed = {},
                        NEW c \in Containers, pod'.alloc[c] # pod.alloc[c]
                 PROVE  c \in DOMAIN rec \ todo /\ pod'.alloc[c] = rec[c]
      OBVIOUS
    <2>1. Patch \/ pod'.alloc = pod.alloc
      <3>1. CASE Evict
        BY <3>1 DEF Evict, PassInv, TypeOK, PodType
      <3>2. CASE \/ Annotate \/ EndPass \/ \E d \in Containers : LeaveAlone(d) \/ Apply(d)
                 \/ \E some \in SUBSET Containers :
                      \E recommended \in [some -> Values] : StartPass(recommended)
        BY <3>2 DEF Annotate, EndPass, Forget, LeaveAlone, Apply, StartPass
      <3> QED BY <3>1, <3>2 DEF Worker
    <2>2. Patch /\ Alone
      BY <2>1 DEF Patch, Alone
    <2> QED BY <2>2, AlonePatch
  <1> QED BY <1>1, <1>2, <1>3, PTL DEF Spec, OnlyRecommended

LEMMA NextDeliveredInv ==
    PassInv /\ AloneInv /\ DeliveredInv /\ PassInv' /\ [Next]_vars => DeliveredInv'
  <1> DEFINE Faultless == Alone /\ ~failed /\ mode # "Recreate"
  <1> SUFFICES ASSUME PassInv, AloneInv, DeliveredInv, PassInv', [Next]_vars, Faultless'
               PROVE  DeliveredInv'
    BY DEF DeliveredInv, Alone
  <1>1. TypeOK /\ TypeOK' /\ LoopInv
    BY DEF PassInv
  <1>2. CASE Behind
    <2>1. Alone /\ UNCHANGED <<pc, mem, mode, listed, rec, todo, cur, failed>>
      BY <1>1, <1>2, AloneBehind
    <2>2. CASE pod'.alloc = pod.alloc
      BY <2>1, <2>2 DEF DeliveredInv, Alone
    <2>3. CASE Containers = {}
      <3>1. mem'.alloc \in Allocs /\ pod'.alloc \in Allocs
        BY <1>1, PodTypeFields DEF TypeOK
      <3>2. mem'.alloc = pod'.alloc
        BY <2>3, <3>1 DEF Allocs
      <3>3. DOMAIN rec = {}
        BY <1>1, <2>3 DEF TypeOK
      <3> QED BY <2>1, <3>2, <3>3 DEF DeliveredInv, Alone
    <2> QED BY <1>1, <1>2, <2>2, <2>3, AloneBehind
  <1>3. CASE Sync \/ UNCHANGED vars
    BY <1>3, OthersFrame DEF DeliveredInv, Sync, vars, passHistory
  <1>4. ASSUME NEW some \in SUBSET Containers, NEW recommended \in [some -> Values],
               StartPass(recommended)
        PROVE  DeliveredInv'
    BY <1>4 DEF StartPass, DeliveredInv, Alone
  <1>5. ASSUME NEW c \in Containers, LeaveAlone(c) PROVE DeliveredInv'
    <2>1. /\ UNCHANGED <<pod, pc, mem, mode, listed, rec, cur, failed, clean, disturbed>>
          /\ todo' = todo \ {c} /\ pc = "loop" /\ c \in todo
          /\ rec[c] = CurrentAllocations[c]
      BY <1>5 DEF LeaveAlone, passVars, passHistory
    <2>2. rec[c] = pod.alloc[c]
      BY <1>5, <2>1 DEF AloneInv, Alone, CurrentAllocations
    <2> QED BY <2>1, <2>2 DEF DeliveredInv, Alone
  <1>6. ASSUME NEW c \in Containers, Apply(c) PROVE DeliveredInv'
    <2>1. /\ UNCHANGED <<pod, mem, mode, listed, rec, failed, clean, disturbed>>
          /\ todo' = todo \ {c} /\ cur' = c /\ pc = "loop" /\ c \in todo
          /\ mode # "Recreate" => pc' = "patch"
      BY <1>6 DEF Apply, passVars, passHistory
    <2>2. cur \notin DOMAIN rec
      BY <1>1, <2>1, UpdaterAssumption DEF TypeOK
    <2> QED BY <2>1, <2>2 DEF DeliveredInv, Alone
  <1>7. CASE Patch
    <2> DEFINE w == Wanted(cur)
               patched == MergePatch(pod, Base, w)
    <2>1. /\ pod' = patched /\ mem' = pod' /\ failed' = failed /\ pc = "patch" /\ pc' = "loop"
          /\ cur' = NoContainer /\ cur \in DOMAIN rec
          /\ UNCHANGED <<mode, rec, todo, clean, disturbed>>
      BY <1>1, <1>7, PatchCases
    <2>2. /\ mem.alloc = pod.alloc
          /\ \A c \in DOMAIN rec \ (todo \cup {cur}) : pod.alloc[c] = rec[c]
      BY <2>1 DEF DeliveredInv, Alone
    <2>3. w.alloc[cur] = rec[cur] /\ \A c \in Containers \ {cur} : w.alloc[c] = mem.alloc[c]
      <3>1. w.alloc = [mem.alloc EXCEPT ![cur] = rec[cur]]
        BY <1>1, <2>1, PatchedFields
      <3>2. mem.alloc \in Allocs /\ cur \in Containers
        BY <1>1, <2>1, PodTypeFields DEF TypeOK
      <3> QED BY <3>1, <3>2 DEF Allocs
    <2>4. /\ mem.alloc[cur] = rec[cur] => patched = pod
          /\ mem.alloc[cur] # rec[cur] => patched.alloc = w.alloc
      BY <1>1, <2>1, PatchedFields
    <2> HIDE DEF w, patched
    <2>5. \A c \in DOMAIN rec \ todo : patched.alloc[c] = rec[c]
      BY <1>1, <2>2, <2>3, <2>4 DEF TypeOK
    <2> QED BY <2>1, <2>5 DEF DeliveredInv
  <1>8. CASE Annotate \/ Evict
    <2>1. pc \in {"annotate", "evict"} /\ UNCHANGED <<mode, clean, disturbed>>
          /\ (failed' = failed \/ failed')
      BY <1>8 DEF Annotate, Evict, passVars
    <2> QED BY <2>1 DEF DeliveredInv, Alone
  <1>9. CASE EndPass \/ Crash
    BY <1>9 DEF EndPass, Crash, Forget, DeliveredInv
  <1> QED
    BY <1>2, <1>3, <1>4, <1>5, <1>6, <1>7, <1>8, <1>9
       DEF Next, Worker, Environment, Behind

\* A pass in place that met no failure has delivered every recommendation it
\* was given, and nothing else.
THEOREM PassDeliversAlways == Spec => []PassDelivers
  <1>1. Init => PassInv /\ AloneInv /\ DeliveredInv
    BY InitTypes, InitLoop DEF Init, PassInv, AloneInv, DeliveredInv
  <1>2. PassInv /\ AloneInv /\ [Next]_vars => PassInv' /\ AloneInv'
    BY NextTypes, NextAloneInv DEF PassInv
  <1>3. PassInv /\ AloneInv /\ DeliveredInv => PassDelivers
    <2> SUFFICES ASSUME PassInv, AloneInv, DeliveredInv, pc = "loop", todo = {}, clean,
                        disturbed = {}, ~failed, mode # "Recreate", NEW c \in Containers
                 PROVE  pod.alloc[c] = IF c \in DOMAIN rec THEN rec[c] ELSE listed[c]
      BY DEF PassDelivers
    <2>1. cur = NoContainer /\ NoContainer # c
      BY UpdaterAssumption DEF PassInv, TypeOK
    <2> QED BY <2>1 DEF AloneInv, DeliveredInv
  <1> QED BY <1>1, <1>2, <1>3, NextDeliveredInv, PTL DEF Spec
=============================================================================
