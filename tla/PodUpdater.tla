------------------------------ MODULE PodUpdater ------------------------------
(***************************************************************************)
(* internal/updater on a pod with several containers, called by the loops  *)
(* of evaluatePodMetrics and evaluateVPAPod.                               *)
(*                                                                         *)
(* What is hard here is the pod object.  It is read from the informer's    *)
(* cache, changed in memory before the call that may fail, replaced by the *)
(* server's answer when it succeeds, and handed on to the next container.  *)
(* Containers are a list, and a JSON merge patch replaces a list as a      *)
(* whole: the patch for one container writes what the object in memory     *)
(* says of all the others.  Neither it nor the eviction names a            *)
(* resourceVersion or a UID, so they hit whatever pod has the name.        *)
(*                                                                         *)
(* Abstracted: a container's resources are one value, and any difference   *)
(* is significant; what is recommended is arbitrary (Sizing); modes that   *)
(* change nothing (Off, DryRun) and the status are Reconciler's.           *)
(***************************************************************************)
EXTENDS Naturals

CONSTANTS
    Containers,     \* containers of the pod
    NoContainer,    \* none of them is being updated
    Values,         \* resources a container may have
    Template,       \* resources of a new pod, in [Containers -> Values]
    Modes,          \* a subset of {"Auto", "InPlace", "Recreate"}
    MaxPods,        \* bound: pods that have the name one after the other
    MaxWrites,      \* bound: changes by other clients
    MaxFaults       \* bound: calls that do not arrive or whose answer is lost

ASSUME UpdaterAssumption ==
    /\ NoContainer \notin Containers
    /\ Template \in [Containers -> Values]
    /\ Modes \subseteq {"Auto", "InPlace", "Recreate"}
    /\ {MaxPods, MaxWrites, MaxFaults} \subseteq Nat

VARIABLES
    pod,         \* server: the pod of that name
    cache,       \* informer: the pod as last delivered
    pc,          \* worker: where it is
    mem,         \* worker: the pod object in memory
    mode,        \* worker: UpdateMode
    source,      \* worker: whose recommendations, "podfather" or "vpa"
    listed,      \* worker: allocations at the start of the pass
    rec,         \* worker: recommendation of each container listed for the pass
    todo,        \* worker: containers the loop has not reached
    cur,         \* worker: container being updated
    resized,     \* history: containers reported as updated in place
    failed,      \* history: a call of this pass has failed
    clean,       \* history: the pass started from the server's current pod
    disturbed,   \* history: containers changed by others during the pass
    writes,      \* history: changes by others so far
    faults       \* history: faults so far

passVars == <<mem, mode, source, listed, rec>>
loopVars == <<todo, cur>>
passHistory == <<resized, failed, clean, disturbed>>
vars == <<pod, cache, pc, passVars, loopVars, passHistory, writes, faults>>

PodType == [uid: Nat, state: {"Running", "Terminating", "Absent"},
            alloc: [Containers -> Values]]

Fault == faults < MaxFaults /\ faults' = faults + 1

NewPod(uid) == [uid |-> uid, state |-> "Running", alloc |-> Template]

Init ==
    /\ pod = NewPod(1) /\ cache = pod
    /\ pc = "idle" /\ mem = NewPod(0) /\ listed = Template /\ rec = <<>>
    /\ mode \in Modes /\ source \in {"podfather", "vpa"}
    /\ todo = {} /\ cur = NoContainer
    /\ resized = {} /\ failed = FALSE /\ clean = TRUE /\ disturbed = {}
    /\ writes = 0 /\ faults = 0

-----------------------------------------------------------------------------
(***************************************************************************)
(* Everyone else.                                                          *)
(***************************************************************************)

Others == UNCHANGED <<pc, passVars, loopVars, resized, failed, clean, faults>>

\* Another client resizes a container.
Write(c, v) ==
    /\ writes < MaxWrites /\ writes' = writes + 1
    /\ pod.state # "Absent" /\ pod.alloc[c] # v
    /\ pod' = [pod EXCEPT !.alloc[c] = v]
    /\ disturbed' = disturbed \cup {c}
    /\ UNCHANGED cache /\ Others

\* The pod is deleted by someone, ends, and its owner starts another of the
\* same name, as a StatefulSet does.
PodStops ==
    /\ writes < MaxWrites /\ writes' = writes + 1
    /\ pod.state = "Running"
    /\ pod' = [pod EXCEPT !.state = "Terminating"]
    /\ UNCHANGED <<cache, disturbed>> /\ Others

PodEnds ==
    /\ pod.state = "Terminating"
    /\ pod' = [pod EXCEPT !.state = "Absent"]
    /\ disturbed' = Containers
    /\ UNCHANGED <<cache, writes>> /\ Others

PodStarts ==
    /\ pod.state = "Absent" /\ pod.uid < MaxPods
    /\ pod' = NewPod(pod.uid + 1)
    /\ UNCHANGED <<cache, disturbed, writes>> /\ Others

Sync ==
    /\ cache # pod /\ cache' = pod
    /\ UNCHANGED <<pod, disturbed, writes>> /\ Others

-----------------------------------------------------------------------------
(***************************************************************************)
(* A pass over the pod: the containers the metrics or the VPA list, in     *)
(* their order, which is any.                                              *)
(***************************************************************************)

\* The running pods of discoverRunningPods, metrics collected.
StartPass(recommended) ==
    /\ pc = "idle" /\ cache.state = "Running"
    /\ pc' = "loop" /\ mem' = cache /\ listed' = cache.alloc
    /\ mode' \in Modes /\ source' \in {"podfather", "vpa"}
    /\ rec' = recommended /\ todo' = DOMAIN recommended
    /\ clean' = (cache = pod) /\ disturbed' = {}
    /\ UNCHANGED <<pod, cache, cur, resized, failed, writes, faults>>

\* GetCurrentAllocations: evaluatePodMetrics calls it before the loop,
\* evaluateVPAPod for each recommendation, on the object as it is by then.
CurrentAllocations == IF source = "vpa" THEN mem.alloc ELSE listed

\* Mutant of Continue: the container stays the current one.
ContinueWithSame == pc' = "loop" /\ UNCHANGED <<todo, cur>>

\* Mutant of Continue: the loop ends with the first container it updates.
ContinueNot == pc' = "loop" /\ cur' = NoContainer /\ todo' = {}

\* Go on to the next container, whatever became of this one.
Continue == pc' = "loop" /\ cur' = NoContainer /\ UNCHANGED todo

LeaveAlone(c) ==
    /\ pc = "loop" /\ c \in todo /\ rec[c] = CurrentAllocations[c]
    /\ todo' = todo \ {c}
    /\ UNCHANGED <<pod, cache, pc, passVars, cur, passHistory, writes, faults>>

\* ApplyRecommendation: the first strategy of each mode.
Apply(c) ==
    /\ pc = "loop" /\ c \in todo /\ rec[c] # CurrentAllocations[c]
    /\ todo' = todo \ {c} /\ cur' = c
    /\ \/ mode = "Recreate" /\ pc' = "annotate"
       \/ mode \in {"Auto", "InPlace"} /\ pc' = "patch"
    /\ UNCHANGED <<pod, cache, passVars, passHistory, writes, faults>>

\* Mutant of Base: each patch is made from the pod as it was listed.
BaseAsListed == [mem EXCEPT !.alloc = listed]

\* What MergeFrom copies: the object as the calls so far have left it.
Base == mem

\* Mutant of Wanted: the name of the container is not compared.
WantedForAll(c) == [Base EXCEPT !.alloc = [d \in Containers |-> rec[c]]]

\* The object with the recommendation of c in it.
Wanted(c) == [Base EXCEPT !.alloc[c] = rec[c]]

\* A merge patch has the fields in which the objects differ, lists as a whole.
MergePatch(server, old, new) ==
    IF new.alloc = old.alloc THEN server
                             ELSE [server EXCEPT !.alloc = new.alloc]

\* In mode Auto a failed patch, whatever the reason, turns into an eviction.
PatchFails(c) ==
    /\ mem' = Wanted(c) /\ failed' = TRUE /\ UNCHANGED resized
    /\ \/ mode = "Auto" /\ pc' = "annotate" /\ UNCHANGED <<todo, cur>>
       \/ mode # "Auto" /\ Continue

\* applyInPlace: the patch is answered with the pod, refused (no pod, no
\* in-place resize, limits, a quota), or lost before or after it is carried out.
Patch ==
    LET patched == MergePatch(pod, Base, Wanted(cur))
    IN  /\ pc = "patch"
        /\ \/ /\ pod.state # "Absent" /\ UNCHANGED faults
              /\ pod' = patched /\ mem' = patched
              /\ resized' = resized \cup {cur}
              /\ Continue /\ UNCHANGED failed
           \/ UNCHANGED <<pod, faults>> /\ PatchFails(cur)
           \/ pod.state # "Absent" /\ Fault /\ pod' = patched /\ PatchFails(cur)
        /\ UNCHANGED <<cache, mode, source, listed, rec, clean, disturbed, writes>>

\* applyViaEviction, first call: the patch of the annotation, answered with the
\* pod.  The containers do not differ, so it writes none.
Annotate ==
    /\ pc = "annotate"
    /\ \/ /\ pod.state # "Absent" /\ UNCHANGED <<faults, failed>>
          /\ mem' = pod /\ pc' = "evict" /\ UNCHANGED <<todo, cur>>
       \/ pod.state = "Absent" /\ UNCHANGED <<faults, mem>> /\ failed' = TRUE /\ Continue
       \/ Fault /\ UNCHANGED mem /\ failed' = TRUE /\ Continue
    /\ UNCHANGED <<pod, cache, mode, source, listed, rec, resized, clean,
                   disturbed, writes>>

\* applyViaEviction, second call.  A pod that is terminating may be evicted
\* again; whether one that runs may is up to the disruption budgets.
Evict ==
    LET evicted == [pod EXCEPT !.state = "Terminating"]
    IN  /\ pc = "evict"
        /\ \/ pod.state # "Absent" /\ pod' = evicted /\ UNCHANGED <<failed, faults>>
           \/ pod.state # "Absent" /\ pod' = evicted /\ Fault /\ failed' = TRUE
           \/ pod.state # "Terminating" /\ UNCHANGED <<pod, faults>> /\ failed' = TRUE
           \/ Fault /\ UNCHANGED pod /\ failed' = TRUE
        /\ Continue
        /\ UNCHANGED <<cache, passVars, resized, clean, disturbed, writes>>

\* The local variables of the pass are gone.
Forget ==
    /\ pc' = "idle" /\ mem' = NewPod(0) /\ listed' = Template /\ rec' = <<>>
    /\ todo' = {} /\ cur' = NoContainer
    /\ resized' = {} /\ failed' = FALSE /\ clean' = TRUE /\ disturbed' = {}
    /\ UNCHANGED <<pod, mode, source, writes, faults>>

EndPass == pc = "loop" /\ todo = {} /\ Forget /\ UNCHANGED cache

\* The process dies in the middle of a pass and lists the pods anew.
Crash == pc # "idle" /\ Forget /\ cache' = pod

Worker ==
    \/ \E some \in SUBSET Containers :
          \E recommended \in [some -> Values] : StartPass(recommended)
    \/ \E c \in Containers : LeaveAlone(c) \/ Apply(c)
    \/ Patch \/ Annotate \/ Evict \/ EndPass

Environment ==
    \/ \E c \in Containers, v \in Values : Write(c, v)
    \/ PodStops \/ PodEnds \/ PodStarts \/ Sync \/ Crash

Next == Worker \/ Environment

Spec == Init /\ [][Next]_vars

-----------------------------------------------------------------------------
(***************************************************************************)
(* Properties.                                                             *)
(***************************************************************************)

\* Every variable has its type.
TypeOK ==
    /\ pod \in PodType /\ cache \in PodType /\ mem \in PodType
    /\ pc \in {"idle", "loop", "patch", "annotate", "evict"}
    /\ mode \in Modes /\ source \in {"podfather", "vpa"}
    /\ listed \in [Containers -> Values]
    /\ DOMAIN rec \subseteq Containers /\ rec \in [DOMAIN rec -> Values]
    /\ todo \subseteq DOMAIN rec /\ cur \in DOMAIN rec \cup {NoContainer}
    /\ (pc \in {"patch", "annotate", "evict"}) = (cur # NoContainer)
    /\ resized \subseteq DOMAIN rec /\ disturbed \subseteq Containers
    /\ failed \in BOOLEAN /\ clean \in BOOLEAN
    /\ writes \in 0 .. MaxWrites /\ faults \in 0 .. MaxFaults

\* A container reported as updated in place has its recommendation for as long
\* as the pass lasts, unless someone else changed it or the pod ended: the
\* patch of a later container, sent, refused or lost, never takes it back.
\* However old the listed pod is, the answer to the first patch replaced it.
ResizedStaysResized ==
    \A c \in resized \ disturbed : pod.alloc[c] = rec[c]

\* A pass that starts from the current pod and is alone with it changes no
\* container other than to its own recommendation, although every patch
\* writes all of them, those that were refused before included.
OnlyRecommended ==
    [][Worker /\ clean /\ disturbed = {}
         => \A c \in Containers :
              pod'.alloc[c] # pod.alloc[c]
                => c \in DOMAIN rec \ todo /\ pod'.alloc[c] = rec[c]]_vars

\* A pass in place in which no call failed leaves each container it evaluated
\* at its recommendation and the others as they were: none is passed over
\* because an earlier one was updated.
PassDelivers ==
    pc = "loop" /\ todo = {} /\ clean /\ disturbed = {} /\ ~failed
      /\ mode # "Recreate"
      => \A c \in Containers :
           pod.alloc[c] = IF c \in DOMAIN rec THEN rec[c] ELSE listed[c]
=============================================================================
