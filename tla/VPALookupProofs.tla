--------------------------- MODULE VPALookupProofs ---------------------------
(***************************************************************************)
(* Theorems about VPALookup, for every set of names, VPAs and policies.    *)
(***************************************************************************)
EXTENDS VPALookup, FoldLemmas, TLAPS

LEMMA AnyPolicyType == AnyPolicy \in Policies
  BY LookupAssumption DEF AnyPolicy

LEMMA PolicyFields ==
    ASSUME NEW p \in Policies
    PROVE  /\ p.enabled \in BOOLEAN /\ p.strict \in BOOLEAN /\ p.name \in Names
           /\ p.by \in {"name", "target", "nothing"}
  BY LookupAssumption DEF PolicyType

LEMMA VpaFields ==
    ASSUME NEW v \in Vpas
    PROVE  /\ v # NoVpa /\ v.target \in {"mine", "other", "missing"}
           /\ v.mode \in {"unset", "Off", "Initial", "Recreate", "Auto"}
           /\ v.recs \in {"absent", "empty", "some"}
  BY LookupAssumption DEF VpaType

\* The four outcomes are all there are.
LEMMA ClassifyTypes == \A v : Classify(v) \in Results
  <1> SUFFICES ASSUME NEW v PROVE Classify(v) \in Results
    OBVIOUS
  <1>1. CASE v = NoVpa
    BY <1>1 DEF Classify, Results
  <1>2. CASE v # NoVpa /\ ~Valid(v)
    BY <1>2 DEF Classify, Results
  <1>3. CASE v # NoVpa /\ Valid(v)
    BY <1>3 DEF Classify, Results
  <1> QED BY <1>1, <1>2, <1>3

\* Every VPA but one in mode Off is a conflict, one without a mode included.
LEMMA ActingConflicts ==
    ASSUME NEW v \in Vpas, v.mode # "Off"
    PROVE  Classify(v) = "conflict"
  BY LookupAssumption DEF Classify, Valid, UpdateMode

\* What is found in a list that has a match is one, whichever comes first.
LEMMA FirstMatching ==
    ASSUME Matching # {}
    PROVE  \E n \in Matching : FindMatchingVPA = vpas[n]
  <1>1. Matching \in SUBSET Nat
    BY LookupAssumption DEF Matching
  <1>2. \E n \in Matching : \A m \in Matching : n <= m
    BY <1>1, NatSetLeast
  <1> QED BY <1>2 DEF FindMatchingVPA

LEMMA ConcludeFacts ==
    ASSUME NEW r \in Results, Conclude(r), pa \in Policies
    PROVE  /\ result' = r /\ pc' \in {"act", "halt"}
           /\ (pc' = "halt") = (result' = "conflict" /\ pa.strict)
  BY PolicyFields DEF Conclude

LEMMA InitTypes == Init => TypeOK
  BY AnyPolicyType, LookupAssumption DEF Init, TypeOK, Results

LEMMA NextTypes == TypeOK /\ [Next]_vars => TypeOK'
  <1> SUFFICES ASSUME TypeOK, [Next]_vars PROVE TypeOK'
    OBVIOUS
  <1>1. (\E n \in Names : VpaChanges(n)) \/ CrdChanges \/ PolicyChanges => TypeOK'
    <2>1. Change => changes' \in 0 .. MaxChanges /\ certain' \in BOOLEAN
      BY LookupAssumption DEF Change, TypeOK
    <2>2. ASSUME NEW n \in Names, VpaChanges(n) PROVE TypeOK'
      BY <2>1, <2>2 DEF VpaChanges, Change, TypeOK
    <2>3. CASE CrdChanges
      BY <2>1, <2>3 DEF CrdChanges, Change, TypeOK
    <2>4. CASE PolicyChanges
      BY <2>1, <2>4 DEF PolicyChanges, Change, TypeOK
    <2> QED BY <2>2, <2>3, <2>4
  <1>2. CASE Start
    BY <1>2 DEF Start, TypeOK
  <1>3. CASE Disabled \/ IsVPAInstalled \/ LookUp \/ CallFails
    <2>1. /\ UNCHANGED <<installed, vpas, policy, pa, changes>>
          /\ certain' \in BOOLEAN
          /\ faults' \in 0 .. MaxFaults
      <3>1. /\ UNCHANGED <<installed, vpas, policy, pa, changes>>
            /\ certain' = certain \/ certain' = FALSE
            /\ faults' = faults \/ (faults < MaxFaults /\ faults' = faults + 1)
        BY <1>3 DEF Disabled, IsVPAInstalled, LookUp, CallFails
      <3>2. certain' \in BOOLEAN
        BY <3>1 DEF TypeOK
      <3>3. faults' \in 0 .. MaxFaults
        BY <3>1, LookupAssumption DEF TypeOK
      <3> QED BY <3>1, <3>2, <3>3
    <2>2. CASE pc' = "lookUp" /\ UNCHANGED result /\ pc = "isInstalled"
      BY <2>1, <2>2 DEF TypeOK
    <2>3. CASE \E r \in Results : Conclude(r)
      <3>1. PICK r \in Results : Conclude(r)
        BY <2>3
      <3> QED BY <2>1, <3>1, ConcludeFacts DEF TypeOK
    <2>4. "none" \in Results
      BY DEF Results
    <2> QED BY <1>3, <2>2, <2>3, <2>4, ClassifyTypes
            DEF Disabled, IsVPAInstalled, LookUp, CallFails
  <1>4. CASE Finish
    BY <1>4, AnyPolicyType DEF Finish, TypeOK, Results
  <1>5. CASE UNCHANGED vars
    BY <1>5 DEF vars, TypeOK
  <1> QED BY <1>1, <1>2, <1>3, <1>4, <1>5 DEF Next, Worker

\* Type correctness; a reconcile halts when and only when strict mode asks it
\* to.
THEOREM TypeCorrectness == Spec => []TypeOK
  BY InitTypes, NextTypes, PTL DEF Spec

\* Without the CRD there are no objects.
NoCrdInv == ~installed => \A n \in Names : vpas[n] = NoVpa

LookupInv == TypeOK /\ NoCrdInv /\ StrictModeRefuses

LEMMA InitLookupInv == Init => LookupInv
  <1> SUFFICES ASSUME Init PROVE LookupInv
    OBVIOUS
  <1>1. ~installed => vpas \in [Names -> {NoVpa}]
    BY DEF Init
  <1>2. NoCrdInv
    BY <1>1 DEF NoCrdInv
  <1>3. pc = "idle"
    BY DEF Init
  <1> QED BY <1>2, <1>3, InitTypes DEF LookupInv, StrictModeRefuses

\* What bears on a policy is a VPA of the list, and it parses.
LEMMA BearingParses ==
    ASSUME TypeOK, NEW n \in Bearing(pa)
    PROVE  n \in Names /\ Parses(vpas[n]) /\ vpas[n] \in Vpas
  <1>1. pa.name \in Names /\ pa.by \in {"name", "target", "nothing"}
    BY PolicyFields DEF TypeOK
  <1>2. n \in Names /\ Parses(vpas[n])
    BY <1>1 DEF Bearing, Matching
  <1> QED BY <1>2 DEF TypeOK, Parses

\* The second call classifies one of the VPAs that bear on the resource.
LEMMA LookUpClassifies ==
    ASSUME TypeOK, LookUp, Bearing(pa) # {}
    PROVE  \E n \in Bearing(pa) : Conclude(Classify(vpas[n]))
  <1>1. pa.by \in {"name", "target", "nothing"}
    BY PolicyFields DEF TypeOK
  <1>2. CASE pa.by = "target"
    <2>1. Bearing(pa) = Matching
      BY <1>2 DEF Bearing
    <2>2. PICK n \in Matching : FindMatchingVPA = vpas[n]
      BY <2>1, FirstMatching
    <2> QED BY <1>2, <2>1, <2>2 DEF LookUp
  <1>3. CASE pa.by = "name"
    BY <1>3 DEF Bearing, LookUp, GetVPA
  <1>4. CASE pa.by = "nothing"
    BY <1>4 DEF Bearing
  <1> QED BY <1>1, <1>2, <1>3, <1>4

\* A lookup that could be made acts beside no VPA that is alone, and beside
\* several only if one of them does not act.
LEMMA LookUpRefuses ==
    ASSUME TypeOK, LookUp, pc' = "act", pa.strict, Bearing(pa) # {}
    PROVE  \E n \in Bearing(pa) : ~Acting(n)
  <1>1. PICK n \in Bearing(pa) : Conclude(Classify(vpas[n]))
    BY LookUpClassifies
  <1>2. Classify(vpas[n]) # "conflict"
    BY <1>1 DEF Conclude
  <1> QED BY <1>2, BearingParses, ActingConflicts DEF Acting

LEMMA NextLookupInv == LookupInv /\ [Next]_vars => LookupInv'
  <1> SUFFICES ASSUME LookupInv, [Next]_vars PROVE LookupInv'
    OBVIOUS
  <1>1. TypeOK /\ TypeOK' /\ NoCrdInv /\ StrictModeRefuses
    BY NextTypes DEF LookupInv
  <1>2. CASE (\E n \in Names : VpaChanges(n)) \/ CrdChanges \/ PolicyChanges
    <2>1. certain' => pc' = "idle"
      BY <1>2 DEF VpaChanges, CrdChanges, PolicyChanges, Change
    <2>2. NoCrdInv'
      BY <1>1, <1>2 DEF VpaChanges, CrdChanges, PolicyChanges, NoCrdInv
    <2> QED BY <1>1, <2>1, <2>2 DEF LookupInv, StrictModeRefuses
  <1>3. CASE Worker
    <2>1. UNCHANGED <<installed, vpas>>
      BY <1>3 DEF Worker, Start, Disabled, IsVPAInstalled, LookUp, CallFails, Finish
    <2>2. NoCrdInv'
      BY <1>1, <2>1 DEF NoCrdInv
    <2>3. CASE Start \/ Finish
      BY <1>1, <2>2, <2>3 DEF Start, Finish, LookupInv, StrictModeRefuses
    <2>4. CASE Disabled \/ CallFails
      BY <1>1, <2>2, <2>4 DEF Disabled, CallFails, LookupInv, StrictModeRefuses
    <2>5. CASE IsVPAInstalled
      <3>1. pc' = "lookUp" \/ ~installed
        BY <2>5 DEF IsVPAInstalled
      <3>2. ~installed => Bearing(pa) = {}
        <4>1. ~installed => \A n \in Names : ~Parses(vpas[n])
          BY <1>1 DEF NoCrdInv, Parses
        <4>2. pa.name \in Names /\ pa.by \in {"name", "target", "nothing"}
          BY <1>1, PolicyFields DEF TypeOK
        <4> QED BY <4>1, <4>2 DEF Bearing, Matching
      <3>3. UNCHANGED <<vpas, pa>>
        BY <2>5 DEF IsVPAInstalled
      <3>4. Bearing(pa)' = Bearing(pa)
        BY <3>3 DEF Bearing, Matching
      <3> QED BY <1>1, <2>2, <3>1, <3>2, <3>4 DEF LookupInv, StrictModeRefuses
    <2>6. CASE LookUp
      <3>1. UNCHANGED <<vpas, pa>>
        BY <2>6 DEF LookUp
      <3>2. Bearing(pa)' = Bearing(pa) /\ \A n : Acting(n)' = Acting(n)
        BY <3>1 DEF Bearing, Matching, Acting
      <3>3. StrictModeRefuses'
        BY <1>1, <2>6, <3>1, <3>2, LookUpRefuses DEF StrictModeRefuses
      <3> QED BY <1>1, <2>2, <3>3 DEF LookupInv
    <2> QED BY <1>3, <2>3, <2>4, <2>5, <2>6 DEF Worker
  <1>4. CASE UNCHANGED vars
    <2>1. UNCHANGED <<installed, vpas, pc, pa, certain>>
      BY <1>4 DEF vars
    <2> QED BY <1>1, <2>1
            DEF LookupInv, NoCrdInv, StrictModeRefuses, Bearing, Matching, Acting
  <1> QED BY <1>2, <1>3, <1>4 DEF Next

\* Strict mode never acts on a resource all of whose VPAs act too: for any
\* number of VPAs, by whatever way they are found, whatever changed before the
\* lookup and whichever earlier lookups failed.
THEOREM StrictModeRefusesAlways == Spec => []StrictModeRefuses
  <1>1. LookupInv => StrictModeRefuses
    BY DEF LookupInv
  <1> QED BY <1>1, InitLookupInv, NextLookupInv, PTL DEF Spec
-----------------------------------------------------------------------------
(***************************************************************************)
(* The two calls of a lookup act as one.                                   *)
(***************************************************************************)

\* Nothing bears on a resource that looks for nothing.
LEMMA TruthOfNothing ==
    ASSUME ~pa.enabled \/ Bearing(pa) = {}
    PROVE  "none" \in Truths(pa)
  BY DEF Truths

\* The controller makes of a VPA what it is.
LEMMA ClassifiesTruly ==
    ASSUME TypeOK, pa.enabled, NEW n \in Bearing(pa)
    PROVE  Classify(vpas[n]) \in Truths(pa)
  <1> SUFFICES Classify(vpas[n]) = Verdict(n)
    BY DEF Truths
  <1>1. vpas[n] \in Vpas /\ vpas[n] # NoVpa
    BY BearingParses DEF Parses
  <1>2. vpas[n].mode \in {"unset", "Off", "Initial", "Recreate", "Auto"}
    BY <1>1, VpaFields
  <1>3. Acting(n) <=> ~Valid(vpas[n])
    BY <1>2 DEF Acting, Valid, UpdateMode
  <1>4. CASE Acting(n)
    BY <1>1, <1>3, <1>4 DEF Classify, Verdict
  <1>5. CASE ~Acting(n) /\ vpas[n].recs = "some"
    BY <1>1, <1>3, <1>5 DEF Classify, Verdict
  <1>6. CASE ~Acting(n) /\ vpas[n].recs # "some"
    BY <1>1, <1>3, <1>6 DEF Classify, Verdict
  <1> QED BY <1>4, <1>5, <1>6

\* The second call finds what bears on the resource, or nothing if nothing does.
LEMMA LookUpFindsTruth ==
    ASSUME TypeOK, pa.enabled, LookUp
    PROVE  result' \in Truths(pa)
  <1>1. pa.by \in {"name", "target", "nothing"}
    BY PolicyFields DEF TypeOK
  <1>2. CASE Bearing(pa) = {}
    <2>1. Classify(NoVpa) = "none"
      BY DEF Classify
    <2>2. pa.by = "target" => FindMatchingVPA = NoVpa
      BY <1>2 DEF Bearing, FindMatchingVPA
    <2>3. pa.by = "name" => GetVPA(pa.name) = NoVpa
      BY <1>2 DEF Bearing, GetVPA
    <2>4. result' = "none"
      BY <1>1, <2>1, <2>2, <2>3 DEF LookUp, Conclude
    <2> QED BY <1>2, <2>4, TruthOfNothing
  <1>3. CASE Bearing(pa) # {}
    <2>1. PICK n \in Bearing(pa) : Conclude(Classify(vpas[n]))
      BY <1>3, LookUpClassifies
    <2> QED BY <2>1, ClassifiesTruly DEF Conclude
  <1> QED BY <1>2, <1>3

\* Only an integration that is enabled looks for a VPA.
SeekingInv == pc = "lookUp" => pa.enabled

LEMMA NextSeekingInv == SeekingInv /\ [Next]_vars => SeekingInv'
  <1> SUFFICES ASSUME SeekingInv, [Next]_vars PROVE SeekingInv'
    OBVIOUS
  <1>1. CASE (\E n \in Names : VpaChanges(n)) \/ CrdChanges \/ PolicyChanges
    BY <1>1 DEF VpaChanges, CrdChanges, PolicyChanges, Change, SeekingInv
  <1>2. CASE Start \/ Disabled \/ LookUp \/ CallFails \/ Finish
    BY <1>2 DEF Start, Disabled, LookUp, CallFails, Finish, Conclude, SeekingInv
  <1>3. CASE IsVPAInstalled
    BY <1>3 DEF IsVPAInstalled, SeekingInv
  <1>4. CASE UNCHANGED vars
    BY <1>4 DEF vars, SeekingInv
  <1> QED BY <1>1, <1>2, <1>3, <1>4 DEF Next, Worker

\* A lookup ends in one of four steps: with nothing to look for, with VPA not
\* installed - and then there are no objects, whatever there was when the lookup
\* began -, with the second call, or with a failure.
LEMMA LookupStep ==
    ASSUME LookupInv, SeekingInv, [Next]_vars
    PROVE  faults' = faults /\ pc \in {"isInstalled", "lookUp"}
             /\ pc' \in {"act", "halt"}
             => result' \in Truths(pa)
  <1> SUFFICES ASSUME pc \in {"isInstalled", "lookUp"}, pc' \in {"act", "halt"},
                      faults' = faults
               PROVE  result' \in Truths(pa)
    OBVIOUS
  <1>1. TypeOK /\ NoCrdInv /\ faults \in Nat
    BY LookupAssumption DEF LookupInv, TypeOK
  <1>2. CASE Disabled
    BY <1>2, TruthOfNothing DEF Disabled, Conclude
  <1>3. CASE IsVPAInstalled
    <2>1. ~installed /\ result' = "none"
      BY <1>3 DEF IsVPAInstalled, Conclude
    <2>2. Bearing(pa) = {}
      BY <1>1, <2>1, BearingParses DEF NoCrdInv, Parses
    <2> QED BY <2>1, <2>2, TruthOfNothing
  <1>4. CASE LookUp
    BY <1>1, <1>4, LookUpFindsTruth DEF LookUp, SeekingInv
  <1>5. CASE CallFails
    BY <1>1, <1>5 DEF CallFails
  <1>6. CASE Start \/ Finish
    BY <1>6 DEF Start, Finish
  <1>7. CASE (\E n \in Names : VpaChanges(n)) \/ CrdChanges \/ PolicyChanges
    BY <1>7 DEF VpaChanges, CrdChanges, PolicyChanges, Change
  <1>8. CASE UNCHANGED vars
    BY <1>8 DEF vars
  <1> QED BY <1>2, <1>3, <1>4, <1>5, <1>6, <1>7, <1>8 DEF Next, Worker

\* The two calls of a lookup act as one: with any number of VPAs written,
\* edited and deleted and the CRD coming and going between them, the result of
\* checkVPAIntegration is what is true at its last call, so Reconciler may take
\* the lookup as one step.
THEOREM LookupIsAtomicAlways == Spec => LookupIsAtomic
  <1> DEFINE Atomic == faults' = faults /\ pc \in {"isInstalled", "lookUp"}
                         /\ pc' \in {"act", "halt"}
                         => result' \in Truths(pa)
  <1>1. Init => SeekingInv
    BY DEF Init, SeekingInv
  <1>2. LookupInv /\ SeekingInv /\ [Next]_vars => [Atomic]_vars
    BY LookupStep
  <1> QED BY <1>1, <1>2, InitLookupInv, NextLookupInv, NextSeekingInv, PTL
          DEF Spec, LookupIsAtomic
=============================================================================
