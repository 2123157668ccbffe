------------------------------- MODULE VPALookup -------------------------------
(***************************************************************************)
(* internal/vpa and the part of the controller that calls it               *)
(* (checkVPAIntegration, shouldHaltForVPAConflict): how a reconcile comes  *)
(* to its idea of the VPA that targets its workload, while VPAs are made,  *)
(* edited and deleted and the CRD comes and goes.  It takes two calls, one *)
(* to see whether VPA is installed and one to find the object; a call that *)
(* fails is logged and treated as if nothing had been found.               *)
(*                                                                         *)
(* The result is what Reconciler's LookUpVPA abstracts to one step.        *)
(* Abstracted: a target is this workload, another one or missing; what is  *)
(* recommended for a container is Sizing's.                                *)
(***************************************************************************)
EXTENDS Naturals

CONSTANTS
    Names,         \* names a VPA of the namespace may have, numbered as listed
    NoVpa,         \* no VPA
    Vpas,          \* VPAs that may be written, a subset of VpaType
    Policies,      \* VPAPolicy and TargetRef the user may write
    MaxChanges,    \* bound: changes to the VPAs, the CRD and the policy
    MaxFaults      \* bound: calls that fail

\* The fields parseVPA reads.  A mode may be left out, a list of recommendations
\* may be there and empty.
VpaType == [target: {"mine", "other", "missing"},
            mode: {"unset", "Off", "Initial", "Recreate", "Auto"},
            recs: {"absent", "empty", "some"}]

\* VPAPolicy.Enabled, StrictMode, and how the VPA is found: by VPAName, by the
\* TargetRef, or not at all when neither is given.
PolicyType == [enabled: BOOLEAN, strict: BOOLEAN,
               by: {"name", "target", "nothing"}, name: Names]

ASSUME LookupAssumption ==
    /\ Names \subseteq Nat /\ NoVpa \notin VpaType
    /\ Vpas \subseteq VpaType
    /\ Policies \subseteq PolicyType /\ Policies # {}
    /\ {MaxChanges, MaxFaults} \subseteq Nat

VARIABLES
    installed,   \* cluster: the CRD is installed
    vpas,        \* server: the VPA of each name
    policy,      \* server: the PodAutoscaler's VPAPolicy
    pc,          \* worker: the call it makes next
    pa,          \* worker: its copy of the policy
    result,      \* worker: what the lookup came to
    certain,     \* history: no call of this lookup failed, nothing changed since
    changes,     \* history: changes so far
    faults       \* history: faults so far

vars == <<installed, vpas, policy, pc, pa, result, certain, changes, faults>>

\* "none" also stands for an integration that is disabled.
Results == {"none", "conflict", "off", "recommending"}

AnyPolicy == CHOOSE p \in Policies : TRUE

Init ==
    /\ installed \in BOOLEAN
    /\ vpas \in [Names -> IF installed THEN Vpas \cup {NoVpa} ELSE {NoVpa}]
    /\ policy \in Policies
    /\ pc = "idle" /\ pa = AnyPolicy /\ result = "none" /\ certain = TRUE
    /\ changes = 0 /\ faults = 0

-----------------------------------------------------------------------------
(***************************************************************************)
(* The cluster and the user.                                               *)
(***************************************************************************)

Change ==
    /\ changes < MaxChanges /\ changes' = changes + 1
    /\ certain' = (pc = "idle")
    /\ UNCHANGED <<pc, pa, result, faults>>

\* A VPA is created, edited or deleted.
VpaChanges(n) ==
    /\ installed
    /\ \E v \in (Vpas \cup {NoVpa}) \ {vpas[n]} : vpas' = [vpas EXCEPT ![n] = v]
    /\ Change /\ UNCHANGED <<installed, policy>>

\* The CRD is installed, or removed with all its objects.
CrdChanges ==
    /\ installed' = ~installed /\ vpas' = [n \in Names |-> NoVpa]
    /\ Change /\ UNCHANGED policy

PolicyChanges ==
    /\ policy' \in Policies \ {policy}
    /\ Change /\ UNCHANGED <<installed, vpas>>

-----------------------------------------------------------------------------
(***************************************************************************)
(* internal/vpa.                                                           *)
(***************************************************************************)

\* parseVPA gives an error for an object without a targetRef.
Parses(v) == v # NoVpa /\ v.target # "missing"

\* Mutant of UpdateMode: a mode that is not set is Off, not the VPA's default.
UpdateModeOff(v) == IF v.mode = "unset" THEN "Off" ELSE v.mode

UpdateMode(v) == IF v.mode = "unset" THEN "Auto" ELSE v.mode

\* Mutant of Valid: only the mode Auto is seen as a conflict.
ValidUnlessAuto(v) == UpdateMode(v) # "Auto"

\* ValidateVPAMode.
Valid(v) == UpdateMode(v) = "Off"

Matching == {n \in Names : Parses(vpas[n]) /\ vpas[n].target = "mine"}

\* FindMatchingVPA: the first of the list that parses and has the target.
FindMatchingVPA ==
    IF Matching = {} THEN NoVpa
    ELSE vpas[CHOOSE n \in Matching : \A m \in Matching : n <= m]

\* GetVPA: an object that does not parse is an error, and there is none either.
\* Whose workload it targets is not looked at.
GetVPA(n) == IF Parses(vpas[n]) THEN vpas[n] ELSE NoVpa

-----------------------------------------------------------------------------
(***************************************************************************)
(* checkVPAIntegration.                                                    *)
(***************************************************************************)

\* Mutant of Classify: a list that is there is taken for a recommendation.
ClassifyListed(v) ==
    CASE v = NoVpa -> "none"
      [] v # NoVpa /\ ~Valid(v) -> "conflict"
      [] v # NoVpa /\ Valid(v) /\ v.recs = "absent" -> "off"
      [] v # NoVpa /\ Valid(v) /\ v.recs # "absent" -> "recommending"

\* What the controller makes of the VPA it found.
Classify(v) ==
    CASE v = NoVpa -> "none"
      [] v # NoVpa /\ ~Valid(v) -> "conflict"
      [] v # NoVpa /\ Valid(v) /\ v.recs # "some" -> "off"
      [] v # NoVpa /\ Valid(v) /\ v.recs = "some" -> "recommending"

\* Mutant of Conclude: strict mode warns and goes on.
ConcludeWarning(r) == result' = r /\ pc' = "act"

\* shouldHaltForVPAConflict, or on to the pods.
Conclude(r) ==
    /\ result' = r
    /\ pc' = IF r = "conflict" /\ pa.strict THEN "halt" ELSE "act"

\* A reconcile starts from the policy of its resource.
Start ==
    /\ pc = "idle"
    /\ pc' = "isInstalled" /\ pa' = policy
    /\ UNCHANGED <<installed, vpas, policy, result, certain, changes, faults>>

Disabled ==
    /\ pc = "isInstalled" /\ ~pa.enabled
    /\ Conclude("none")
    /\ UNCHANGED <<installed, vpas, policy, pa, certain, changes, faults>>

\* IsVPAInstalled: a List of one object, in any namespace.
IsVPAInstalled ==
    /\ pc = "isInstalled" /\ pa.enabled
    /\ \/ installed /\ pc' = "lookUp" /\ UNCHANGED result
       \/ ~installed /\ Conclude("none")
    /\ UNCHANGED <<installed, vpas, policy, pa, certain, changes, faults>>

\* By name if there is one, otherwise by target if there is one.
LookUp ==
    /\ pc = "lookUp"
    /\ \/ pa.by = "nothing" /\ Conclude("none")
       \/ pa.by = "target" /\ Conclude(Classify(FindMatchingVPA))
       \/ pa.by = "name" /\ Conclude(Classify(GetVPA(pa.name)))
    /\ UNCHANGED <<installed, vpas, policy, pa, certain, changes, faults>>

\* Either call fails: to the controller there is no VPA.
CallFails ==
    /\ pc \in {"isInstalled", "lookUp"} /\ pa.enabled
    /\ pc = "lookUp" => pa.by # "nothing"
    /\ faults < MaxFaults /\ faults' = faults + 1
    /\ certain' = FALSE
    /\ Conclude("none")
    /\ UNCHANGED <<installed, vpas, policy, pa, changes>>

\* The pods are updated, or the reconcile halts; the next one starts anew.
Finish ==
    /\ pc \in {"act", "halt"}
    /\ pc' = "idle" /\ result' = "none" /\ pa' = AnyPolicy /\ certain' = TRUE
    /\ UNCHANGED <<installed, vpas, policy, changes, faults>>

Worker == Start \/ Disabled \/ IsVPAInstalled \/ LookUp \/ CallFails \/ Finish

Next ==
    \/ Worker
    \/ \E n \in Names : VpaChanges(n)
    \/ CrdChanges \/ PolicyChanges

Spec == Init /\ [][Next]_vars

\* The interval brings the next reconcile, and a reconcile ends.
Fairness == WF_vars(Worker)

FairSpec == Spec /\ Fairness

-----------------------------------------------------------------------------
(***************************************************************************)
(* Properties.                                                             *)
(***************************************************************************)

\* Every variable has its type.
TypeOK ==
    /\ installed \in BOOLEAN /\ vpas \in [Names -> Vpas \cup {NoVpa}]
    /\ policy \in Policies /\ pa \in Policies
    /\ pc \in {"idle", "isInstalled", "lookUp", "act", "halt"}
    /\ result \in Results /\ certain \in BOOLEAN
    /\ (pc = "halt") = (result = "conflict" /\ pa.strict)
    /\ result # "none" => pc \in {"act", "halt"}
    /\ changes \in 0 .. MaxChanges /\ faults \in 0 .. MaxFaults

\* The VPAs a resource with policy p is concerned with: every one that has its
\* target, or the one of the name it gives.
Bearing(p) ==
    CASE p.by = "target"  -> Matching
      [] p.by = "name"    -> {n \in {p.name} : Parses(vpas[n])}
      [] p.by = "nothing" -> {}

\* As the VPA project means it: a VPA acts unless its mode is set to Off.
Acting(n) == vpas[n].mode # "Off"

\* What a lookup should make of the VPA n, if it is the only one.
Verdict(n) ==
    CASE Acting(n)                             -> "conflict"
      [] ~Acting(n) /\ vpas[n].recs = "some"  -> "recommending"
      [] ~Acting(n) /\ vpas[n].recs # "some"  -> "off"

\* What a lookup for a resource with policy p may come to: nothing looked for or
\* nothing there, or the verdict of a VPA that bears on it.
Truths(p) == IF ~p.enabled \/ Bearing(p) = {} THEN {"none"}
             ELSE {Verdict(n) : n \in Bearing(p)}

\* Strict mode never acts on a resource all of whose VPAs act too, however many
\* they are, if no call of the lookup failed and nothing changed since.
StrictModeRefuses ==
    pc = "act" /\ pa.enabled /\ pa.strict /\ certain
      => Bearing(pa) = {} \/ \E n \in Bearing(pa) : ~Acting(n)

\* The two calls of a lookup act as one: whatever comes between them - VPAs made
\* and deleted, the CRD installed or removed - a lookup none of whose calls
\* failed comes to what is true at its last one: the verdict of one of the VPAs
\* there are then, and none only if there is none.
LookupIsAtomic ==
    [][faults' = faults /\ pc \in {"isInstalled", "lookUp"} /\ pc' \in {"act", "halt"}
         => result' \in Truths(pa)]_vars

\* Whatever changed during earlier lookups and whichever calls failed: what is
\* true of no VPA any more is in the end not acted on any more, and strict mode
\* is not bypassed for ever.
LookupCatchesUp ==
    /\ \A r \in Results :
         <>[](r \notin Truths(policy)) => <>[](pc = "act" => result # r)
    /\ <>[](policy.strict /\ Truths(policy) = {"conflict"}) => <>[](pc # "act")
=============================================================================
