-------------------------------- MODULE Sizing --------------------------------
(***************************************************************************)
(* What one PodAutoscaler does to the resources of its pods, interval      *)
(* after interval, while the usage, the VerticalPodAutoscaler and the      *)
(* limits of the namespace change.  A pass of Reconcile fetches the        *)
(* VPA's recommendation and the namespace's constraints once and then      *)
(* takes the pods one by one: recommend, clamp, compare, patch or evict.   *)
(* The API server decides whether a patch is admitted.                     *)
(*                                                                         *)
(* Reconciler models when a pass runs and what it reports; here every pass *)
(* finds all the pods running, with one container each, and reads their    *)
(* allocations as they are.                                                *)
(***************************************************************************)
EXTENDS NamespaceLimits

CONSTANTS
    Pods,
    Modes,          \* the values spec.updatePolicy.updateMode may have
    Threshold,      \* spec.varianceThresholdPercent
    ResizeAllowed,  \* whether the API server lets resources be patched
    Template,       \* the allocation the workload gives a new pod
    Usages,         \* what the metrics API may report, for each resource
    VpaRecs,        \* what the VPA may recommend, for each resource, and
    NoRec,          \* no recommendation: Calculate's is used
    LimitRanges,    \* the LimitRangeItems the namespace may have
    Quotas,         \* the hard quotas it may have; Unlimited for none
    OthersUse,      \* what the quota counts besides these pods
    MaxChanges      \* bound: changes of usage, VPA, LimitRanges and quota

Allocation == [Resources -> [req: Nat, lim: Nat]]
Absent == 0  \* an upperBound the VPA's recommendation does not have

ASSUME SizingAssumption ==
    /\ IsFiniteSet(Pods)
    /\ Modes \subseteq {"Auto", "InPlace", "Recreate"}
    /\ Threshold \in 1..100
    /\ ResizeAllowed \in BOOLEAN
    /\ Template \in Allocation
    /\ Usages \subseteq [Resources -> Nat]
    /\ VpaRecs \ {NoRec} \subseteq [Resources -> [target: Nat, upper: Nat]]
    /\ LimitRanges \subseteq [Resources -> Seq(LimitRangeItem)]
    /\ Quotas \subseteq [Resources -> Nat]
    /\ OthersUse \in [Resources -> Nat]
    /\ MaxChanges \in Nat

VARIABLES
    mode,      \* spec.updatePolicy.updateMode
    usage,     \* metrics API: what each pod uses
    vpaRec,    \* the recommendation of a matching VPA in mode Off
    limits,    \* the LimitRangeItems, per resource
    hard,      \* the hard quota, per resource
    alloc,     \* API server: requests and limits of each pod
    advice,    \* the VPA's recommendation the running pass has found
    seen,      \* the constraints the running pass has fetched
    todo,      \* the pods the running pass has still to evaluate
    informed,  \* whether seen is what the LimitRanges and quotas still say
    refusal,   \* why the API server refused a patch of the running pass
    settled,   \* the pods resized since their inputs last changed
    promised,  \* what a pod's predecessor was evicted for
    changes    \* number of changes so far

inputs == <<mode, usage, vpaRec, limits, hard>>
vars == <<inputs, alloc, advice, seen, informed, todo, refusal, settled,
          promised, changes>>

Reasons == {"unsupported", "invalid", "limits", "quota"}

TypeOK ==
    /\ mode \in Modes
    /\ usage \in [Pods -> Usages]
    /\ vpaRec \in VpaRecs
    /\ limits \in LimitRanges
    /\ hard \in Quotas
    /\ alloc \in [Pods -> Allocation]
    /\ advice \in VpaRecs \cup {NoRec}
    /\ seen \in [Resources -> [min: Nat, max: Nat, ratio: Nat, podMax: Nat,
                               remaining: Int]]
    /\ todo \subseteq Pods
    /\ informed \in BOOLEAN
    /\ refusal \subseteq Reasons
    /\ settled \subseteq Pods
    /\ promised \in [Pods -> SUBSET Allocation]
    /\ changes \in 0..MaxChanges

Init ==
    /\ mode \in Modes
    /\ usage \in [Pods -> Usages]
    /\ vpaRec \in VpaRecs
    /\ limits \in LimitRanges
    /\ hard \in Quotas
    /\ alloc = [p \in Pods |-> Template]
    /\ advice = NoRec
    /\ seen = [r \in Resources |-> EmptyConstraints]
    /\ todo = {}
    /\ informed = FALSE
    /\ refusal = {}
    /\ settled = {}
    /\ promised = [p \in Pods |-> {}]
    /\ changes = 0
-----------------------------------------------------------------------------
(* What the code computes. *)

\* The quota's status counts the requests of these pods too.
Used(r) == OthersUse[r] + SumFunction([p \in Pods |-> alloc[p][r].req])

\* The constraints a fetch finds now.
Constraints(r) ==
    NamespaceConstraints(limits[r],
        IF hard[r] = Unlimited THEN <<>>
        ELSE <<[hard |-> hard[r], used |-> Used(r)]>>)

\* vpaRecommendationToCalculatorRec: no target is a target of 0.
FromVPA(rec, bounds) ==
    LET limit == IF rec.upper = Absent THEN (rec.target * 15) \div 10
                                       ELSE rec.upper
    IN  [req |-> Clamp(rec.target, bounds.min, bounds.max),
         lim |-> Clamp(limit, bounds.min, bounds.max)]

\* The recommendation for p before the clamp, with the VPA's recommendation vr
\* and constraints nc.  The peak the calculator is given is the average.
Unclamped(p, r, vr, nc) ==
    LET bounds == ToCalculatorConstraints(r, nc)
    IN  IF vr # NoRec
          THEN FromVPA(vr[r], bounds)
          ELSE Calculate(r, [avg |-> usage[p][r], peak |-> usage[p][r]], bounds)

\* (With no LimitRange and no quota ClampRecommendation is skipped; it would
\* change nothing.)
Recommended(p, r, vr, nc) == ClampRecommendation(Unclamped(p, r, vr, nc), nc)

\* evaluateVPAPod computes the variance after the clamp, evaluatePodMetrics
\* before it.
Significant(p, vr, nc) ==
    \E r \in Resources :
        LET rec == IF vr # NoRec THEN Recommended(p, r, vr, nc[r])
                                 ELSE Unclamped(p, r, vr, nc[r])
        IN  Deviates(rec.req, alloc[p][r].req, Threshold)

\* Mutant of Patch: the limit is sent for both.
PatchLimitTwice(p, vr, nc) ==
    [r \in Resources |->
        LET rec == Recommended(p, r, vr, nc[r])
        IN  [req |-> Stored(r, rec.lim), lim |-> Stored(r, rec.lim)]]

\* applyInPlace: the requests and limits the patch carries.
Patch(p, vr, nc) ==
    [r \in Resources |->
        LET rec == Recommended(p, r, vr, nc[r])
        IN  [req |-> Stored(r, rec.req), lim |-> Stored(r, rec.lim)]]
-----------------------------------------------------------------------------
(* The API server, as the package documentation describes it. *)

Admits(item, new) ==
    /\ item.min <= new.req
    /\ new.lim <= item.max
    /\ item.ratio # 0 => 10 * new.lim <= item.ratio * new.req

WithinLimits(r, new) == \A i \in DOMAIN limits[r] : Admits(limits[r][i], new)

\* A quota refuses what raises the sum above the hard limit.
WithinQuota(r, old, new) ==
    \/ hard[r] = Unlimited
    \/ new.req <= old.req
    \/ Used(r) - old.req + new.req <= hard[r]

Objections(p, new) ==
    {why \in Reasons :
        \/ why = "unsupported" /\ ~ResizeAllowed
        \/ why = "invalid" /\ \E r \in Resources : new[r].lim < new[r].req
        \/ why = "limits"  /\ \E r \in Resources : ~WithinLimits(r, new[r])
        \/ why = "quota"   /\ \E r \in Resources :
                                ~WithinQuota(r, alloc[p][r], new[r])}
-----------------------------------------------------------------------------
(* The world around the pass. *)

Changed ==
    /\ changes < MaxChanges
    /\ changes' = changes + 1
    /\ refusal' = {}
    /\ UNCHANGED <<mode, alloc, advice, seen, todo, promised>>

UsageChanges(p) ==
    /\ Changed
    /\ \E u \in Usages \ {usage[p]} : usage' = [usage EXCEPT ![p] = u]
    /\ settled' = settled \ {p}
    /\ UNCHANGED <<vpaRec, limits, hard, informed>>

VpaRecChanges ==
    /\ Changed
    /\ vpaRec' \in VpaRecs \ {vpaRec}
    /\ settled' = {}
    /\ UNCHANGED <<usage, limits, hard, informed>>

LimitsChange ==
    /\ Changed
    /\ limits' \in LimitRanges \ {limits}
    /\ settled' = {}
    /\ informed' = FALSE
    /\ UNCHANGED <<usage, vpaRec, hard>>

QuotaChanges ==
    /\ Changed
    /\ hard' \in Quotas \ {hard}
    /\ settled' = {}
    /\ informed' = FALSE
    /\ UNCHANGED <<usage, vpaRec, limits>>
-----------------------------------------------------------------------------
(* The pass. *)

StartPass(found, constraints, fetched) ==
    /\ todo = {}
    /\ todo' = Pods
    /\ advice' = found
    /\ seen' = constraints
    /\ informed' = fetched
    /\ refusal' = {}
    /\ UNCHANGED <<inputs, alloc, settled, promised, changes>>

Fetch == StartPass(vpaRec, [r \in Resources |-> Constraints(r)], TRUE)

\* The VPA cannot be read: the pass goes on as if there were none.
LookUpFails ==
    /\ vpaRec # NoRec
    /\ StartPass(NoRec, [r \in Resources |-> Constraints(r)], TRUE)

\* The LimitRanges or the quotas cannot be listed: the pass goes on without.
FetchFails ==
    \E found \in {vpaRec, NoRec} :
        StartPass(found, [r \in Resources |-> EmptyConstraints], FALSE)

Evaluate(p) == p \in todo /\ todo' = todo \ {p}

\* No metrics for the pod, or no variance worth a patch.
LeaveAlone(p) ==
    /\ Evaluate(p)
    /\ advice = NoRec \/ ~Significant(p, advice, seen)
    /\ UNCHANGED <<inputs, alloc, advice, seen, informed, refusal, settled,
                   promised, changes>>

\* The in-place patch is admitted.
Resize(p) ==
    /\ Evaluate(p)
    /\ Significant(p, advice, seen)
    /\ mode # "Recreate"
    /\ LET new == Patch(p, advice, seen)
       IN  /\ Objections(p, new) = {}
           /\ alloc' = [alloc EXCEPT ![p] = new]
    /\ refusal' = {}
    /\ settled' = IF informed /\ advice = vpaRec THEN settled \cup {p}
                                               ELSE settled \ {p}
    /\ promised' = [promised EXCEPT ![p] = {}]
    /\ UNCHANGED <<inputs, advice, seen, informed, changes>>

\* The patch fails: the API server objects to it, or for a reason that is not
\* its content (refusal is then empty).  A patch that is carried out and whose
\* answer is lost is a Resize, in mode Auto perhaps followed by a Replace.
PatchFails(p) == refusal' = Objections(p, Patch(p, advice, seen))

\* The patch fails, and in mode Auto so does the eviction it falls back to.
ResizeFails(p) ==
    /\ Evaluate(p)
    /\ Significant(p, advice, seen)
    /\ mode # "Recreate"
    /\ PatchFails(p)
    /\ UNCHANGED <<inputs, alloc, advice, seen, informed, settled, promised,
                   changes>>

\* The pod is annotated and evicted, and the workload creates another from its
\* template; nothing reads the annotation.
Replace(p) ==
    /\ alloc' = [alloc EXCEPT ![p] = Template]
    /\ promised' = [promised EXCEPT ![p] = {Patch(p, advice, seen)}]
    /\ settled' = settled \ {p}
    /\ UNCHANGED <<inputs, advice, seen, informed, changes>>

FallBack(p) ==
    /\ Evaluate(p)
    /\ Significant(p, advice, seen)
    /\ mode = "Auto"
    /\ PatchFails(p)
    /\ Replace(p)

Recreate(p) ==
    /\ Evaluate(p)
    /\ Significant(p, advice, seen)
    /\ mode = "Recreate"
    /\ Replace(p)
    /\ UNCHANGED refusal

\* In mode Recreate the annotation or the eviction fails.
RecreateFails(p) ==
    /\ Evaluate(p)
    /\ Significant(p, advice, seen)
    /\ mode = "Recreate"
    /\ UNCHANGED <<inputs, alloc, advice, seen, informed, refusal, settled,
                   promised, changes>>
-----------------------------------------------------------------------------
Next ==
    \/ Fetch
    \/ LookUpFails
    \/ FetchFails
    \/ \E p \in Pods :
        \/ LeaveAlone(p)
        \/ Resize(p)
        \/ ResizeFails(p)
        \/ FallBack(p)
        \/ Recreate(p)
        \/ RecreateFails(p)
        \/ UsageChanges(p)
    \/ VpaRecChanges
    \/ LimitsChange
    \/ QuotaChanges

Spec == Init /\ [][Next]_vars

\* Passes go on (Reconciler!LoopNeverStalls); the lists of constraints and the
\* metrics of a pod that needs a resize are not out of reach for ever.
Fairness ==
    /\ SF_vars(Fetch)
    /\ \A p \in Pods : WF_vars(p \in todo /\ Next /\ p \notin todo')
    /\ \A p \in Pods : SF_vars(Resize(p))

FairSpec == Spec /\ Fairness
-----------------------------------------------------------------------------
(* Properties *)

\* The namespace has LimitRanges that something can satisfy.
Satisfiable ==
    \A r \in Resources : \A i, j \in DOMAIN limits[r] :
        limits[r][i].min <= limits[r][j].max

\* A patch computed from the LimitRanges as they are is not refused by one:
\* the merge of several items, the calculator's bounds, the clamp and the
\* truncation to whole units together stay within every item.
LimitRangesRespected ==
    ("limits" \in refusal /\ informed) => ~Satisfiable

\* No patch has a limit below its request, whatever the clamps did to either.
LimitCoversRequest == "invalid" \notin refusal

\* The pods a pass with the inputs as they are would patch.
Deviating ==
    {p \in Pods : Significant(p, vpaRec, [r \in Resources |-> Constraints(r)])}

\* A pod that was resized is left alone until its usage, the VPA or the limits
\* of the namespace change: what was applied is within the threshold of what
\* the next pass will recommend.
NoChurn == settled \cap Deviating = {}

\* Passes that know the inputs as they are only get nearer to the end: none of
\* their steps gives a pod a reason to be patched, and what they resize had one
\* and has none any more.
ResizesConverge ==
    [][informed /\ advice = vpaRec /\ inputs' = inputs
         => /\ settled' \ settled \subseteq Deviating
            /\ Deviating' \subseteq Deviating \ settled']_vars

\* The quota stands in the way of a pod's patch only if its headroom was used up
\* when the pass fetched it (or the fetch failed, or the quota changed since), or
\* if pods before it in the same pass took from the headroom all of them saw.
QuotaCapped ==
    \A p \in todo :
        informed /\ "quota" \in Objections(p, Patch(p, advice, seen))
          => \E r \in Resources :
               \/ seen[r].remaining <= 0
               \/ todo # Pods /\ Constraints(r).remaining < seen[r].remaining

\* Documented: the workload recreates an evicted pod with the resources it was
\* evicted for.  Refuted: nothing hands them to the new pod.
RecreatedAsRecommended ==
    \A p \in Pods : \A rec \in promised[p] : alloc[p] = rec

\* Once nothing changes any more and lookups find the VPA there is, every pod's
\* allocation ends up within the threshold of the recommendation and stays there.
Convergence == <>[](advice = vpaRec) => <>[](Deviating = {})
=============================================================================
