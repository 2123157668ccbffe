# Podfather in TLA+

Podfather is a Kubernetes operator. A user creates a `PodAutoscaler` custom
resource; the controller finds the pods it selects, works out what CPU and
memory they should have (from their usage, or from a VerticalPodAutoscaler in
mode `Off`), keeps that within the namespace's LimitRanges and ResourceQuotas,
and changes the pods in place or by eviction.

This directory holds TLA+ modules that model the operator, TLC instances that
check them, and TLAPS proofs of every safety property the instances check. What is planned next is at the
end.

    tlc -config Lifecycle.cfg MCReconciler      # any Reconciler run
    tlc -config SizingLimits.cfg MCSizing       # any Sizing run
    tlc -config SharedPod.cfg MCPodUpdater
    tlc -config VpaLookup.cfg MCVPALookup
    tlapm ReconcilerProofs.tla                  # and the other *Proofs modules

## 1. The system

| Component | Source | State it keeps | Operations | Modelled by |
|---|---|---|---|---|
| Controller | `internal/controller/podautoscaler_controller.go` | none of its own: the custom resource's finalizer and status, a delayed requeue, local variables of `Reconcile` | `Reconcile`, finalizer handling, discovery, VPA check, loop over pods, cleanup, status | `Reconciler`; what it promises: `ManagedLifecycle` |
| Updater | `internal/updater/updater.go` | none; the pod object passed in, patched | `ApplyRecommendation`: in place, eviction, fall-back, off | `PodUpdater` (the pod object and its containers), `Reconciler` (calls and failures), `Sizing` (the values written) |
| Calculator | `internal/calculator/calculator.go` | none (pure) | `Calculate`, `clamp`, `variancePercent` | `Calculator` |
| Namespace limits | `internal/namespacelimits/namespacelimits.go` | none | merge of LimitRanges and quotas, `ToCalculatorConstraints`, `ClampRecommendation` | `NamespaceLimits` |
| VPA client | `internal/vpa/vpa.go` | none; reads only | `IsVPAInstalled`, `GetVPA`, `FindMatchingVPA`, `ValidateVPAMode` | `VPALookup`; its outcomes in `Reconciler` and `Sizing` |
| Metrics collector | `internal/metrics/metrics.go` | Prometheus collectors, write-only | `GetPodMetrics`, `GetCurrentAllocations` | `PodUpdater` and `Sizing` (allocations), `Reconciler` (an answer or none) |
| API types | `api/v1alpha1/podautoscaler_types.go` | spec and status | - | records of `Reconciler` |
| Manager, telemetry, generated code, manifests | `cmd/main.go`, `internal/telemetry`, `config/` | - | wiring | not modelled; a restart of the manager is `Reconciler`'s `Crash` |

How they interact. The manager watches only `PodAutoscaler` (`For`, no
predicate, no `Owns`). Each watch event and each elapsed `RequeueAfter` puts
the resource's key on a work queue; one worker takes it and runs `Reconcile`,
which reads the resource and the pods through informer caches, reads
LimitRanges, quotas, VPAs and metrics, and writes pods, evictions, the
finalizer and the status straight to the API server.

What is hard about it. A reconcile is a sequence of calls between which anyone
may change anything. The resource it reads may be old, pods are changed before
the status that reports it is written, that write may conflict or its answer
be lost, and every error replays the whole reconcile. Nothing but the
reconcile's own return value brings it back. On the numeric side, bounds from
six places are merged, five adjustments are applied one after the other, and
what is applied becomes the input of the next evaluation.

What makes it correct, component by component:

* controller: it works on pods only while its finalizer holds the resource;
  the loop never stops; totals and generations do not go back and nothing is
  counted twice; the spec reported as observed is the one acted by, and a dry
  run that is observed is quiet; the status agrees with itself; deletion
  completes and cleans up what it can;
* updater: a failure of one strategy leads to the documented other one and to
  none in mode InPlace; what is done to one container of a pod
  neither undoes nor prevents what is done to another;
* calculator and limits: what is patched is well formed and admitted; a pod
  that was resized is left alone; allocations settle;
* VPA: strict mode refuses to act when a VPA is in conflict, and what a lookup
  missed or misread is put right by a later one.

## 2. The modules

### Reconciler

One `PodAutoscaler` name, its pods, the work queue, the caches and the worker.
Every API call of `Reconcile` is an action, named for the call; `pc` says
which one comes next.

| Variables | Stand for |
|---|---|
| `cr`, `pods`, `annotated`, `vpa` | the API server |
| `crCache`, `crCacheFresh`, `podCache`, `annCache` | the informers, and whether the resource in the cache is the current version |
| `queue`, `timer` | the key on the work queue (and whether only the controller's own write put it there), and `AddAfter` |
| `pc`, `pa`, `paFresh`, `todo`, `cur`, `adj`, `collected` | the local variables of `Reconcile` |
| `applied`, `faults`, `crashes` | history: updates the server carried out, bounds |
| `forgotten` | history: pods whose annotation a cleanup could not remove, or did not know of when it listed them |

| Code | Actions |
|---|---|
| `Get`, and return when gone | `Fetch`, `FetchNothing`, `FetchFails` |
| `handleFinalizer` | `AddFinalizer`, `CleanupList`, `CleanupPod`, `RemoveFinalizer` |
| `discoverRunningPods` | `DiscoverInvalid`, `DiscoverFails`, `DiscoverNone`, `DiscoverPods` |
| `checkVPAIntegration`, `shouldHaltForVPAConflict` | `LookUpVPA` |
| loop over pods | `MetricsMissing`, `LeavePod`, `AdjustPod` |
| `ApplyRecommendation` | `ResizeInPlace`, `AnnotatePod`, `EvictPod` |
| status | `Summarise`, `WriteStatus` |
| the cluster | `Create`, `Edit`, `Delete`, `VpaChanges`, `PodStops`, `PodEnds`, `PodStarts`, `SyncCR`, `SyncPod`, `TimerFires`, `Crash` |

How the abstraction goes:

* A `resourceVersion` is replaced by what depends on it, whether a copy is
  current. A write with a copy that is not current fails (`CanWrite`).
* A call fails by the server's decision (conflict, not found, a budget, a
  refused resize, a missing permission), which is free nondeterminism or follows
  from the state, or by transport. What the Eviction API decides by is not
  modelled: it may refuse any eviction. Transport faults come in two kinds, never arrived and answer
  lost, and are counted against `MaxFaults`.
* The cache may jump several versions at once; a watch that is re-listed
  does. Restart lists everything anew.
* A status has more than is modelled (`LastEvaluationTime` in whole seconds,
  `MonitoredPods`, the messages of conditions), so a status write that changes
  nothing modelled may or may not make a new version, with its event and its
  conflicts (`Store`). The writes of the finalizer have nothing else to change.
* `CanAdjust` is a bound of the instances, not code.
* Whether a recommendation is significant is any Boolean here: that is the
  subject of `Sizing`.
* No other controller holds a finalizer on the resource.

### Calculator, NamespaceLimits, Sizing

`Calculator` and `NamespaceLimits` are the pure functions of the packages of
those names, on integers. CPU is counted in tenths of a millicore and memory
in MiB, so that margins and ratios of the instances are whole numbers of
grains; the one rounding that matters, the truncation to whole millicores and
bytes when a patch is built, is `Stored`. Rounding errors of float64 are left
out.

`Sizing` composes the two over time: passes of the controller that read the
VPA and the constraints once (`Fetch`, `LookUpFails`, `FetchFails`), evaluate
each pod (`LeaveAlone`, `Resize`, `ResizeFails`, `FallBack`, `Recreate`,
`RecreateFails`), and a world in which usage, VPA, LimitRanges and quotas
change in between and during a pass. The API server's admission of a patch
(`Objections`) is modelled after the description in the package comment of
`namespacelimits` (lines 22-29) and is external, as is what a workload
controller does with an evicted pod (a new one from its template, at once).
A patch may also fail for a reason that is not its content (`ResizeFails`,
`FallBack`).
The controller gives the calculator the average usage as the peak too
(`podautoscaler_controller.go:418-424`). Default requests and limits of a
LimitRange are collected by the code and read by nothing, so they are left
out. A ratio is none or at least 1, as Kubernetes validates. A pod has one
container here; several are `PodUpdater`'s subject.

### PodUpdater

One pod of several containers, in the loops of `evaluatePodMetrics` and
`evaluateVPAPod`. All calls for a pod share one object (`mem`): it is read from
the informer's cache, changed in memory before a call that may fail, replaced
by the server's answer when it succeeds, and handed on to the next container. A
merge patch replaces a list as a whole, so the patch for one container writes
what the object says of all of them; neither it nor the eviction names a UID or
a `resourceVersion`.

| Code | Actions |
|---|---|
| the loop over containers | `StartPass`, `LeaveAlone`, `Apply`, `Continue`, `EndPass` |
| `GetCurrentAllocations`, once per pod (own algorithm) or per container (VPA) | `CurrentAllocations` |
| `applyInPlace` | `Base` (the copy given to `MergeFrom`), `Wanted` (the change in memory), `Patch`, `PatchFails` |
| `applyViaEviction` | `Annotate`, `Evict` |
| the cluster | `Write`, `PodStops`, `PodEnds`, `PodStarts`, `Sync`, `Crash` |

A container's resources are one value, any recommendation that differs from
the allocation is significant, and a recommendation is arbitrary: the numbers
are `Sizing`'s. The containers listed may be any subset, in any order.

### VPALookup

`checkVPAIntegration` and `internal/vpa`: two calls, of which either may fail,
over VPAs, a CRD and a policy that change in between. Control: `Disabled`,
`IsVPAInstalled`, `LookUp` (by name, by target, or not at all), `CallFails`,
and `Conclude` for `shouldHaltForVPAConflict`. Of a VPA it has what `parseVPA`
reads, with what may be missing: the target, the mode, the list of
recommendations. The order of `Names` is that of the list the server returns.
The reads are live: an unstructured object is not cached by
controller-runtime's default client.

### ManagedLifecycle, ReconcilerRefinement

`ManagedLifecycle` says what a user is promised, with nothing of caches, queue
or retries: a resource is absent, unheld, held or releasing; pods are updated
and marked, and the status written, only in the course of work on one that is
held; it is not released while work is under way; a held resource goes only by
being released; and what its status reports only moves forward.
`ReconcilerRefinement` gives the mapping: the phase is a function of the
server's object, "working" is that the worker is past the finalizer.

### How the modules meet

* `Sizing` assumes that passes go on; that is what `LoopNeverStalls` and
  `SpecEventuallyObserved` of `Reconciler` promise.
* `Reconciler`'s `LookUpVPA` takes one of four outcomes in one step; they are
  the `Results` of `VPALookup`, which shows how they come about and, by
  `LookupIsAtomic`, that one step is enough.
* `Reconciler`'s and `Sizing`'s update of a pod is the update of one container
  of `PodUpdater`, which shows that the containers do not get in each other's
  way.

## 3. The runs

Times are for two workers on a small machine.

| Run | Checks | Instance | States |
|---|---|---|---|
| `Lifecycle` | `TypeOK`, `FinalizerGuardsWork`, `LoopNeverStalls`, `NoAnnotationLeft`, `TotalNotOvercounted`, `StatusNeverRegresses`, `KeepsContract` | one pod with a lagging informer, mode Auto, two incarnations, a fault or a crash (`OneMishap`) | 2.1 M, 60 s |
| `Accounting` | `TotalNotOvercounted`, `NoAnnotationLeft`, `StatusNeverRegresses`, `ObservedDryRunIsQuiet`, `ObservedSpecRules`, `DeletionNotBlocked` | one pod, specs that evict, that resize in place and that are dry, an edit from each to each, one update, a fault | 2.4 M, 75 s |
| `StatusPaths` | `StatusCoherent`, `DeletionNotBlocked` | a strict spec in mode Off and an unparsable one, a VPA that is absent, recommends or conflicts, an edit, one update | 4.6 M, 75 s |
| `Progress` | `DeletionCompletes`, `SpecEventuallyObserved` | one pod, strict mode, a VPA in conflict that comes and goes, a fault | 0.4 M, 66 s |
| `SizingLimits` | `LimitRangesRespected`, `NoChurn` | CPU and memory, usages from 4.5m to 15 cores, no VPA or two recommendations, eight LimitRange lists (two of them contradictory), modes Auto and Recreate, two changes | 0.6 M, 39 s |
| `SizingQuota` | `TypeOK`, `LimitCoversRequest`, `QuotaCapped` | two pods, CPU, three usages, five quotas of which some are below what is used, four LimitRange lists, modes Auto and Recreate, one change | 0.35 M, 21 s |
| `SizingConverges` | `ResizesConverge`, `Convergence` | CPU and memory, in place, two usages, no VPA or one recommendation, two LimitRange lists, two changes | 2162, 75 s |
| `SharedPod` | `TypeOK`, `ResizedStaysResized`, `PassDelivers`, `OnlyRecommended` | two containers, two values, three modes, two pods of one name, one change by others, a fault | 2.5 M, 37 s |
| `VpaLookup` | `TypeOK`, `StrictModeRefuses`, `LookupIsAtomic`, `LookupCatchesUp` | two names, twelve VPAs, five policies, three changes, a fault | 0.1 M, 23 s |
| `SelfTrigger`, `StaleCleanup`, `EvictionForgets` | one documented statement each | the smallest instance | refuted |

Why the bounds are enough. Everything a reconcile does depends on one resource
and, pod by pod, on one pod, so one pod shows every path of `Reconcile`; two
are used where pods compete, for a quota's headroom. Two incarnations are needed
for a stale copy of a deleted resource, two generations for a stale spec. One
fault and one crash at any place, with any number of conflicts, already reach
every retry: `Lifecycle` has one of the two in a behaviour (the state constraint
`OneMishap`), `Accounting` a fault only. One update is enough to be counted
twice or to be lost. Where a run leaves out a mode or an outcome, another has its
path: `Lifecycle` is in mode Auto, `Accounting` in Recreate and InPlace,
`StatusPaths` in mode Off, which does not touch pods; and a VPA in mode Off
treats the status as one that recommends does. And the proofs (section 5) remove
all these bounds from every safety property, for any number of pods, under the
hypotheses named there. The usages and bounds of `Sizing` are
chosen below, at, between and above the constraints, off the grid of whole
millicores, and so that bounds cross.

In `PodUpdater` a container meets what was done to one before it, so two show
every effect, and two values tell a recommendation from its absence. Crashes
need no bound there, as they only forget. In `VPALookup` two names are needed
for the wrong VPA to be listed first; three changes and a fault can hit one
lookup between all its calls and the next one too.

`CHECK_DEADLOCK FALSE` is set in the runs of `Reconciler` and `PodUpdater`
because the counters that bound a run also end it: after the last deletion, or
the last pod, nothing may be left to do. `Sizing` and `VPALookup` never stop
and are checked for deadlock.

What the properties say, beyond their names:

* `FinalizerGuardsWork`: the copy the worker uses may be arbitrarily old, but
  the incarnation it works for is still there and held, because the finalizer
  was in that copy and only the worker removes it.
* `LoopNeverStalls`: only the custom resource is watched; every return path
  must leave a requeue behind.
* `TotalNotOvercounted`: `TotalAdjustments` is written with the rest of a
  status that may be retried; no update is counted twice.
* `ObservedSpecRules`: once `observedGeneration` reports the current generation,
  no reconcile goes by another spec: an older one that is still running, was
  read from the cache, or is retried. Only pods the spec selects are updated or
  marked; and unless it says Auto or Recreate none is evicted or marked, not
  even if its patch fails (`updater.go:83-91`). Until then an older spec may
  still be acted by.
* `ObservedDryRunIsQuiet`: once `observedGeneration` reports a dry-run or Off
  spec, no older reconcile is still acting. Cleanup of an object that is
  already gone may run again from a stale copy, so the property is about a
  resource that exists.
* `NoAnnotationLeft`: of the annotations a resource leaves behind each was, at
  its cleanup, not in the list of pods (the cache lags, the List fails, the
  selector does not parse) or tried in vain to remove; that is what `forgotten`
  keeps. None is made after the cleanup, by a reconcile that was retried or
  worked from an old copy; none is on a listed pod that the cleanup skips, a
  pod that is terminating or whose eviction was refused; a crash leaves none. A
  selector that moves on from an annotated pod leaves one behind, so no instance
  edits it. What may be left is the subject of `StaleCleanup` (section 6).
* `NoChurn`, `Convergence`: the variance of the own algorithm is computed
  before the clamp to the namespace's bounds. They hold because
  `ToCalculatorConstraints` has already merged the bounds into the
  calculator's, and as long as the LimitRange's minimum does not exceed the
  built-in maximum, no quota interferes and the threshold is not below what
  truncation changes (the instances use 10 and 15 percent; CRD default 15).
  `Convergence` has the VPA too: a lookup that fails lets a pass resize by the
  own algorithm what the next resizes by the VPA's, so it is conditional on
  lookups that find the VPA there is from some point on.
* `LimitRangesRespected`: instances have a CPU ratio above the calculator's
  1.5, which binds at requests of whole millicores only, and a memory ratio
  that binds everywhere; section 6 has the others, and section 5 the exact
  hypothesis. A pod-type item is present, one it cannot exceed.
* `QuotaCapped`: a patch is refused by a quota for two reasons only. The
  headroom was used up when it was fetched, which the clamp takes for no quota
  at all; or a pod before this one in the same pass took from the headroom that
  all of them were given. The first is excused, not excluded: the comment at
  `namespacelimits.go:349-351` does not hold of it (section 6).
* `ResizesConverge` is the step behind `Convergence`: in a pass that knows the
  inputs as they are, no step gives a pod a reason to be patched, and a pod that
  is resized had one and has none any more. So the pods still to be resized
  only become fewer.
* `DeletionNotBlocked` is the same for `DeletionCompletes`: a cleanup that works
  from the current copy goes on to the end, whatever the selector parses to,
  whatever pods there are, and whether or not the List or the removal of an
  annotation fails, unless the user edits the resource, the Update that removes
  the finalizer fails or the process dies.
* `KeepsContract` is the refinement: every step of `Reconciler`, whatever its
  caches hold and whichever calls fail or crash, is a step of
  `ManagedLifecycle` or leaves its state alone.
* `ResizedStaysResized` needs no current cache: however old the listed pod was,
  the answer to the first patch replaced it. It breaks if each patch is made
  from the pod as listed.
* `OnlyRecommended` and `PassDelivers` are about a pass that starts from the
  current pod and that nobody else disturbs. They are not about single patches:
  a patch also writes what earlier, refused ones left in memory.
* `StrictModeRefuses` (of `VPALookup`) says what acting VPAs are in the VPA
  project's terms, a mode that is not `Off`, and so depends on the default that
  parsing gives a mode that is not set. It is about lookups in which no call
  failed and during which nothing changed: with any number of VPAs on the
  workload, strict mode does not act where all of them do. The VPAs that bear on
  a resource are those of its target, or the one it names; a lookup by name does
  not look for others, and neither does the property.
* `LookupIsAtomic`: `isInstalled` and the lookup are two calls, and anything may
  happen between them, but what comes of a lookup without failing calls is the
  verdict of a VPA that is there at the last one, and "none" only if there is
  none. This is why `Reconciler` may take the whole lookup as one step.
* `LookupCatchesUp`: whatever failed or changed, a result that from some point on
  is true of no VPA is in the end not acted on any more; and where all that bear
  on the workload act from some point on, strict mode in the end always halts.

## 4. Fairness

`Reconciler`: weak fairness of the worker (a goroutine that takes what the
queue holds), of each watch and of the timer. All faults are finitely many by
`MaxFaults`, so retries succeed in the end. No fairness is assumed of the
user, of pods or of the VPA. `SpecEventuallyObserved` is conditional: a spec
that parses, that selects a running pod and that strict mode does not halt,
from some point on.

`Sizing`: strong fairness of `Fetch` and of `Resize(p)`: listing constraints
and patching may fail, but not for ever, which is the usual assumption on an
API server; weak fairness of evaluating each pod of a started pass, which the
loop of the code does. That lookups find the VPA in the end is the premise of
`Convergence`, not fairness. Convergence assumes no fall-back to eviction.

`VPALookup`: weak fairness of the worker, one `WF` for all its steps, as the
interval brings the next reconcile and a call is answered or times out. Failing
calls are finitely many by `MaxFaults`. No fairness is assumed of the VPAs, the
CRD or the policy. `PodUpdater` and `ManagedLifecycle` state safety only.

## 5. What is proved

`ReconcilerProofs` proves for every set of pods and specs, every set of VPA
states, and without the bounds having a value:

| Theorem | States |
|---|---|
| `TypeCorrectness` | `Spec => []TypeOK` |
| `FinalizerGuardsWorkAlways` | `Spec => []FinalizerGuardsWork` |
| `LoopNeverStallsAlways` | `Spec => []LoopNeverStalls` |
| `TotalNotOvercountedAlways` | `NeverOff => (Spec => []TotalNotOvercounted)` |
| `StatusNeverRegressesAlways` | `Spec => StatusNeverRegresses` |

The only assumption on constants is `ConstantsAssumption` of `Reconciler`, and
`NeverOff` (no spec has mode Off) where it is named.

The arguments:

* `LifecycleInv` strengthens `FinalizerGuardsWork`: a copy (of the cache or
  the worker) never belongs to a later incarnation than the server's; if it
  belongs to the same one and has the finalizer, the server's resource has it
  too; a copy marked current agrees with the server. Only `RemoveFinalizer`
  takes a finalizer away, and it needs a current copy and ends the
  reconcile.
* `StallInv` says where the next reconcile comes from in each state of the
  worker: a cached, existing resource is on the queue, on the timer, being
  reconciled, or in a cache that is about to be refreshed.
* `TotalInv` relates the total in the server's status, the worker's copy and
  the updates that were carried out: the copy's total plus `adj` never
  exceeds `applied` while that copy could still be written.
* `RecentInv` says that a copy that is current carries the server's totals
  and generation, so that the status computed from it is at least the stored
  one.

`RefinementProofs` proves, from the same assumption,

| Theorem | States |
|---|---|
| `KeepsContractAlways` | `Spec => KeepsContract`, that is `Contract!Spec` under the mapping |

Its invariant joins `LifecycleInv` and `RecentInv`: the first shows that the
worker works and writes only on a resource that is held, the second that a
written status does not go back. `StepContract` maps each action of
`Reconciler` to the one of `ManagedLifecycle` it implements; the actions that
leave the mapped state alone are taken together in `SameContract`.

Each of these invariants has a lemma for `Init`, one for every step with one case per
action, and the theorem combines them with the temporal rule.

`WorkerProofs` goes on from `LifecycleInv` and `RecentInv`:

| Theorem | States |
|---|---|
| `StatusCoherentAlways` | `Spec => []StatusCoherent` |
| `ObservedDryRunIsQuietAlways` | `Spec => ObservedDryRunIsQuiet` |
| `ObservedSpecRulesAlways` | `Spec => ObservedSpecRules` |
| `NoAnnotationLeftAlways` | `SteadySelector => (Spec => []NoAnnotationLeft)` |
| `DeletionNotBlockedAlways` | `Spec => DeletionNotBlocked` |

* `CoherenceInv`: every stored and cached status is coherent, and so is the
  worker's copy except between the VPA check and the summary, where it may rest
  on a `VPAConflict` condition that was just cleared and is not written.
* `QuietInv`: a copy marked current has the server's spec; the worker touches
  pods only with a spec that says so; and once the server's status reports the
  current generation, cache and worker have the current spec.
* `LoopInv`, for `ObservedSpecRules`: the pods of the loop are among those the
  copy's spec selects, and the calls that mark and evict are reached only by a
  spec in mode Auto or Recreate. With `QuietInv` the copy's spec is the observed
  one.
* `AnnotationInv`: an annotation is on a selected pod; while no resource holds
  the finalizer it is forgotten; and from its list on a cleanup has every
  annotation behind it (forgotten) or ahead of it. Lagging pod reads, faults and
  crashes are all included. The one hypothesis, `SteadySelector`, is that specs
  that parse select the same pods: a cleanup does not know of pods an earlier
  selector selected.
* `HeldCopyInv`, for `DeletionNotBlocked`: while the worker cleans up from a
  current copy, the resource exists: the user cannot take it away, and only
  this worker will.

`NamespaceLimitsProofs` proves of `ClampRecommendation`, for every
recommendation and all merged constraints:

| Theorem | States |
|---|---|
| `ClampIsWellFormed` | the limit covers the request, both are within the maximum, and the request is within a positive headroom |
| `ClampIsAdmitted` | without a quota in the way, minimum, maximum and ratio hold together |
| `PatchIsWellFormed` | truncation to whole units keeps the limit above the request and both within the maximum |

and of what a fetch computes, for lists of every length:

| Theorem | States |
|---|---|
| `LimitRangesMerged` | the fold over LimitRangeItems gives the tightest bounds of the Container items, each attained, and the last ratio one sets |
| `QuotasMerged` | the fold over quotas gives the least headroom and leaves the bounds alone |

There is one lemma for each of the four adjustments, saying what it
establishes and which of the earlier ones it keeps; the theorems chain them.
They assume constraints of the types in `MergedConstraints`, which
`LimitRangesMerged` and `QuotasMerged` show a fetch to return. What truncation
does *not* keep is the ratio (section 6).

The folds are proved by induction. The library's induction theorems take a
predicate, which no installed prover can instantiate; `FoldLemmas` takes a set
instead (`NatSetInduction`: a set with 0 and all successors holds `Nat`), from
the library's fact that a well-founded relation has a minimal element. On it
rest `FoldExists` (what a fold recurses to exists, as a function on subsets),
`MaxOfRange` (`FoldLeft` takes the last element out first) and `SumIsNat`. A
property of the first n items is then the set of the n for which it holds.

`SizingProofs` composes these over time, for every number of pods, all usages,
recommendations, LimitRanges and quotas, from `SizingAssumption` and the
hypotheses in the table:

| Theorem | States | Hypotheses |
|---|---|---|
| `TypeCorrectness` | `Spec => []TypeOK` | |
| `LimitCoversRequestAlways` | `Spec => []LimitCoversRequest` | |
| `QuotaCappedAlways` | `Spec => []QuotaCapped` | |
| `LimitRangesRespectedAlways` | `Spec => []LimitRangesRespected` | `QuotaFree`, `ItemsRespectable` |
| `NoChurnAlways` | `Spec => []NoChurn` | `QuotaFree`, `LimitsModerate`, `ThresholdCoarse` |
| `ResizesConvergeAlways` | `Spec => ResizesConverge` | `QuotaFree`, `LimitsModerate`, `ThresholdCoarse` |
| `RatioExcess` | a patch exceeds the ratio the clamp kept by less than one unit of request | bounds that do not cross, no quota below the maximum |

* `TypeInv` adds to the types that what a pass goes by is merged
  (`MergedConstraints`); `UnclampedWithinBounds` gives the recommendation
  before the clamp, `PatchWellFormed` the patch.
* `FreshInv`: while nothing changed since the fetch and a pod is still to come,
  a second fetch would return the same, if there is no quota: with one, a pod's
  resize takes from the headroom the next one is given.
* `FirstInv` is what is left of that with quotas: before the first pod of a
  pass nothing has been taken. `QuotaCapped` then follows from one chain of
  inequalities: stored request, clamped request, headroom, hard limit less what
  is used.
* `EveryItemAdmits`: the patch is within each item, though the clamp knows only
  what they merged to.
* `SettledInv`: a settled pod has what would be patched again. `RequestKept`
  is why the variance may be measured before the clamp: within the calculator's
  bounds, into which the namespace's are merged, the clamp changes no request.
  `StoredIsClose` has the arithmetic of threshold and truncation.
* `TouchedDeviates` and `ConvergeStep`, for `ResizesConverge`: only a pod whose
  recommendation is significant is patched, and `NoChurn` says of what it is
  patched to that it is not.
* `RatioExcess` says of the ratio, which truncation does not keep, how far a
  stored patch can be from it.

Each hypothesis excludes a case of section 6 in which the property fails:
`QuotaFree` a cap below a LimitRange's minimum and headroom that counts the pod
itself; `ItemsRespectable` minima
that are no whole units (Kubernetes has no such quantity), ratios that
truncation breaks, different ratios, and Pod items tighter than the Container
items; `LimitsModerate` minima above the calculator's built-in maximum, and
maxima of zero or of no whole units; `ThresholdCoarse` a threshold below what
truncation changes. The instance of `SizingLimits` meets all of them but for
its one CPU ratio, which is what the run adds to the theorem.

`PodUpdaterProofs` proves for every set of containers and values, without the
bounds having a value and from `UpdaterAssumption` only:

| Theorem | States |
|---|---|
| `TypeCorrectness` | `Spec => []TypeOK` |
| `ResizedStaysResizedAlways` | `Spec => []ResizedStaysResized` |
| `OnlyRecommendedAlways` | `Spec => OnlyRecommended` |
| `PassDeliversAlways` | `Spec => []PassDelivers` |

* `LoopInv`: a container is to come, current, or resized, never two of them.
* `KeptInv`, for `ResizedStaysResized`: the object in memory agrees with the
  server about what was resized. A patch whose object already has the
  recommendation changes nothing and would not bring the server's pod into
  line, so the invariant also says of a container still to come that memory has
  what was listed or what the server has.
* `AloneInv`, for `OnlyRecommended`: in a pass that is alone, memory and server
  differ only by recommendations that were refused.
* `DeliveredInv`, for `PassDelivers`: while no call has failed they agree.

`VPALookupProofs` proves, from `LookupAssumption`, for every set of VPAs and
policies:

| Theorem | States |
|---|---|
| `TypeCorrectness` | `Spec => []TypeOK` |
| `StrictModeRefusesAlways` | `Spec => []StrictModeRefuses` |
| `LookupIsAtomicAlways` | `Spec => LookupIsAtomic` |

The invariant adds that without the CRD there are no VPAs, which is what makes
"not installed" a sound answer; `SeekingInv` that the second call is made only
for a resource whose VPA integration is enabled. What the code makes of a list of
VPAs is compared with `Verdict` and `Truths`, which never look at its order.

Model-checked only: liveness (`DeletionCompletes`, `SpecEventuallyObserved`,
`Convergence`, `LookupCatchesUp`), which needs `ENABLED` and fairness and is
beyond the prover. Every invariant and action property of a passing run is
proved, under the hypotheses named above.

## 6. Where the code and its documentation part

Three statements are refuted by a run; each is an entry of `PROJECT.json`.

* **`SelfTrigger`**: `metricsCollectionIntervalSeconds` is "how often the
  controller reconciles". The watch has no predicate, so the controller's own
  status write is an event and starts the next evaluation at once, until two
  writes fall into one second. The run is about a generation whose evaluation
  is already reported, so the event of the finalizer's write does not count.
* **`StaleCleanup`**: `cleanupManagedPods` "removes Podfather annotations from
  managed pods". Its list is the informer's, and a pod that was annotated after
  the cached copy is passed over; no call fails, the finalizer is removed and
  the annotation stays.
* **`EvictionForgets`**: "the owning workload controller recreates it with the
  new resources". The recommendation is in an annotation of the evicted pod,
  which nothing reads; the new pod has the template's resources and is evicted
  again.

Others were met while modelling, with instances of the same modules in which
the property named here fails, or by reading. They have no run of their own.

* A lookup that fails counts as no VPA, so that reconcile updates pods in
  strict mode beside a VPA in conflict (`StrictModeRefuses` fails without
  `certain`): `vpa.go:121`, `controller:691-698`.
* Of two VPAs on a workload the first listed decides: one in mode Off hides one
  in mode Auto (`StrictModeRefuses` fails if it asks that no VPA acts),
  `vpa.go:153`.
* A VPA found by name need not target the workload, and others that do are not
  looked for: `controller:690`.
* `hard - used` counts the pod's own request as used: a pod of 40m under a
  quota of 100m is given 60m, then 40m, on every interval (`Convergence` fails
  with a quota), `namespacelimits.go:256`.
* A pass that starts from an old copy of a pod, or is overtaken by another
  client, writes the other containers back as it saw them (`OnlyRecommended`
  fails without `clean` or `disturbed`): a list is replaced as a whole, and the
  patch carries no `resourceVersion`, `updater.go:99`.
* A patch or an eviction goes to whatever pod has the name by then, a new one
  included: `updater.go:127`, `updater.go:153`.
* A refused in-place change of one container stays in memory: if the patch for
  the next is accepted it may carry the refused one, or be refused for it.
* Several containers of one pod: in mode Recreate each one annotates the pod,
  the later recommendation replacing the earlier, evicts it again and counts as
  an adjustment; in mode Auto a container is resized and the pod then evicted
  for another: `controller:451`, `updater.go:145`.
* Mode Off returns no error, so each significant recommendation counts as an
  adjustment (`TotalNotOvercounted` fails; this is the `NeverOff` of the
  theorem), `updater.go:72`.
* If the final status write fails, what was applied is never counted:
  `controller:247`.
* `observedGeneration` is set on the last path only; a resource without
  running pods keeps 0: `controller:104-128`.
* The `VPAConflict` condition is cleared only by a VPA in mode Off, not by its
  removal: `controller:720`.
* An annotation that cannot be removed is logged and the finalizer removed all
  the same: `controller:537`. Pods that only an earlier selector selected keep
  theirs: `NoAnnotationLeft` fails without `SteadySelector`.
* An eviction that is refused leaves the pod running with an annotation that is
  for the pod that replaces it: `updater.go:145-159`. The RBAC markers
  (`controller:69-77`) and `config/rbac/role.yaml` do not grant `create` on
  `pods/eviction`, so as deployed every eviction is refused. The models allow
  both outcomes of every eviction.
* With `maxLimitRequestRatio` at or below 1.5, the limit is capped to the
  ratio and then both values are truncated: 13.8m and 20.7m become 13m and 20m,
  above 1.5 (`LimitRangesRespected` fails), `updater.go:110`. `RatioExcess` bounds
  the excess: with one unit of request more, here 14m, the ratio would hold.
* Of several ratios the last wins, not the tightest: `namespacelimits.go:207`.
* Bounds of type Pod are computed and read by nothing: `namespacelimits.go:218`.
* The quota cap comes last and may go below a LimitRange's minimum:
  `namespacelimits.go:356`.
* Headroom of zero or less caps nothing, and the patch is refused:
  `namespacelimits.go:352`, although the comment above it (lines 349-351) says
  "We clamp to the remaining headroom so we don't submit a request that is
  guaranteed to fail". `QuotaCapped` excuses this case.
* Two pods of one pass are each given the whole headroom, so a quota may refuse
  the second one's patch (`QuotaCapped` fails without its last disjunct).
* A threshold of a few percent is below what truncation changes at small
  requests, and `NoChurn` fails.
* A VPA that recommends only memory lowers the CPU request to its minimum:
  `controller:755`.
* `resourcePolicy`, `evaluationWindowMinutes` and `maxUnavailable` are read by
  no code.

## 7. Not modelled, and why

* Messages, events, Prometheus metrics and tracing: they change nothing the
  properties speak of.
* `cmd/main.go`: flags, TLS and registration. Its effect, one process with one
  worker, is assumed; leader election belongs to controller-runtime. A lost
  lease is a `Crash`.
* Generated deep copies and manifests. The RBAC role is not modelled: a
  call without permission is one that is refused, which every call of the
  models may be.
* The text of quantities, and how kinds and names are compared: a VPA's
  recommendation is parsed to a value or to none, a target is this workload's
  or not.
* The parts of the status that are only shown (recommendations, namespace
  constraints, VPA details).
* Two `PodAutoscaler`s that select the same pods. The code does not look for
  another, so they update the pods in turn.
* Persistence of anything but API objects: there is none.

## 8. Plan

Done: `Reconciler` and its runs, the numeric modules, `PodUpdater`,
`VPALookup`, the refinement to `ManagedLifecycle`, and the proofs of section 5,
with the action properties behind the liveness runs.

What would come next:

1. By how much the patches of one pass together exceed a quota's hard limit, in
   terms of the number of its pods. `QuotaCapped` names the cause only.
2. A second `PodAutoscaler` on the same pods, once the code says what is to
   happen then.
3. The liveness properties, once the prover has rules for `ENABLED`: their
   variants, `ResizesConverge` and `DeletionNotBlocked`, are proved.
