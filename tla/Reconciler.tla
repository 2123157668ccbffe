------------------------------ MODULE Reconciler ------------------------------
(***************************************************************************)
(* The control flow of the PodAutoscaler controller for one resource:      *)
(* internal/controller/podautoscaler_controller.go, with the calls it      *)
(* makes to internal/updater, internal/metrics and internal/vpa, between   *)
(* the API server, the informer caches it reads through and the work queue *)
(* that schedules it.  Every API call is a step of its own, so everything  *)
(* else in the cluster can happen between two calls of one reconcile.      *)
(*                                                                         *)
(* Abstracted: a resourceVersion is the two facts a write depends on,      *)
(* whether the cache and the worker's copy are the current version; a pod  *)
(* has one container; whether its recommendation is significant is any     *)
(* Boolean (what it is worth, and what becomes of it, is the subject of    *)
(* Sizing).                                                                *)
(***************************************************************************)
EXTENDS Naturals

CONSTANTS
    Pods,             \* pod names of the namespace
    NoPod,            \* the worker is not in the middle of updating a pod
    Specs,            \* the specs the user may write, a subset of SpecType
    VpaStates,        \* what a VPA lookup may find, a subset of VpaKinds
    PodsLag,          \* whether the pod informer may lag behind the server
    MaxIncarnations,  \* bound: times the resource is created under its name
    MaxGeneration,    \* bound: generation up to which the user edits the spec
    MaxApplied,       \* bound: adjustments in the life of one incarnation
    MaxFaults,        \* bound: API calls that fail or whose answer is lost
    MaxCrashes        \* bound: crashes (or lost leases) of the controller

\* UpdatePolicy.UpdateMode, DryRun, whether Selector parses, the pods it
\* selects, and VPAPolicy: disabled, enabled, or enabled with StrictMode.
SpecType == [mode: {"Auto", "InPlace", "Recreate", "Off"}, dryRun: BOOLEAN,
             valid: BOOLEAN, selects: SUBSET Pods,
             vpa: {"disabled", "lenient", "strict"}]

\* The outcomes of a lookup checkVPAIntegration tells apart: no VPA, one whose
\* mode is not Off, one in mode Off without and with recommendations.
VpaKinds == {"none", "conflict", "off", "recommending"}

Conditions == {"Unset", "True", "False"}

\* PodAutoscalerStatus.
StatusType == [phase: {"", "Pending", "Active", "Degraded", "Error"},
               ready: Conditions, metrics: Conditions, conflict: Conditions,
               vpa: VpaKinds, observed: Nat, total: Nat]

CrType == [exists: BOOLEAN, inc: Nat, gen: Nat, deleting: BOOLEAN,
           finalizer: BOOLEAN, spec: Specs, status: StatusType]

ASSUME ConstantsAssumption ==
    /\ NoPod \notin Pods
    /\ Specs \subseteq SpecType /\ Specs # {}
    /\ VpaStates \subseteq VpaKinds /\ VpaStates # {}
    /\ PodsLag \in BOOLEAN
    /\ {MaxIncarnations, MaxGeneration, MaxApplied, MaxFaults,
        MaxCrashes} \subseteq Nat

VARIABLES
    cr,            \* server: the PodAutoscaler
    pods,          \* server: state of the pod of each name
    annotated,     \* server: pods with podfather.io/last-recommendation
    vpa,           \* server: what a VPA lookup would find
    crCache,       \* informer: the PodAutoscaler as last delivered
    crCacheFresh,  \* informer: crCache is the server's current version
    podCache,      \* informer: the pods as last delivered
    annCache,      \* informer: their annotations as last delivered
    queue,         \* work queue: whether the key is queued, and if so whether
                   \* for more than an event of the controller's own writes
    timer,         \* work queue: the delayed addition of the key
    pc,            \* worker: the call Reconcile makes next
    pa,            \* worker: its copy of the resource
    paFresh,       \* worker: pa carries the current resourceVersion
    todo,          \* worker: pods the loop has not reached
    cur,           \* worker: pod being updated
    adj,           \* worker: adjustmentsMade
    collected,     \* worker: metricsAvailable
    applied,       \* history: updates the server carried out for this cr
    faults,        \* history: faults so far
    crashes,       \* history: crashes so far
    forgotten      \* history: pods with an annotation that a cleanup could not
                   \* remove, or did not know of

serverVars == <<cr, pods, annotated, vpa>>
podVars    == <<pods, annotated>>
cacheVars  == <<crCache, crCacheFresh, podCache, annCache>>
queueVars  == <<queue, timer>>
loopVars   == <<todo, cur, adj, collected>>
workerVars == <<pc, pa, paFresh, loopVars>>
history    == <<applied, faults, crashes, forgotten>>
vars       == <<serverVars, cacheVars, queueVars, workerVars, history>>

-----------------------------------------------------------------------------
(***************************************************************************)
(* The resource on the server.                                             *)
(***************************************************************************)

NewStatus == [phase |-> "", ready |-> "Unset", metrics |-> "Unset",
              conflict |-> "Unset", vpa |-> "none", observed |-> 0,
              total |-> 0]

\* A resource as kubectl creates it: without finalizer, with an empty status.
NewCr(i, s) == [exists |-> TRUE, inc |-> i, gen |-> 1, deleting |-> FALSE,
                finalizer |-> FALSE, spec |-> s, status |-> NewStatus]

\* No resource under the name, after i incarnations.
Gone(i) == [NewCr(i, CHOOSE s \in Specs : TRUE)
              EXCEPT !.exists = FALSE, !.gen = 0]

Managed(c) == c.exists /\ c.finalizer

\* A write by anyone but the worker: every copy of the resource is now old.
OutdatesCopies == crCacheFresh' = FALSE /\ paFresh' = FALSE

Fault == faults < MaxFaults /\ faults' = faults + 1

\* The worker's copy passes the resourceVersion check of an update.
CanWrite == cr.exists /\ paFresh

\* The four calls of Status().Update, on the four paths that write a status.
Writing == {"writeError", "writePending", "writeHalt", "writeFinal"}

\* The server stores the worker's update.  One that changes nothing makes no
\* new version.  A status may change in what is not modelled: the time of the
\* evaluation, the number of pods, the message of a condition.
Store(new) ==
    /\ CanWrite
    /\ cr' = new
    /\ \/ new = cr /\ UNCHANGED crCacheFresh
       \/ (new # cr \/ pc \in Writing) /\ crCacheFresh' = FALSE

UpdateSucceeds(new) == Store(new) /\ UNCHANGED faults

\* Conflict or NotFound; a call that never arrives; an answer that is lost.
UpdateFails(new) ==
    \/ ~CanWrite /\ UNCHANGED <<cr, crCacheFresh, faults>>
    \/ Fault /\ UNCHANGED <<cr, crCacheFresh>>
    \/ Fault /\ Store(new)

-----------------------------------------------------------------------------
(***************************************************************************)
(* The work queue: AddAfter keeps the earlier of two delayed additions.    *)
(***************************************************************************)

Arm(t) == timer' \in IF timer = "none" THEN {t} ELSE {timer, t}

\* Adding a key that is queued already changes nothing but the reason.
Enqueue(why) == queue' = IF queue = "due" THEN "due" ELSE why

\* Mutant of Finish: adjustmentsMade outlives the reconcile.
FinishKeepsCount ==
    /\ pc' = "idle"
    /\ pa' = Gone(0) /\ paFresh' = FALSE
    /\ todo' = {} /\ cur' = NoPod /\ collected' = TRUE
    /\ UNCHANGED <<queue, adj>>

\* Reconcile returns, and its local variables are gone.
Finish ==
    /\ pc' = "idle"
    /\ pa' = Gone(0) /\ paFresh' = FALSE
    /\ todo' = {} /\ cur' = NoPod /\ adj' = 0 /\ collected' = TRUE
    /\ UNCHANGED queue

\* Return with neither an error nor RequeueAfter.  Also the mutant of the two
\* definitions that follow: an error swallowed, an interval forgotten.
ReturnDone     == Finish /\ UNCHANGED timer

\* Return with an error (rate-limited requeue), or with RequeueAfter.
ReturnError    == Finish /\ Arm("backoff")
ReturnInterval == Finish /\ Arm("interval")

Init ==
    /\ cr = Gone(0) /\ crCache = Gone(0) /\ crCacheFresh = TRUE
    /\ pods \in [Pods -> {"Running", "Absent"}]
    /\ podCache = pods
    /\ annotated = {} /\ annCache = {}
    /\ vpa \in VpaStates
    /\ queue = "empty" /\ timer = "none"
    /\ pc = "idle" /\ pa = Gone(0) /\ paFresh = FALSE
    /\ todo = {} /\ cur = NoPod /\ adj = 0 /\ collected = TRUE
    /\ applied = 0 /\ faults = 0 /\ crashes = 0 /\ forgotten = {}

-----------------------------------------------------------------------------
(***************************************************************************)
(* The user, the workload controllers, the VPA, and the informers.         *)
(***************************************************************************)

Create(s) ==
    /\ ~cr.exists /\ cr.inc < MaxIncarnations
    /\ cr' = NewCr(cr.inc + 1, s)
    /\ applied' = 0
    /\ OutdatesCopies
    /\ UNCHANGED <<podVars, vpa, crCache, podCache, annCache, queueVars,
                   pc, pa, loopVars, faults, crashes, forgotten>>

Edit(s) ==
    /\ cr.exists /\ cr.gen < MaxGeneration /\ s # cr.spec
    /\ cr' = [cr EXCEPT !.spec = s, !.gen = @ + 1]
    /\ OutdatesCopies
    /\ UNCHANGED <<podVars, vpa, crCache, podCache, annCache, queueVars,
                   pc, pa, loopVars, history>>

\* With a finalizer deletion only marks the resource (and counts as an edit).
Delete ==
    /\ cr.exists /\ ~cr.deleting
    /\ cr' = IF cr.finalizer
               THEN [cr EXCEPT !.deleting = TRUE, !.gen = @ + 1]
               ELSE Gone(cr.inc)
    /\ OutdatesCopies
    /\ UNCHANGED <<podVars, vpa, crCache, podCache, annCache, queueVars,
                   pc, pa, loopVars, history>>

VpaChanges ==
    /\ vpa' \in VpaStates \ {vpa}
    /\ UNCHANGED <<cr, podVars, cacheVars, queueVars, workerVars, history>>

\* A pod is deleted, by a drain or its owner; it ends; a new one is started.
PodStops(p) ==
    /\ pods[p] = "Running"
    /\ pods' = [pods EXCEPT ![p] = "Terminating"]
    /\ UNCHANGED <<cr, annotated, vpa, cacheVars, queueVars, workerVars, history>>

PodEnds(p) ==
    /\ pods[p] = "Terminating"
    /\ pods' = [pods EXCEPT ![p] = "Absent"]
    /\ annotated' = annotated \ {p} /\ forgotten' = forgotten \ {p}
    /\ UNCHANGED <<cr, vpa, cacheVars, queueVars, workerVars, applied, faults,
                   crashes>>

PodStarts(p) ==
    /\ pods[p] = "Absent"
    /\ pods' = [pods EXCEPT ![p] = "Running"]
    /\ UNCHANGED <<cr, annotated, vpa, cacheVars, queueVars, workerVars, history>>

\* What of the difference between two versions the user is responsible for.
UserPart(c) == [c EXCEPT !.status = NewStatus, !.finalizer = FALSE]

\* The watch For() sets up has no predicate: every new version queues the key,
\* the ones the controller's own writes made ("self") included.
SyncCR ==
    /\ ~crCacheFresh
    /\ crCache' = cr /\ crCacheFresh' = TRUE
    /\ Enqueue(IF UserPart(crCache) = UserPart(cr) THEN "self" ELSE "due")
    /\ UNCHANGED <<serverVars, podCache, annCache, timer, workerVars, history>>

SyncPod(p) ==
    /\ PodsLag
    /\ podCache' = [podCache EXCEPT ![p] = pods[p]]
    /\ annCache' = (annCache \ {p}) \cup (annotated \cap {p})
    /\ <<podCache, annCache>>' # <<podCache, annCache>>
    /\ UNCHANGED <<serverVars, crCache, crCacheFresh, queueVars, workerVars, history>>

TimerFires ==
    /\ timer # "none"
    /\ Enqueue("due") /\ timer' = "none"
    /\ UNCHANGED <<serverVars, cacheVars, workerVars, history>>

\* The process dies at any point and starts again: memory is lost, the caches
\* are listed anew, and the key is queued if the resource is there.
Crash ==
    /\ crashes < MaxCrashes
    /\ crashes' = crashes + 1
    /\ crCache' = cr /\ crCacheFresh' = TRUE
    /\ IF PodsLag THEN podCache' = pods /\ annCache' = annotated
                  ELSE UNCHANGED <<podCache, annCache>>
    /\ queue' = IF cr.exists THEN "due" ELSE "empty"
    /\ timer' = "none"
    /\ pc' = "idle" /\ pa' = Gone(0) /\ paFresh' = FALSE
    /\ todo' = {} /\ cur' = NoPod /\ adj' = 0 /\ collected' = TRUE
    /\ UNCHANGED <<serverVars, applied, faults, forgotten>>

-----------------------------------------------------------------------------
(***************************************************************************)
(* Reconcile, step 1 and 2: fetch and finalizer.                           *)
(***************************************************************************)

\* Mutant of FirstCall: the finalizer is never added.
FirstCallUnheld(c) == IF c.deleting THEN "cleanup" ELSE "discover"

\* What handleFinalizer does first with a resource it is given.
FirstCall(c) ==
    CASE c.deleting                 -> "cleanup"
      [] ~c.deleting /\ ~c.finalizer -> "addFinalizer"
      [] ~c.deleting /\ c.finalizer  -> "discover"

Fetch ==
    /\ pc = "idle" /\ queue # "empty"
    /\ queue' = "empty"
    /\ Managed(crCache) \/ (crCache.exists /\ ~crCache.deleting)
    /\ pa' = crCache /\ paFresh' = crCacheFresh
    /\ pc' = FirstCall(crCache)
    /\ UNCHANGED <<serverVars, cacheVars, timer, loopVars, history>>

\* The resource is gone, or is being deleted and not the controller's to hold.
FetchNothing ==
    /\ pc = "idle" /\ queue # "empty"
    /\ queue' = "empty"
    /\ ~crCache.exists \/ (crCache.deleting /\ ~crCache.finalizer)
    /\ UNCHANGED <<serverVars, cacheVars, timer, workerVars, history>>

FetchFails ==
    /\ pc = "idle" /\ queue # "empty"
    /\ queue' = "empty"
    /\ Fault
    /\ Arm("backoff")
    /\ UNCHANGED <<serverVars, cacheVars, workerVars, applied, crashes, forgotten>>

\* Mutant of AddFinalizer: an update that fails is logged, and work begins.
AddFinalizerOrNot ==
    LET new == [cr EXCEPT !.finalizer = TRUE]
    IN  /\ pc = "addFinalizer"
        /\ UpdateSucceeds(new) \/ UpdateFails(new)
        /\ pc' = "discover" /\ pa' = [pa EXCEPT !.finalizer = TRUE]
        /\ UNCHANGED <<podVars, vpa, crCache, podCache, annCache, queueVars,
                       paFresh, loopVars, applied, crashes, forgotten>>

AddFinalizer ==
    LET new == [cr EXCEPT !.finalizer = TRUE]
    IN  /\ pc = "addFinalizer"
        /\ \/ /\ UpdateSucceeds(new)
              /\ pc' = "discover" /\ pa' = new
              /\ UNCHANGED <<paFresh, loopVars, queueVars>>
           \/ UpdateFails(new) /\ ReturnError
        /\ UNCHANGED <<podVars, vpa, crCache, podCache, annCache, applied, crashes,
                       forgotten>>

\* The pods of a List through the cache.
SeenPods == IF PodsLag THEN podCache ELSE pods
SeenAnnotated == IF PodsLag THEN annCache ELSE annotated

RunningPods == {p \in pa.spec.selects : SeenPods[p] = "Running"}

\* Mutant of ManagedPods: cleanup lists pods the way the loop does.
RunningManagedPods == RunningPods \cap SeenAnnotated

ManagedPods == pa.spec.selects \cap SeenAnnotated

\* Mutant of CleanupList: a selector that does not parse is an error.
CleanupListStrict ==
    /\ pc = "cleanup"
    /\ \/ pa.spec.valid /\ pc' = "cleanupPods" /\ todo' = ManagedPods
          /\ UNCHANGED <<queueVars, pa, paFresh, cur, adj, collected>>
       \/ ~pa.spec.valid /\ ReturnError
    /\ UNCHANGED <<serverVars, cacheVars, history>>

\* cleanupManagedPods: a selector that does not parse and a List that fails
\* are logged, and the finalizer is removed all the same.
CleanupList ==
    /\ pc = "cleanup"
    /\ pc' = "cleanupPods"
    /\ \/ /\ pa.spec.valid /\ UNCHANGED faults
          /\ todo' = ManagedPods
          /\ forgotten' = forgotten \cup (annotated \ SeenAnnotated)
       \/ /\ ~pa.spec.valid /\ UNCHANGED faults
          /\ todo' = {} /\ forgotten' = annotated
       \/ /\ pa.spec.valid /\ Fault
          /\ todo' = {} /\ forgotten' = annotated
    /\ UNCHANGED <<serverVars, cacheVars, queueVars, pa, paFresh, cur, adj,
                   collected, applied, crashes>>

\* Mutant of CleanupPod: a patch that fails is an error.
CleanupPodStrict(p) ==
    /\ pc = "cleanupPods" /\ p \in todo
    /\ \/ /\ annotated' = annotated \ {p} /\ forgotten' = forgotten \ {p}
          /\ todo' = todo \ {p}
          /\ UNCHANGED <<queueVars, pc, pa, paFresh, cur, adj, collected, faults>>
       \/ Fault /\ ReturnError /\ UNCHANGED <<annotated, forgotten>>
    /\ UNCHANGED <<cr, pods, vpa, cacheVars, applied, crashes>>

\* Remove the annotation from one pod; a patch that fails is logged.
CleanupPod(p) ==
    /\ pc = "cleanupPods" /\ p \in todo
    /\ todo' = todo \ {p}
    /\ \/ /\ annotated' = annotated \ {p} /\ forgotten' = forgotten \ {p}
          /\ UNCHANGED faults
       \/ /\ Fault
          /\ forgotten' = forgotten \cup ({p} \cap annotated)
          /\ UNCHANGED annotated
    /\ UNCHANGED <<cr, pods, vpa, cacheVars, queueVars, pc, pa, paFresh, cur,
                   adj, collected, applied, crashes>>

RemoveFinalizer ==
    LET new == Gone(cr.inc)
    IN  /\ pc = "cleanupPods" /\ todo = {}
        /\ \/ UpdateSucceeds(new) /\ ReturnDone
           \/ UpdateFails(new) /\ ReturnError
        /\ UNCHANGED <<podVars, vpa, crCache, podCache, annCache, applied, crashes,
                       forgotten>>

-----------------------------------------------------------------------------
(***************************************************************************)
(* Steps 3 and 4: pods and VPA.                                            *)
(***************************************************************************)

\* Set the status of the worker's copy; the write is a call of its own.
WithStatus(s, next) == pa' = [pa EXCEPT !.status = s] /\ pc' = next

DiscoverInvalid ==
    /\ pc = "discover" /\ ~pa.spec.valid
    /\ WithStatus([pa.status EXCEPT !.phase = "Error", !.ready = "False"],
                  "writeError")
    /\ UNCHANGED <<serverVars, cacheVars, queueVars, paFresh, loopVars, history>>

DiscoverFails ==
    /\ pc = "discover" /\ pa.spec.valid
    /\ Fault
    /\ ReturnError
    /\ UNCHANGED <<serverVars, cacheVars, applied, crashes, forgotten>>

DiscoverNone ==
    /\ pc = "discover" /\ pa.spec.valid /\ RunningPods = {}
    /\ WithStatus([pa.status EXCEPT !.phase = "Pending", !.ready = "False"],
                  "writePending")
    /\ UNCHANGED <<serverVars, cacheVars, queueVars, paFresh, loopVars, history>>

DiscoverPods ==
    /\ pc = "discover" /\ pa.spec.valid /\ RunningPods # {}
    /\ pc' = "vpa" /\ todo' = RunningPods
    /\ UNCHANGED <<serverVars, cacheVars, queueVars, pa, paFresh, cur, adj,
                   collected, history>>

\* checkVPAIntegration and shouldHaltForVPAConflict on what a lookup found.
\* The VPAConflict condition is cleared only by a matching VPA in mode Off.
CheckVPA(found) ==
    /\ pc = "vpa"
    /\ LET status == [pa.status EXCEPT !.vpa = found]
       IN  CASE found = "conflict" /\ pa.spec.vpa = "strict" ->
                  WithStatus([status EXCEPT !.phase = "Degraded",
                                            !.conflict = "True"], "writeHalt")
             [] found = "conflict" /\ pa.spec.vpa # "strict" ->
                  WithStatus(status, "evaluate")
             [] found = "none" -> WithStatus(status, "evaluate")
             [] found \in {"off", "recommending"} ->
                  WithStatus([status EXCEPT !.conflict = "False"], "evaluate")
    /\ UNCHANGED <<serverVars, cacheVars, queueVars, paFresh, loopVars,
                   applied, crashes, forgotten>>

\* A lookup that fails is a VPA that is not there.
LookUpVPA ==
    \/ CheckVPA(IF pa.spec.vpa = "disabled" THEN "none" ELSE vpa) /\ UNCHANGED faults
    \/ pa.spec.vpa # "disabled" /\ CheckVPA("none") /\ Fault

-----------------------------------------------------------------------------
(***************************************************************************)
(* Step 5: the loop over the pods.                                         *)
(***************************************************************************)

\* Mutant of NextPod: a failed in-place update goes on to the annotation.
NextPodFallsThrough == pc' = "annotate" /\ cur' = NoPod

NextPod == pc' = "evaluate" /\ cur' = NoPod

\* MaxApplied bounds what is counted as well as what is applied.
CanAdjust == applied < MaxApplied /\ pa.status.total + adj < MaxApplied

\* evaluatePodMetrics without metrics.  With VPA recommendations none are read.
MetricsMissing(p) ==
    /\ pc = "evaluate" /\ p \in todo /\ pa.status.vpa # "recommending"
    /\ todo' = todo \ {p} /\ collected' = FALSE
    /\ UNCHANGED <<serverVars, cacheVars, queueVars, pc, pa, paFresh, cur, adj,
                   history>>

\* The recommendation is within the threshold, or the run is dry.
LeavePod(p) ==
    /\ pc = "evaluate" /\ p \in todo
    /\ todo' = todo \ {p}
    /\ UNCHANGED <<serverVars, cacheVars, queueVars, pc, pa, paFresh, cur, adj,
                   collected, history>>

\* Mutant of Mutates: DryRun is not looked at.
MutatesAlways == TRUE

Mutates == ~pa.spec.dryRun

\* ApplyRecommendation chooses a strategy; "off" returns no error.
AdjustPod(p) ==
    /\ pc = "evaluate" /\ p \in todo /\ Mutates /\ CanAdjust
    /\ todo' = todo \ {p}
    /\ \/ /\ pa.spec.mode = "Off"
          /\ adj' = adj + 1 /\ UNCHANGED <<pc, cur>>
       \/ /\ pa.spec.mode \in {"Auto", "InPlace"}
          /\ pc' = "resize" /\ cur' = p /\ UNCHANGED adj
       \/ /\ pa.spec.mode = "Recreate"
          /\ pc' = "annotate" /\ cur' = p /\ UNCHANGED adj
    /\ UNCHANGED <<serverVars, cacheVars, queueVars, pa, paFresh, collected,
                   history>>

\* Mutant of FallsBack: the strategies InPlace and Auto are the same.
FallsBackAlways == TRUE

FallsBack == pa.spec.mode = "Auto"

\* applyInPlace: the resources are patched by name, under no resourceVersion.
\* The server may always refuse (no such pod, no in-place resize, a quota).
ResizeInPlace ==
    /\ pc = "resize"
    /\ LET Fails == \/ FallsBack /\ pc' = "annotate" /\ UNCHANGED cur
                    \/ ~FallsBack /\ NextPod
       IN  \/ /\ pods[cur] # "Absent" /\ UNCHANGED faults
              /\ applied' = applied + 1 /\ adj' = adj + 1 /\ NextPod
           \/ /\ pods[cur] # "Absent" /\ Fault
              /\ applied' = applied + 1 /\ UNCHANGED adj /\ Fails
           \/ UNCHANGED <<applied, adj, faults>> /\ Fails
    /\ UNCHANGED <<serverVars, cacheVars, queueVars, pa, paFresh, todo,
                   collected, crashes, forgotten>>

\* applyViaEviction, first call.
AnnotatePod ==
    /\ pc = "annotate"
    /\ \/ /\ pods[cur] # "Absent" /\ UNCHANGED faults
          /\ annotated' = annotated \cup {cur} /\ forgotten' = forgotten \ {cur}
          /\ pc' = "evict" /\ UNCHANGED cur
       \/ /\ pods[cur] # "Absent" /\ Fault
          /\ annotated' = annotated \cup {cur} /\ forgotten' = forgotten \ {cur}
          /\ NextPod
       \/ pods[cur] = "Absent" /\ UNCHANGED <<annotated, forgotten, faults>> /\ NextPod
       \/ Fault /\ UNCHANGED <<annotated, forgotten>> /\ NextPod
    /\ UNCHANGED <<cr, pods, vpa, cacheVars, queueVars, pa, paFresh, todo, adj,
                   collected, applied, crashes>>

\* applyViaEviction, second call.  The server may always refuse (no such pod,
\* a disruption budget, no permission); the annotation then stays.
EvictPod ==
    /\ pc = "evict"
    /\ \/ /\ pods[cur] # "Absent" /\ UNCHANGED faults
          /\ pods' = [pods EXCEPT ![cur] = "Terminating"]
          /\ applied' = applied + 1 /\ adj' = adj + 1
       \/ /\ pods[cur] # "Absent" /\ Fault
          /\ pods' = [pods EXCEPT ![cur] = "Terminating"]
          /\ applied' = applied + 1 /\ UNCHANGED adj
       \/ UNCHANGED <<pods, applied, adj, faults>>
    /\ NextPod
    /\ UNCHANGED <<cr, annotated, vpa, cacheVars, queueVars, pa, paFresh, todo,
                   collected, crashes, forgotten>>

-----------------------------------------------------------------------------
(***************************************************************************)
(* Steps 7 and 8: the status.                                              *)
(***************************************************************************)

\* Mutant of Evaluated: only the phase says that metrics are missing.
EvaluatedPhaseOnly(s) ==
    LET counted == [s EXCEPT !.observed = pa.gen, !.total = @ + adj]
    IN  [counted EXCEPT !.phase = IF collected THEN "Active" ELSE "Degraded",
                        !.ready = "True"]

\* Mutant of Evaluated: the adjustments of this reconcile are the total.
EvaluatedAnew(s) ==
    [s EXCEPT !.observed = pa.gen, !.total = adj, !.phase = "Active",
              !.ready = "True", !.metrics = "True"]

\* A status without metrics leaves the Ready condition as it was.
Evaluated(s) ==
    LET counted == [s EXCEPT !.observed = pa.gen, !.total = @ + adj]
    IN  IF collected
          THEN [counted EXCEPT !.phase = "Active", !.ready = "True",
                               !.metrics = "True"]
          ELSE [counted EXCEPT !.phase = "Degraded", !.metrics = "False"]

Summarise ==
    /\ pc = "evaluate" /\ todo = {}
    /\ WithStatus(Evaluated(pa.status), "writeFinal")
    /\ UNCHANGED <<serverVars, cacheVars, queueVars, paFresh, loopVars, history>>

\* The error of the write is returned on the last path only; an invalid
\* selector returns its own.
WriteStatus ==
    LET new == [cr EXCEPT !.status = pa.status]
    IN  /\ pc \in Writing
        /\ \/ UpdateSucceeds(new) /\ pc # "writeError" /\ ReturnInterval
           \/ UpdateSucceeds(new) /\ pc = "writeError" /\ ReturnError
           \/ UpdateFails(new) /\ pc \in {"writePending", "writeHalt"} /\ ReturnInterval
           \/ UpdateFails(new) /\ pc \in {"writeError", "writeFinal"} /\ ReturnError
        /\ UNCHANGED <<podVars, vpa, crCache, podCache, annCache, applied, crashes,
                       forgotten>>

-----------------------------------------------------------------------------
(***************************************************************************)
(* The specification.  One worker reconciles the key (the default of       *)
(* MaxConcurrentReconciles).                                               *)
(***************************************************************************)

Worker ==
    \/ Fetch \/ FetchNothing \/ FetchFails
    \/ AddFinalizer
    \/ CleanupList \/ (\E p \in Pods : CleanupPod(p)) \/ RemoveFinalizer
    \/ DiscoverInvalid \/ DiscoverFails \/ DiscoverNone \/ DiscoverPods
    \/ LookUpVPA
    \/ \E p \in Pods : MetricsMissing(p) \/ LeavePod(p) \/ AdjustPod(p)
    \/ ResizeInPlace \/ AnnotatePod \/ EvictPod
    \/ Summarise \/ WriteStatus

Informers == SyncCR \/ \E p \in Pods : SyncPod(p)

Environment ==
    \/ Delete \/ VpaChanges \/ Crash
    \/ \E s \in Specs : Create(s) \/ Edit(s)
    \/ \E p \in Pods : PodStops(p) \/ PodEnds(p) \/ PodStarts(p)

Next == Worker \/ Informers \/ TimerFires \/ Environment

Spec == Init /\ [][Next]_vars

\* The worker goroutine runs, the watches deliver, the timers fire.
Fairness ==
    /\ WF_vars(Worker)
    /\ WF_vars(SyncCR)
    /\ \A p \in Pods : WF_vars(SyncPod(p))
    /\ WF_vars(TimerFires)

FairSpec == Spec /\ Fairness

-----------------------------------------------------------------------------
(***************************************************************************)
(* Properties.                                                             *)
(***************************************************************************)

PodStates == {"Running", "Terminating", "Absent"}

Evaluating == {"vpa", "evaluate", "resize", "annotate", "evict", "writeHalt",
               "writeFinal"}

\* Where Reconcile is once handleFinalizer has let it through.
Working == Evaluating \cup {"discover", "writeError", "writePending"}

Removing == {"cleanup", "cleanupPods"}

\* Every variable has its type.
TypeOK ==
    /\ cr \in CrType /\ crCache \in CrType /\ pa \in CrType
    /\ pods \in [Pods -> PodStates] /\ podCache \in [Pods -> PodStates]
    /\ annotated \in SUBSET Pods /\ annCache \in SUBSET Pods
    /\ vpa \in VpaStates
    /\ crCacheFresh \in BOOLEAN /\ paFresh \in BOOLEAN /\ collected \in BOOLEAN
    /\ queue \in {"empty", "self", "due"}
    /\ timer \in {"none", "interval", "backoff"}
    /\ pc \in {"idle", "addFinalizer"} \cup Removing \cup Working
    /\ todo \in SUBSET Pods /\ cur \in Pods \cup {NoPod}
    /\ (pc \in {"resize", "annotate", "evict"}) => cur \in Pods
    /\ adj \in Nat /\ applied \in Nat /\ faults \in Nat /\ crashes \in Nat
    /\ forgotten \in SUBSET Pods

\* handleFinalizer comes before anything else and cleanup runs under it: while
\* the controller works on pods for a resource, that very incarnation is still
\* on the server and held by the finalizer, however old the copy it works from.
FinalizerGuardsWork ==
    pc \in Working => Managed(cr) /\ cr.inc = pa.inc

\* Only the CR is watched, so re-evaluation of pods hangs on RequeueAfter:
\* whatever path Reconcile returned by, a resource the controller knows is
\* queued, being reconciled, or has a timer.
LoopNeverStalls ==
    cr.exists /\ crCacheFresh /\ pc = "idle" /\ queue = "empty" => timer # "none"

\* TotalAdjustments never exceeds the updates the server carried out for this
\* incarnation: no retry, stale read or lost answer counts one of them twice.
\* With mode Off it counts updates that were never made (see the README).
TotalNotOvercounted == cr.exists => cr.status.total <= applied

\* The phase and the conditions one status carries agree, whichever of the
\* four paths of Reconcile wrote it and whatever the previous one left.
StatusCoherent ==
    LET s == cr.status
    IN  /\ s.phase = "Active" => s.ready = "True" /\ s.metrics = "True"
        /\ s.phase \in {"Pending", "Error"} => s.ready = "False"
        /\ s.phase = "Degraded" => s.metrics = "False" \/ s.conflict = "True"
        /\ s.observed <= cr.gen

\* Within an incarnation the totals a user watches never go back: a status
\* computed from an old copy is never stored over a newer one.
StatusNeverRegresses ==
    [][cr.exists /\ cr'.exists /\ cr'.inc = cr.inc
         => /\ cr'.status.total >= cr.status.total
            /\ cr'.status.observed >= cr.status.observed]_vars

\* Once the status says that a dry-run (or Off) spec is the observed one, no
\* reconcile touches a pod until the user edits again: none still runs on an
\* older spec, and no later one reads an older spec from the cache.
ObservedDryRunIsQuiet ==
    [][Worker /\ cr.exists /\ cr.status.observed = cr.gen
         /\ (cr.spec.dryRun \/ cr.spec.mode = "Off")
         => annotated' = annotated /\ pods' = pods /\ applied' = applied]_vars

\* Once the status says that a spec is the observed one, no reconcile goes by
\* another: only pods it selects are updated or marked, and unless it says Auto
\* or Recreate none is evicted or marked, however many patches fail.
ObservedSpecRules ==
    [][Worker /\ cr.exists /\ cr.status.observed = cr.gen
         => /\ applied' # applied \/ ~(annotated' \subseteq annotated)
                => cur \in cr.spec.selects
            /\ cr.spec.mode \notin {"Auto", "Recreate"}
                => pods' = pods /\ annotated' \subseteq annotated]_vars

\* However many attempts a deletion takes and whatever crashed on the way: the
\* annotations a resource leaves behind are those a cleanup tried in vain to
\* remove (forgotten) or could not know of, none that was made after it, none
\* on a pod that it skipped.
NoAnnotationLeft == ~cr.exists => annotated \subseteq forgotten

\* Cleanup is best effort: once a reconcile of the deletion works from the
\* current copy no selector, no failing List, no annotation that cannot be
\* removed holds it up.  Only a change by the user, a failure of the final
\* Update or a crash keeps the resource from going away.
DeletionNotBlocked ==
    [][paFresh /\ pc \in Removing
         => \/ ~cr'.exists
            \/ pc' \in Removing /\ (paFresh' \/ cr'.spec # cr.spec)
            \/ pc = "cleanupPods" /\ todo = {} /\ faults' # faults
            \/ crashes' # crashes]_vars

\* A deleted resource goes away, if calls do not fail for ever.
DeletionCompletes == cr.deleting ~> ~cr.exists

\* A spec that parses, selects a running pod and is not halted by strict mode
\* is eventually the observed one, if it stays so.
Evaluable ==
    /\ cr.exists /\ ~cr.deleting /\ cr.spec.valid
    /\ \E p \in cr.spec.selects : SeenPods[p] = "Running"
    /\ cr.spec.vpa = "strict" => vpa # "conflict"

SpecEventuallyObserved ==
    <>[]Evaluable => []<>(cr.status.observed = cr.gen)

-----------------------------------------------------------------------------
(***************************************************************************)
(* What the documentation says and the code does not do (see the README).  *)
(***************************************************************************)

\* Once a generation is evaluated, its pods are evaluated again when the
\* interval has passed or somebody else did something: refuted by the event of
\* the status write that reports the evaluation.
EvaluatedOnInterval ==
    [][Fetch /\ crCache.exists /\ crCache.status.observed = crCache.gen
         => queue = "due"]_vars

\* Without a failing call the deletion removes every annotation: refuted by a
\* cleanup whose list is older than the annotation.
CleanupRemovesAnnotations == ~cr.exists /\ faults = 0 => annotated = {}
=============================================================================
