--------------------------- MODULE ReconcilerProofs ---------------------------
(***************************************************************************)
(* Theorems about Reconciler, for every value of its constants.            *)
(***************************************************************************)
EXTENDS Reconciler, TLAPS

\* The environment only handles whole resources, the worker only copies them:
\* a resource that is built from the parts of well-typed ones is well typed.
LEMMA NewCrType ==
    ASSUME NEW i \in Nat, NEW s \in Specs
    PROVE  NewCr(i, s) \in CrType
  BY DEF NewCr, NewStatus, CrType, StatusType, Conditions, VpaKinds

LEMMA GoneType == \A i \in Nat : Gone(i) \in CrType
  <1> SUFFICES ASSUME NEW i \in Nat PROVE Gone(i) \in CrType
    OBVIOUS
  <1>1. (CHOOSE s \in Specs : TRUE) \in Specs
    BY ConstantsAssumption
  <1>2. NewCr(i, CHOOSE s \in Specs : TRUE) \in CrType
    BY <1>1, NewCrType
  <1> QED BY <1>2 DEF Gone, CrType

\* The records the actions make by updating fields, with the new values as
\* parameters: arithmetic stays out of the updates.
LEMMA UpdatedTypes ==
    ASSUME NEW c \in CrType, NEW s \in Specs, NEW n \in Nat
    PROVE  /\ [c EXCEPT !.spec = s, !.gen = n] \in CrType
           /\ [c EXCEPT !.deleting = TRUE, !.gen = n] \in CrType
           /\ [c EXCEPT !.finalizer = TRUE] \in CrType
  BY DEF CrType

LEMMA UpdatedStatusTypes ==
    ASSUME NEW s \in StatusType, NEW n \in Nat, NEW t \in Nat, NEW v \in VpaKinds
    PROVE  /\ [s EXCEPT !.phase = "Error", !.ready = "False"] \in StatusType
           /\ [s EXCEPT !.phase = "Pending", !.ready = "False"] \in StatusType
           /\ [s EXCEPT !.vpa = v] \in StatusType
           /\ [s EXCEPT !.phase = "Degraded", !.conflict = "True"] \in StatusType
           /\ [s EXCEPT !.conflict = "False"] \in StatusType
           /\ [s EXCEPT !.observed = n, !.total = t] \in StatusType
           /\ [s EXCEPT !.phase = "Active", !.ready = "True", !.metrics = "True"]
                \in StatusType
           /\ [s EXCEPT !.phase = "Degraded", !.metrics = "False"] \in StatusType
  BY DEF StatusType, Conditions

LEMMA StatusOfCopy ==
    ASSUME NEW c \in CrType, NEW s \in StatusType
    PROVE  [c EXCEPT !.status = s] \in CrType
  BY DEF CrType

LEMMA FinishTypes ==
    ASSUME TypeOK, Finish
    PROVE  /\ pa' \in CrType /\ paFresh' \in BOOLEAN /\ collected' \in BOOLEAN
           /\ pc' = "idle" /\ todo' \in SUBSET Pods /\ cur' = NoPod /\ adj' \in Nat
           /\ queue' = queue
  BY GoneType DEF Finish

LEMMA ArmTypes ==
    ASSUME TypeOK, NEW t \in {"interval", "backoff"}, Arm(t)
    PROVE  timer' \in {"interval", "backoff"}
  BY DEF TypeOK, Arm

LEMMA StoreTypes ==
    ASSUME TypeOK, NEW new \in CrType, UpdateSucceeds(new) \/ UpdateFails(new)
    PROVE  cr' \in CrType /\ crCacheFresh' \in BOOLEAN /\ faults' \in Nat
  <1>1. cr' \in CrType /\ crCacheFresh' \in BOOLEAN
    BY DEF TypeOK, UpdateSucceeds, UpdateFails, Store
  <1>2. faults' = faults \/ faults' = faults + 1
    BY DEF UpdateSucceeds, UpdateFails, Fault
  <1> QED BY <1>1, <1>2 DEF TypeOK

LEMMA InitTypes == Init => TypeOK
  <1> SUFFICES ASSUME Init PROVE TypeOK
    OBVIOUS
  <1>1. Gone(0) \in CrType
    BY GoneType
  <1>2. pods \in [Pods -> PodStates]
    BY DEF Init, PodStates
  <1>3. pc \notin {"resize", "annotate", "evict"}
    BY DEF Init
  <1> QED BY <1>1, <1>2, <1>3 DEF Init, TypeOK

LEMMA NextTypes == TypeOK /\ [Next]_vars => TypeOK'
  <1> SUFFICES ASSUME TypeOK, [Next]_vars PROVE TypeOK'
    OBVIOUS
  <1> USE DEF serverVars, podVars, cacheVars, queueVars, loopVars, workerVars, history
  <1>1. ASSUME NEW s \in Specs, Create(s) PROVE TypeOK'
    <2>1. cr.inc + 1 \in Nat
      BY DEF TypeOK, CrType
    <2>2. cr' \in CrType
      BY <1>1, <2>1, NewCrType DEF Create
    <2> QED BY <1>1, <2>2 DEF Create, OutdatesCopies, TypeOK
  <1>2. ASSUME NEW s \in Specs, Edit(s) PROVE TypeOK'
    <2>1. cr \in CrType /\ cr.gen + 1 \in Nat
      BY DEF TypeOK, CrType
    <2>2. cr' \in CrType
      BY <1>2, <2>1, UpdatedTypes DEF Edit
    <2> QED BY <1>2, <2>2 DEF Edit, OutdatesCopies, TypeOK
  <1>3. ASSUME Delete PROVE TypeOK'
    <2>1. cr \in CrType /\ cr.inc \in Nat /\ cr.gen + 1 \in Nat /\ cr.spec \in Specs
      BY DEF TypeOK, CrType
    <2>2. cr' \in CrType
      BY <1>3, <2>1, GoneType, UpdatedTypes DEF Delete
    <2> QED BY <1>3, <2>2 DEF Delete, OutdatesCopies, TypeOK
  <1>4. ASSUME VpaChanges PROVE TypeOK'
    BY <1>4 DEF VpaChanges, TypeOK
  <1>5. ASSUME NEW p \in Pods, PodStops(p) \/ PodEnds(p) \/ PodStarts(p) PROVE TypeOK'
    BY <1>5 DEF PodStops, PodEnds, PodStarts, TypeOK, PodStates
  <1>6. ASSUME Crash PROVE TypeOK'
    <2>1. Gone(0) \in CrType /\ 0 \in Nat /\ crashes + 1 \in Nat
      BY GoneType DEF TypeOK
    <2>2. podCache' \in [Pods -> PodStates] /\ annCache' \in SUBSET Pods
      BY <1>6 DEF Crash, TypeOK
    <2> QED BY <1>6, <2>1, <2>2 DEF Crash, TypeOK
  <1>7. ASSUME SyncCR PROVE TypeOK'
    BY <1>7 DEF SyncCR, Enqueue, TypeOK
  <1>8. ASSUME NEW p \in Pods, SyncPod(p) PROVE TypeOK'
    BY <1>8 DEF SyncPod, TypeOK, PodStates
  <1>9. ASSUME TimerFires PROVE TypeOK'
    BY <1>9 DEF TimerFires, Enqueue, TypeOK
  <1>10. ASSUME Fetch PROVE TypeOK'
    BY <1>10 DEF Fetch, FirstCall, TypeOK, Removing, Working, Evaluating, CrType
  <1>11. ASSUME FetchNothing \/ FetchFails PROVE TypeOK'
    BY <1>11, ArmTypes DEF FetchNothing, FetchFails, Fault, TypeOK
  <1>12. ASSUME AddFinalizer PROVE TypeOK'
    <2> DEFINE new == [cr EXCEPT !.finalizer = TRUE]
    <2>1. new \in CrType
      BY DEF TypeOK, CrType
    <2> HIDE DEF new
    <2>2. CASE UpdateSucceeds(new) /\ pc' = "discover" /\ pa' = new
               /\ UNCHANGED <<paFresh, loopVars, queueVars>>
      BY <1>12, <2>1, <2>2, StoreTypes DEF AddFinalizer, TypeOK, Working
    <2>3. CASE UpdateFails(new) /\ ReturnError
      BY <1>12, <2>1, <2>3, StoreTypes, FinishTypes, ArmTypes
         DEF AddFinalizer, ReturnError, TypeOK
    <2> QED BY <1>12, <2>2, <2>3 DEF AddFinalizer, new
  <1>13. ASSUME CleanupList PROVE TypeOK'
    BY <1>13 DEF CleanupList, ManagedPods, SeenAnnotated, Fault, TypeOK, Removing
  <1>14. ASSUME NEW p \in Pods, CleanupPod(p) PROVE TypeOK'
    BY <1>14 DEF CleanupPod, Fault, TypeOK
  <1>15. ASSUME RemoveFinalizer PROVE TypeOK'
    <2>1. Gone(cr.inc) \in CrType
      BY GoneType DEF TypeOK, CrType
    <2>2. CASE UpdateSucceeds(Gone(cr.inc)) /\ ReturnDone
      BY <1>15, <2>1, <2>2, StoreTypes, FinishTypes
         DEF RemoveFinalizer, ReturnDone, TypeOK
    <2>3. CASE UpdateFails(Gone(cr.inc)) /\ ReturnError
      BY <1>15, <2>1, <2>3, StoreTypes, FinishTypes, ArmTypes
         DEF RemoveFinalizer, ReturnError, TypeOK
    <2> QED BY <1>15, <2>2, <2>3 DEF RemoveFinalizer
  <1>16. ASSUME DiscoverInvalid \/ DiscoverNone PROVE TypeOK'
    <2>1. pa \in CrType /\ pa.status \in StatusType /\ 0 \in Nat /\ "none" \in VpaKinds
      BY DEF TypeOK, CrType, VpaKinds
    <2>2. pa' \in CrType
      BY <1>16, <2>1, UpdatedStatusTypes, StatusOfCopy
         DEF DiscoverInvalid, DiscoverNone, WithStatus
    <2> QED BY <1>16, <2>2 DEF DiscoverInvalid, DiscoverNone, WithStatus, TypeOK,
                   Working, Evaluating
  <1>17. ASSUME DiscoverFails PROVE TypeOK'
    BY <1>17, FinishTypes, ArmTypes DEF DiscoverFails, Fault, ReturnError, TypeOK
  <1>18. ASSUME DiscoverPods PROVE TypeOK'
    <2>1. pa.spec.selects \subseteq Pods
      BY ConstantsAssumption DEF TypeOK, CrType, SpecType
    <2>2. RunningPods \in SUBSET Pods
      BY <2>1 DEF RunningPods
    <2> QED BY <1>18, <2>2 DEF DiscoverPods, TypeOK, Working, Evaluating
  <1>19. ASSUME LookUpVPA PROVE TypeOK'
    <2>1. PICK found \in VpaKinds : CheckVPA(found) /\ (UNCHANGED faults \/ Fault)
      BY <1>19, ConstantsAssumption DEF LookUpVPA, TypeOK, VpaKinds
    <2>2. pa \in CrType /\ pa.status \in StatusType /\ 0 \in Nat
      BY DEF TypeOK, CrType
    <2>3. [pa.status EXCEPT !.vpa = found] \in StatusType
      BY <2>1, <2>2, UpdatedStatusTypes
    <2>4. PICK s \in StatusType, next \in {"writeHalt", "evaluate"} : WithStatus(s, next)
      BY <2>1, <2>2, <2>3, UpdatedStatusTypes DEF CheckVPA, VpaKinds
    <2>5. pa' \in CrType /\ pc' \in {"writeHalt", "evaluate"}
      BY <2>2, <2>4, StatusOfCopy DEF WithStatus
    <2>6. faults' \in Nat
      BY <2>1 DEF Fault, TypeOK
    <2> QED BY <2>1, <2>5, <2>6 DEF CheckVPA, TypeOK, Working, Evaluating
  <1>20. ASSUME NEW p \in Pods, MetricsMissing(p) \/ LeavePod(p) \/ AdjustPod(p)
         PROVE TypeOK'
    <2>1. CASE MetricsMissing(p) \/ LeavePod(p)
      BY <2>1 DEF MetricsMissing, LeavePod, TypeOK
    <2>2. CASE AdjustPod(p)
      <3>1. adj' \in Nat /\ todo' \in SUBSET Pods
        BY <2>2 DEF AdjustPod, TypeOK
      <3>2. \/ pc' = pc /\ cur' = cur
            \/ pc' \in {"resize", "annotate"} /\ cur' = p
        BY <2>2 DEF AdjustPod
      <3> QED BY <2>2, <3>1, <3>2 DEF AdjustPod, TypeOK, Working, Evaluating
    <2> QED BY <1>20, <2>1, <2>2
  <1>21. ASSUME ResizeInPlace PROVE TypeOK'
    BY <1>21 DEF ResizeInPlace, NextPod, Fault, TypeOK, Working, Evaluating
  <1>22. ASSUME AnnotatePod PROVE TypeOK'
    BY <1>22 DEF AnnotatePod, NextPod, Fault, TypeOK, Working, Evaluating
  <1>23. ASSUME EvictPod PROVE TypeOK'
    BY <1>23 DEF EvictPod, NextPod, Fault, TypeOK, PodStates, Working, Evaluating
  <1>24. ASSUME Summarise PROVE TypeOK'
    <2>1. pa \in CrType /\ pa.status \in StatusType /\ pa.gen \in Nat
      BY DEF TypeOK, CrType
    <2>2. pa.status.total + adj \in Nat
      <3>1. adj \in Nat
        BY DEF TypeOK
      <3>2. pa.status.total \in Nat
        BY <2>1 DEF StatusType
      <3> QED BY <3>1, <3>2
    <2>3. [pa.status EXCEPT !.observed = pa.gen, !.total = pa.status.total + adj] \in StatusType
      BY <2>1, <2>2, UpdatedStatusTypes DEF VpaKinds
    <2>4. Evaluated(pa.status) \in StatusType
      BY <2>2, <2>3, UpdatedStatusTypes DEF Evaluated, VpaKinds
    <2>5. pa' \in CrType
      BY <1>24, <2>1, <2>4, StatusOfCopy DEF Summarise, WithStatus
    <2> QED BY <1>24, <2>5 DEF Summarise, WithStatus, TypeOK, Working, Evaluating
  <1>25. ASSUME WriteStatus PROVE TypeOK'
    <2> DEFINE new == [cr EXCEPT !.status = pa.status]
    <2>1. new \in CrType
      BY DEF TypeOK, CrType
    <2> HIDE DEF new
    <2>2. /\ UpdateSucceeds(new) \/ UpdateFails(new)
          /\ ReturnInterval \/ ReturnError
          /\ UNCHANGED <<podVars, vpa, crCache, podCache, annCache, applied, crashes,
                         forgotten>>
      BY <1>25 DEF WriteStatus, new
    <2>3. Finish /\ timer' \in {"interval", "backoff"}
      BY <2>2, ArmTypes DEF ReturnInterval, ReturnError
    <2> QED BY <2>1, <2>2, <2>3, StoreTypes, FinishTypes DEF TypeOK
  <1>26. CASE UNCHANGED vars
    BY <1>26 DEF vars, TypeOK
  <1> QED
    BY <1>1, <1>2, <1>3, <1>4, <1>5, <1>6, <1>7, <1>8, <1>9, <1>10, <1>11, <1>12,
       <1>13, <1>14, <1>15, <1>16, <1>17, <1>18, <1>19, <1>20, <1>21, <1>22, <1>23,
       <1>24, <1>25, <1>26
       DEF Next, Worker, Informers, Environment

\* Type correctness: every variable of the controller, of its caches and of the
\* server keeps its type.
THEOREM TypeCorrectness == Spec => []TypeOK
  BY InitTypes, NextTypes, PTL DEF Spec

-----------------------------------------------------------------------------
(***************************************************************************)
(* The steps of Next by what they do to the resource and to its copies.    *)
(***************************************************************************)

\* Between handleFinalizer and the write of the status the worker changes
\* pods, its loop variables and the status in its copy, nothing else.
LoopAction ==
    \/ DiscoverInvalid \/ DiscoverNone \/ DiscoverPods \/ LookUpVPA
    \/ \E p \in Pods : MetricsMissing(p) \/ LeavePod(p) \/ AdjustPod(p)
    \/ ResizeInPlace \/ AnnotatePod \/ EvictPod \/ Summarise

\* The steps that are none of this component's business.
QuietAction ==
    \/ VpaChanges
    \/ \E p \in Pods : PodStops(p) \/ PodEnds(p) \/ PodStarts(p) \/ SyncPod(p)
    \/ UNCHANGED vars

CleanupAction == CleanupList \/ \E p \in Pods : CleanupPod(p)

crVars == <<cr, crCache, crCacheFresh>>

LEMMA NextCases ==
    ASSUME [Next]_vars
    PROVE  \/ \E s \in Specs : Create(s) \/ Edit(s)
           \/ Delete \/ Crash \/ SyncCR \/ TimerFires
           \/ Fetch \/ FetchNothing \/ FetchFails \/ AddFinalizer
           \/ CleanupAction \/ RemoveFinalizer
           \/ DiscoverFails \/ LoopAction \/ WriteStatus \/ QuietAction
  BY DEF Next, Worker, Informers, Environment, LoopAction, QuietAction, CleanupAction

LEMMA QuietFrame ==
    ASSUME QuietAction
    PROVE  UNCHANGED <<crVars, queue, timer, pc, pa, paFresh, adj, applied>>
  BY DEF QuietAction, VpaChanges, PodStops, PodEnds, PodStarts, SyncPod, vars,
         serverVars, cacheVars, queueVars, loopVars, workerVars, history, crVars

LEMMA CleanupFrame ==
    ASSUME CleanupAction
    PROVE  /\ pc \in Removing /\ pc' \in Removing
           /\ UNCHANGED <<crVars, queue, timer, pa, paFresh, adj, applied>>
  BY DEF CleanupAction, CleanupList, CleanupPod, Removing, serverVars, cacheVars,
         queueVars, crVars

LEMMA WithStatusFrame ==
    ASSUME TypeOK, NEW s, NEW next, WithStatus(s, next)
    PROVE  /\ pc' = next /\ pa'.status = s
           /\ pa'.inc = pa.inc /\ pa'.gen = pa.gen /\ pa'.spec = pa.spec
  BY DEF WithStatus, TypeOK, CrType

LEMMA LoopFrame ==
    ASSUME TypeOK, LoopAction
    PROVE  /\ pc \in Working /\ pc' \in Working
           /\ UNCHANGED <<crVars, queue, timer, paFresh>>
           /\ pa'.inc = pa.inc /\ pa'.gen = pa.gen /\ pa'.spec = pa.spec
  <1> USE DEF serverVars, cacheVars, queueVars, loopVars, crVars, Working, Evaluating
  <1> DEFINE Frame == /\ pc \in Working /\ pc' \in Working
                      /\ UNCHANGED <<crVars, queue, timer, paFresh>>
                      /\ pa'.inc = pa.inc /\ pa'.gen = pa.gen /\ pa'.spec = pa.spec
  <1>1. CASE DiscoverInvalid \/ DiscoverNone \/ Summarise
    BY <1>1, WithStatusFrame DEF DiscoverInvalid, DiscoverNone, Summarise
  <1>2. CASE DiscoverPods
    BY <1>2 DEF DiscoverPods
  <1>3. CASE LookUpVPA
    <2>1. PICK found \in VpaKinds : CheckVPA(found)
      BY <1>3, ConstantsAssumption DEF LookUpVPA, TypeOK, VpaKinds
    <2> DEFINE status == [pa.status EXCEPT !.vpa = found]
    <2>2. \/ WithStatus([status EXCEPT !.phase = "Degraded", !.conflict = "True"],
                        "writeHalt")
          \/ WithStatus(status, "evaluate")
          \/ WithStatus([status EXCEPT !.conflict = "False"], "evaluate")
      BY <2>1 DEF CheckVPA, VpaKinds
    <2> HIDE DEF status
    <2>3. pc' \in {"writeHalt", "evaluate"}
          /\ pa'.inc = pa.inc /\ pa'.gen = pa.gen /\ pa'.spec = pa.spec
      BY <2>2, WithStatusFrame
    <2> QED BY <2>1, <2>3 DEF CheckVPA
  <1>4. ASSUME NEW p \in Pods, MetricsMissing(p) \/ LeavePod(p) \/ AdjustPod(p)
        PROVE  Frame
    BY <1>4 DEF MetricsMissing, LeavePod, AdjustPod
  <1>5. CASE ResizeInPlace
    BY <1>5 DEF ResizeInPlace, NextPod
  <1>6. CASE AnnotatePod \/ EvictPod
    BY <1>6 DEF AnnotatePod, EvictPod, NextPod
  <1> QED BY <1>1, <1>2, <1>3, <1>4, <1>5, <1>6 DEF LoopAction

\* The four ways Reconcile returns after its first call.
LEMMA FinishFacts ==
    ASSUME TypeOK, Finish
    PROVE  /\ pc' = "idle" /\ ~paFresh' /\ adj' = 0 /\ queue' = queue
           /\ pa'.inc = 0 /\ ~pa'.exists
  BY DEF Finish, Gone, NewCr

LEMMA GoneFacts ==
    \A i : /\ ~Gone(i).exists /\ Gone(i).inc = i
           /\ ~Gone(i).deleting /\ ~Gone(i).finalizer
  BY DEF Gone, NewCr

-----------------------------------------------------------------------------
(***************************************************************************)
(* The loop never stalls.  Every return but two arms the timer; those two  *)
(* are safe because a fresh cache is the server's resource, and a resource *)
(* being deleted is there only as long as its finalizer.                   *)
(***************************************************************************)

CacheInv ==
    /\ crCacheFresh => crCache = cr
    /\ cr.exists /\ cr.deleting => cr.finalizer

\* The inductive invariant behind LoopNeverStalls.
StallInv == TypeOK /\ CacheInv /\ LoopNeverStalls

LEMMA StoreCacheInv ==
    ASSUME TypeOK, CacheInv, NEW new,
           UpdateSucceeds(new) \/ UpdateFails(new), UNCHANGED crCache,
           new.exists /\ new.deleting => new.finalizer
    PROVE  CacheInv'
  BY DEF CacheInv, UpdateSucceeds, UpdateFails, Store

LEMMA CrFields ==
    ASSUME TypeOK
    PROVE  /\ \A t : /\ [cr EXCEPT !.status = t].exists = cr.exists
                    /\ [cr EXCEPT !.status = t].inc = cr.inc
                    /\ [cr EXCEPT !.status = t].gen = cr.gen
                    /\ [cr EXCEPT !.status = t].deleting = cr.deleting
                    /\ [cr EXCEPT !.status = t].finalizer = cr.finalizer
                    /\ [cr EXCEPT !.status = t].status = t
           /\ [cr EXCEPT !.finalizer = TRUE].exists = cr.exists
           /\ [cr EXCEPT !.finalizer = TRUE].inc = cr.inc
           /\ [cr EXCEPT !.finalizer = TRUE].gen = cr.gen
           /\ [cr EXCEPT !.finalizer = TRUE].deleting = cr.deleting
           /\ [cr EXCEPT !.finalizer = TRUE].finalizer = TRUE
           /\ [cr EXCEPT !.finalizer = TRUE].status = cr.status
  BY DEF TypeOK, CrType

LEMMA NextStallInv == StallInv /\ [Next]_vars => StallInv'
  <1> SUFFICES ASSUME StallInv, [Next]_vars PROVE StallInv'
    OBVIOUS
  <1> USE DEF StallInv
  <1>1. TypeOK /\ TypeOK'
    BY NextTypes
  <1>2. CASE \E s \in Specs : Create(s) \/ Edit(s)
    <2>1. ~crCacheFresh'
      BY <1>2 DEF Create, Edit, OutdatesCopies
    <2>2. ASSUME NEW s \in Specs, Create(s)
          PROVE  cr'.exists /\ cr'.deleting => cr'.finalizer
      BY <2>2 DEF Create, NewCr
    <2>3. ASSUME NEW s \in Specs, Edit(s)
          PROVE  cr'.exists /\ cr'.deleting => cr'.finalizer
      <3>1. cr'.deleting = cr.deleting /\ cr'.finalizer = cr.finalizer
        BY <2>3 DEF Edit, TypeOK, CrType
      <3> QED BY <2>3, <3>1 DEF Edit, CacheInv
    <2> QED BY <1>1, <1>2, <2>1, <2>2, <2>3 DEF CacheInv, LoopNeverStalls
  <1>3. CASE Delete
    BY <1>1, <1>3, GoneFacts DEF Delete, OutdatesCopies, CacheInv, LoopNeverStalls,
                      TypeOK, CrType
  <1>4. CASE Crash
    BY <1>1, <1>4 DEF Crash, CacheInv, LoopNeverStalls, serverVars
  <1>5. CASE SyncCR \/ TimerFires
    BY <1>1, <1>5 DEF SyncCR, TimerFires, Enqueue, CacheInv, LoopNeverStalls,
                      serverVars, cacheVars
  <1>6. CASE Fetch
    BY <1>1, <1>6 DEF Fetch, FirstCall, CacheInv, LoopNeverStalls, serverVars, cacheVars,
                      TypeOK, CrType
  <1>7. CASE FetchNothing \/ FetchFails
    BY <1>1, <1>7, ArmTypes DEF FetchNothing, FetchFails, CacheInv, LoopNeverStalls,
                      serverVars, cacheVars
  <1>8. CASE AddFinalizer
    <2>1. CacheInv'
      BY <1>1, <1>8, CrFields, StoreCacheInv DEF AddFinalizer
    <2>2. pc' = "discover" \/ timer' \in {"interval", "backoff"}
      BY <1>1, <1>8, ArmTypes DEF AddFinalizer, ReturnError
    <2> QED BY <1>1, <2>1, <2>2 DEF LoopNeverStalls
  <1>9. CASE CleanupAction
    BY <1>1, <1>9, CleanupFrame DEF CacheInv, LoopNeverStalls, crVars, Removing
  <1>10. CASE RemoveFinalizer
    <2>1. CacheInv'
      BY <1>1, <1>10, GoneFacts, StoreCacheInv DEF RemoveFinalizer
    <2>2. ~cr'.exists \/ timer' \in {"interval", "backoff"}
      BY <1>1, <1>10, GoneFacts, ArmTypes
         DEF RemoveFinalizer, UpdateSucceeds, Store, ReturnError
    <2> QED BY <1>1, <2>1, <2>2 DEF LoopNeverStalls
  <1>11. CASE DiscoverFails
    BY <1>1, <1>11, ArmTypes DEF DiscoverFails, ReturnError, CacheInv, LoopNeverStalls,
                      serverVars, cacheVars
  <1>12. CASE LoopAction
    BY <1>1, <1>12, LoopFrame DEF CacheInv, LoopNeverStalls, crVars, Working, Evaluating
  <1>13. CASE WriteStatus
    <2>1. CacheInv'
      BY <1>1, <1>13, CrFields, StoreCacheInv DEF WriteStatus, CacheInv
    <2>2. timer' \in {"interval", "backoff"}
      BY <1>1, <1>13, ArmTypes DEF WriteStatus, ReturnError, ReturnInterval
    <2> QED BY <1>1, <2>1, <2>2 DEF LoopNeverStalls
  <1>14. CASE QuietAction
    BY <1>1, <1>14, QuietFrame DEF CacheInv, LoopNeverStalls, crVars
  <1> QED
    BY <1>2, <1>3, <1>4, <1>5, <1>6, <1>7, <1>8, <1>9, <1>10, <1>11, <1>12, <1>13,
       <1>14, NextCases

\* Whatever the instance: a resource the controller has seen in its current
\* version is never left without a future reconcile.
THEOREM LoopNeverStallsAlways == Spec => []LoopNeverStalls
  <1>1. Init => StallInv
    BY InitTypes, GoneFacts DEF Init, StallInv, CacheInv, LoopNeverStalls
  <1> QED BY <1>1, NextStallInv, PTL DEF Spec, StallInv

-----------------------------------------------------------------------------
(***************************************************************************)
(* The finalizer guards the work.  The worker acts on a copy that may be   *)
(* arbitrarily old, so the argument is about what an old copy still says:  *)
(* one that is held (finalizer, no deletion) speaks of an incarnation that *)
(* is still on the server under the finalizer, because the only one to     *)
(* remove the finalizer is the worker itself, after it has read a copy     *)
(* that is being deleted, and copies never go back in time.                *)
(***************************************************************************)

Held(c) == Managed(c) /\ ~c.deleting

\* No copy is of a later incarnation than the server's.
IncarnationInv ==
    /\ crCache.inc <= cr.inc /\ pa.inc <= cr.inc
    /\ paFresh => pa.inc = cr.inc

\* What the copy in the cache says that is still true.
CacheHolds ==
    /\ Held(crCache) => Managed(cr) /\ cr.inc = crCache.inc
    /\ crCache.exists /\ crCache.deleting /\ cr.exists /\ cr.inc = crCache.inc
         => cr.deleting

\* Once the worker has read that its incarnation is being deleted, it is, and
\* the cache will not say otherwise.
RemovalInv ==
    pc \in Removing =>
      /\ cr.exists /\ cr.inc = pa.inc => cr.deleting
      /\ ~(Held(crCache) /\ crCache.inc = pa.inc)

LifecycleInv ==
    TypeOK /\ CacheInv /\ IncarnationInv /\ CacheHolds /\ RemovalInv /\ FinalizerGuardsWork

LEMMA IncTypes ==
    ASSUME TypeOK
    PROVE  cr.inc \in Nat /\ crCache.inc \in Nat /\ pa.inc \in Nat
  BY DEF TypeOK, CrType

\* The invariant speaks of these fields only.
LEMMA LifecycleFrame ==
    ASSUME LifecycleInv, TypeOK', CacheInv',
           cr'.exists = cr.exists, cr'.inc = cr.inc, cr'.deleting = cr.deleting,
           cr'.finalizer = cr.finalizer, UNCHANGED crCache,
           pc' = "idle" /\ pa'.inc = 0 /\ ~paFresh'
    PROVE  LifecycleInv'
  BY IncTypes DEF LifecycleInv, IncarnationInv, CacheHolds, RemovalInv,
                  FinalizerGuardsWork, Held, Managed, Removing, Working, Evaluating

LEMMA NextLifecycleInv == LifecycleInv /\ [Next]_vars => LifecycleInv'
  <1> SUFFICES ASSUME LifecycleInv, [Next]_vars PROVE LifecycleInv'
    OBVIOUS
  <1> USE DEF LifecycleInv
  <1>1. TypeOK /\ TypeOK'
    BY NextTypes
  <1>2. ASSUME NEW s \in Specs, Create(s) PROVE LifecycleInv'
    <2>1. /\ cr'.exists /\ cr'.inc = cr.inc + 1 /\ ~cr'.deleting /\ ~cr.exists
          /\ ~crCacheFresh' /\ ~paFresh' /\ UNCHANGED <<crCache, pc, pa>>
      BY <1>2 DEF Create, NewCr, OutdatesCopies, loopVars
    <2> QED BY <1>1, <2>1, IncTypes
            DEF CacheInv, IncarnationInv, CacheHolds, RemovalInv, FinalizerGuardsWork,
                Managed
  <1>3. ASSUME NEW s \in Specs, Edit(s) PROVE LifecycleInv'
    <2>1. /\ cr'.exists = cr.exists /\ cr'.inc = cr.inc /\ cr'.deleting = cr.deleting
          /\ cr'.finalizer = cr.finalizer
          /\ ~crCacheFresh' /\ ~paFresh' /\ UNCHANGED <<crCache, pc, pa>>
      BY <1>3 DEF Edit, OutdatesCopies, TypeOK, CrType
    <2> QED BY <1>1, <2>1
            DEF CacheInv, IncarnationInv, CacheHolds, RemovalInv, FinalizerGuardsWork,
                Managed, Held
  <1>4. CASE Delete
    <2>1. cr'.inc = cr.inc /\ ~crCacheFresh' /\ ~paFresh' /\ UNCHANGED <<crCache, pc, pa>>
      BY <1>4, GoneFacts DEF Delete, OutdatesCopies, TypeOK, CrType
    <2>2. CASE cr.finalizer
      <3>1. cr'.exists /\ cr'.deleting /\ cr'.finalizer
        BY <1>4, <2>2 DEF Delete, TypeOK, CrType
      <3> QED BY <1>1, <2>1, <2>2, <3>1, <1>4
              DEF CacheInv, IncarnationInv, CacheHolds, RemovalInv,
                  FinalizerGuardsWork, Managed, Held, Delete
    <2>3. CASE ~cr.finalizer
      <3>1. ~cr'.exists
        BY <1>4, <2>3, GoneFacts DEF Delete
      <3> QED BY <1>1, <2>1, <2>3, <3>1
              DEF CacheInv, IncarnationInv, CacheHolds, RemovalInv,
                  FinalizerGuardsWork, Managed, Held
    <2> QED BY <2>2, <2>3
  <1>5. CASE Crash
    <2>1. /\ cr' = cr /\ crCache' = cr /\ pc' = "idle" /\ ~paFresh' /\ pa'.inc = 0
      BY <1>5, GoneFacts DEF Crash, serverVars
    <2> QED BY <1>1, <2>1, IncTypes
            DEF CacheInv, IncarnationInv, CacheHolds, RemovalInv, FinalizerGuardsWork,
                Managed, Held, Removing, Working, Evaluating
  <1>6. CASE SyncCR
    <2>1. cr' = cr /\ crCache' = cr /\ UNCHANGED <<pc, pa, paFresh>>
      BY <1>6 DEF SyncCR, serverVars, workerVars
    <2> QED BY <1>1, <2>1, IncTypes
            DEF CacheInv, IncarnationInv, CacheHolds, RemovalInv, FinalizerGuardsWork,
                Managed, Held
  <1>7. CASE TimerFires \/ FetchNothing \/ FetchFails \/ QuietAction
    <2>1. UNCHANGED <<cr, crCache, crCacheFresh, pc, pa, paFresh>>
      BY <1>7, QuietFrame DEF TimerFires, FetchNothing, FetchFails, serverVars, cacheVars,
                  workerVars, crVars
    <2> QED BY <1>1, <2>1
            DEF CacheInv, IncarnationInv, CacheHolds, RemovalInv, FinalizerGuardsWork
  <1>8. CASE Fetch
    <2>1. /\ UNCHANGED <<cr, crCache, crCacheFresh>>
          /\ pa' = crCache /\ paFresh' = crCacheFresh /\ pc' = FirstCall(crCache)
          /\ crCache.exists
      BY <1>8 DEF Fetch, serverVars, cacheVars, Managed
    <2>2. CASE crCache.deleting
      <3>1. pc' = "cleanup"
        BY <2>1, <2>2 DEF FirstCall
      <3> QED BY <1>1, <2>1, <2>2, <3>1
              DEF CacheInv, IncarnationInv, CacheHolds, RemovalInv,
                  FinalizerGuardsWork, Held, Removing, Working, Evaluating
    <2>3. CASE ~crCache.deleting /\ crCache.finalizer
      <3>1. pc' = "discover"
        BY <2>1, <2>3 DEF FirstCall
      <3> QED BY <1>1, <2>1, <2>3, <3>1
              DEF CacheInv, IncarnationInv, CacheHolds, RemovalInv,
                  FinalizerGuardsWork, Held, Managed, Removing, Working, Evaluating
    <2>4. CASE ~crCache.deleting /\ ~crCache.finalizer
      <3>1. pc' = "addFinalizer"
        BY <2>1, <2>4 DEF FirstCall
      <3> QED BY <1>1, <2>1, <2>4, <3>1
              DEF CacheInv, IncarnationInv, CacheHolds, RemovalInv,
                  FinalizerGuardsWork, Removing, Working, Evaluating
    <2>5. crCache.deleting \in BOOLEAN /\ crCache.finalizer \in BOOLEAN
      BY DEF TypeOK, CrType
    <2> QED BY <2>2, <2>3, <2>4, <2>5
  <1>9. CASE AddFinalizer
    <2> DEFINE new == [cr EXCEPT !.finalizer = TRUE]
    <2>1. /\ new.exists = cr.exists /\ new.inc = cr.inc /\ new.deleting = cr.deleting
          /\ new.finalizer
      BY CrFields
    <2> HIDE DEF new
    <2>2. CacheInv' /\ crCache' = crCache
      BY <1>9, <2>1, StoreCacheInv DEF AddFinalizer, new
    <2>3. CASE UpdateSucceeds(new) /\ pc' = "discover" /\ pa' = new /\ paFresh' = paFresh
      <3>1. cr' = new /\ cr.exists
        BY <2>3 DEF UpdateSucceeds, Store, CanWrite
      <3>2. /\ cr'.exists /\ cr'.finalizer /\ cr'.inc = cr.inc
            /\ cr'.deleting = cr.deleting /\ pa' = cr' /\ pc' = "discover"
        BY <2>1, <2>3, <3>1
      <3>3. IncarnationInv'
        BY <2>2, <3>2, IncTypes DEF IncarnationInv
      <3>4. CacheHolds'
        BY <2>2, <3>1, <3>2 DEF CacheHolds, Held, Managed
      <3>5. RemovalInv' /\ FinalizerGuardsWork'
        BY <3>2 DEF RemovalInv, FinalizerGuardsWork, Managed, Removing
      <3> QED BY <1>1, <2>2, <3>3, <3>4, <3>5
    <2>4. CASE UpdateFails(new) /\ ReturnError
      <3>1. pc' = "idle" /\ pa'.inc = 0 /\ ~paFresh'
        BY <1>1, <2>4, FinishFacts DEF ReturnError
      <3>2. cr' = cr \/ cr' = new
        BY <2>4 DEF UpdateFails, Store
      <3> QED BY <1>1, <2>1, <2>2, <3>1, <3>2, IncTypes
              DEF IncarnationInv, CacheHolds, RemovalInv, FinalizerGuardsWork,
                  Held, Managed, Removing, Working, Evaluating
    <2> QED BY <1>9, <2>3, <2>4 DEF AddFinalizer, new
  <1>10. CASE CleanupAction
    BY <1>1, <1>10, CleanupFrame
       DEF CacheInv, IncarnationInv, CacheHolds, RemovalInv, FinalizerGuardsWork,
           crVars, Removing, Working, Evaluating
  <1>11. CASE RemoveFinalizer
    <2>1. CacheInv' /\ crCache' = crCache
      BY <1>11, GoneFacts, StoreCacheInv DEF RemoveFinalizer
    <2>2. pc' = "idle" /\ pa'.inc = 0 /\ ~paFresh'
      BY <1>1, <1>11, FinishFacts DEF RemoveFinalizer, ReturnDone, ReturnError
    <2>3. cr' = cr \/ (cr' = Gone(cr.inc) /\ cr.exists /\ paFresh)
      BY <1>11 DEF RemoveFinalizer, UpdateSucceeds, UpdateFails, Store, CanWrite
    <2>4. CASE cr' = cr
      BY <1>1, <2>1, <2>2, <2>4, LifecycleFrame
    <2>5. CASE cr' = Gone(cr.inc) /\ cr.exists /\ paFresh
      <3>1. ~cr'.exists /\ cr'.inc = cr.inc
        BY <2>5, GoneFacts
      <3>2. pc \in Removing /\ pa.inc = cr.inc
        BY <1>11, <2>5 DEF RemoveFinalizer, Removing, IncarnationInv
      <3>3. ~Held(crCache)
        BY <3>2 DEF RemovalInv, CacheHolds
      <3> QED BY <1>1, <2>1, <2>2, <3>1, <3>3, IncTypes
              DEF IncarnationInv, CacheHolds, RemovalInv, FinalizerGuardsWork,
                  Held, Managed, Removing, Working, Evaluating
    <2> QED BY <2>3, <2>4, <2>5
  <1>12. CASE DiscoverFails
    <2>1. /\ UNCHANGED <<cr, crCache, crCacheFresh>>
          /\ pc' = "idle" /\ pa'.inc = 0 /\ ~paFresh'
      BY <1>1, <1>12, FinishFacts DEF DiscoverFails, ReturnError, serverVars, cacheVars
    <2> QED BY <1>1, <2>1, LifecycleFrame DEF CacheInv
  <1>13. CASE LoopAction
    BY <1>1, <1>13, LoopFrame
       DEF CacheInv, IncarnationInv, CacheHolds, RemovalInv, FinalizerGuardsWork,
           crVars, Removing, Working, Evaluating
  <1>14. CASE WriteStatus
    <2>1. CacheInv' /\ crCache' = crCache
      BY <1>1, <1>14, CrFields, StoreCacheInv DEF WriteStatus, CacheInv
    <2>2. pc' = "idle" /\ pa'.inc = 0 /\ ~paFresh'
      BY <1>1, <1>14, FinishFacts DEF WriteStatus, ReturnInterval, ReturnError
    <2> DEFINE new == [cr EXCEPT !.status = pa.status]
    <2>3. cr' = cr \/ cr' = new
      BY <1>14 DEF WriteStatus, UpdateSucceeds, UpdateFails, Store
    <2>4. /\ new.exists = cr.exists /\ new.inc = cr.inc
          /\ new.deleting = cr.deleting /\ new.finalizer = cr.finalizer
      BY CrFields
    <2> HIDE DEF new
    <2>5. /\ cr'.exists = cr.exists /\ cr'.inc = cr.inc
          /\ cr'.deleting = cr.deleting /\ cr'.finalizer = cr.finalizer
      BY <2>3, <2>4
    <2> QED BY <1>1, <2>1, <2>2, <2>5, LifecycleFrame
  <1> QED
    BY <1>2, <1>3, <1>4, <1>5, <1>6, <1>7, <1>8, <1>9, <1>10, <1>11, <1>12, <1>13,
       <1>14, NextCases

LEMMA InitLifecycleInv == Init => LifecycleInv
  BY InitTypes, GoneFacts
     DEF Init, LifecycleInv, CacheInv, IncarnationInv, CacheHolds, RemovalInv,
         FinalizerGuardsWork, Held, Managed, Removing, Working, Evaluating

\* However old the copy the worker acts on and whatever the user does
\* meanwhile, the incarnation it acts for is held on the server.
THEOREM FinalizerGuardsWorkAlways == Spec => []FinalizerGuardsWork
  BY InitLifecycleInv, NextLifecycleInv, PTL DEF Spec, LifecycleInv

-----------------------------------------------------------------------------
(***************************************************************************)
(* The accounting.  Both results follow the counters through the loop, and *)
(* rest on the resourceVersion check for what is stored and on the         *)
(* lifecycle invariant for whose counters they are.                        *)
(***************************************************************************)

LEMMA EvaluatedFields ==
    ASSUME TypeOK
    PROVE  /\ Evaluated(pa.status).total = pa.status.total + adj
           /\ Evaluated(pa.status).observed = pa.gen
  <1>1. pa.status \in StatusType
    BY DEF TypeOK, CrType
  <1>2. \A n, t : LET c == [pa.status EXCEPT !.observed = n, !.total = t]
                  IN  /\ c.total = t /\ c.observed = n
                      /\ [c EXCEPT !.phase = "Active", !.ready = "True",
                                   !.metrics = "True"].total = t
                      /\ [c EXCEPT !.phase = "Active", !.ready = "True",
                                   !.metrics = "True"].observed = n
                      /\ [c EXCEPT !.phase = "Degraded", !.metrics = "False"].total = t
                      /\ [c EXCEPT !.phase = "Degraded", !.metrics = "False"].observed = n
    BY <1>1 DEF StatusType
  <1> QED BY <1>2 DEF Evaluated

\* What one step of the loop does to the counters.
CountersKept ==
    pa'.status.total = pa.status.total /\ pa'.status.observed = pa.status.observed

LEMMA LoopTotals ==
    ASSUME TypeOK, LoopAction
    PROVE  /\ pc \in Working \ {"writeFinal"}
           /\ \/ /\ pc' \in Working \ {"writeFinal"}
                 /\ CountersKept
                 /\ \/ adj' = adj /\ applied' = applied
                    \/ adj' \in {adj, adj + 1} /\ applied' = applied + 1
                    \/ pa.spec.mode = "Off" /\ adj' = adj + 1 /\ applied' = applied
              \/ /\ pc' = "writeFinal" /\ adj' = adj /\ applied' = applied
                 /\ pa'.status.total = pa.status.total + adj
                 /\ pa'.status.observed = pa.gen
  <1> USE DEF loopVars, history, Working, Evaluating
  <1> DEFINE Kept == /\ pc \in Working \ {"writeFinal"}
                     /\ pc' \in Working \ {"writeFinal"}
                     /\ CountersKept /\ adj' = adj /\ applied' = applied
             Counted == /\ pc \in Working \ {"writeFinal"}
                        /\ pc' \in Working \ {"writeFinal"}
                        /\ CountersKept
                        /\ \/ adj' = adj /\ applied' = applied
                           \/ adj' \in {adj, adj + 1} /\ applied' = applied + 1
                           \/ pa.spec.mode = "Off" /\ adj' = adj + 1 /\ applied' = applied
  <1>0. pa.status \in StatusType
    BY DEF TypeOK, CrType
  <1>1. CASE DiscoverInvalid \/ DiscoverNone
    <2>1. \/ pa'.status = [pa.status EXCEPT !.phase = "Error", !.ready = "False"]
          \/ pa'.status = [pa.status EXCEPT !.phase = "Pending", !.ready = "False"]
      BY <1>1, WithStatusFrame DEF DiscoverInvalid, DiscoverNone
    <2>2. CountersKept
      BY <1>0, <2>1 DEF CountersKept, StatusType
    <2>3. pc' \in {"writeError", "writePending"}
      BY <1>1, WithStatusFrame DEF DiscoverInvalid, DiscoverNone
    <2>4. Kept
      BY <1>1, <2>2, <2>3 DEF DiscoverInvalid, DiscoverNone
    <2> QED BY <2>4
  <1>2. CASE DiscoverPods
    BY <1>2 DEF DiscoverPods, CountersKept
  <1>3. CASE LookUpVPA
    <2>1. PICK found \in VpaKinds : CheckVPA(found)
      BY <1>3, ConstantsAssumption DEF LookUpVPA, TypeOK, VpaKinds
    <2>2. \/ WithStatus([pa.status EXCEPT !.vpa = found, !.phase = "Degraded",
                                          !.conflict = "True"], "writeHalt")
          \/ WithStatus([pa.status EXCEPT !.vpa = found], "evaluate")
          \/ WithStatus([pa.status EXCEPT !.vpa = found, !.conflict = "False"], "evaluate")
      BY <2>1 DEF CheckVPA, VpaKinds
    <2>3. /\ pc' \in {"writeHalt", "evaluate"}
          /\ \/ pa'.status = [pa.status EXCEPT !.vpa = found, !.phase = "Degraded",
                                               !.conflict = "True"]
             \/ pa'.status = [pa.status EXCEPT !.vpa = found]
             \/ pa'.status = [pa.status EXCEPT !.vpa = found, !.conflict = "False"]
      BY <2>2, WithStatusFrame
    <2>4. CountersKept
      BY <1>0, <2>3 DEF CountersKept, StatusType
    <2>5. pc = "vpa" /\ adj' = adj /\ applied' = applied
      BY <2>1 DEF CheckVPA
    <2> QED BY <2>3, <2>4, <2>5
  <1>4. ASSUME NEW p \in Pods, MetricsMissing(p) \/ LeavePod(p) \/ AdjustPod(p)
        PROVE  Counted
    BY <1>4 DEF MetricsMissing, LeavePod, AdjustPod, CountersKept
  <1>5. CASE ResizeInPlace
    <2>1. Counted
      BY <1>5 DEF ResizeInPlace, NextPod, CountersKept
    <2> QED BY <2>1
  <1>6. CASE AnnotatePod \/ EvictPod
    <2>1. Counted
      BY <1>6 DEF AnnotatePod, EvictPod, NextPod, CountersKept
    <2> QED BY <2>1
  <1>7. CASE Summarise
    <2>1. WithStatus(Evaluated(pa.status), "writeFinal") /\ pc = "evaluate"
          /\ adj' = adj /\ applied' = applied
      BY <1>7 DEF Summarise
    <2> QED BY <2>1, WithStatusFrame, EvaluatedFields
  <1> QED BY <1>1, <1>2, <1>3, <1>4, <1>5, <1>6, <1>7 DEF LoopAction

\* TotalNotOvercounted for every copy: each lags behind what was applied.
TotalInv ==
    /\ cr.exists => cr.status.total <= applied
    /\ crCache.exists /\ cr.exists /\ crCache.inc = cr.inc
         => crCache.status.total <= applied
    /\ pc \in Working \ {"writeFinal"} => pa.status.total + adj <= applied
    /\ pc = "writeFinal" => pa.status.total <= applied
    /\ pc \notin Working => adj = 0

\* A copy that may be written back is at least as recent as what it replaces.
RecentInv ==
    /\ cr.status.observed <= cr.gen
    /\ crCache.status.observed <= crCache.gen
    /\ pa.status.observed <= pa.gen
    /\ paFresh => pa.gen = cr.gen
    /\ paFresh /\ pc \in Working
         => pa.status.total >= cr.status.total /\ pa.status.observed >= cr.status.observed

LEMMA CounterTypes ==
    ASSUME TypeOK
    PROVE  /\ adj \in Nat /\ applied \in Nat
           /\ cr.status.total \in Nat /\ crCache.status.total \in Nat
           /\ pa.status.total \in Nat /\ cr.status.observed \in Nat
           /\ pa.status.observed \in Nat /\ cr.gen \in Nat /\ pa.gen \in Nat
  <1>1. adj \in Nat /\ applied \in Nat
    BY DEF TypeOK
  <1>2. cr \in CrType /\ crCache \in CrType /\ pa \in CrType
    BY DEF TypeOK
  <1> QED BY <1>1, <1>2 DEF CrType, StatusType

\* With a spec in mode Off an adjustment is counted that nobody made.
NeverOff == \A s \in Specs : s.mode # "Off"

LEMMA NextTotalInv ==
    NeverOff /\ LifecycleInv /\ TotalInv /\ [Next]_vars => TotalInv'
  <1> SUFFICES ASSUME NeverOff, LifecycleInv, TotalInv, [Next]_vars PROVE TotalInv'
    OBVIOUS
  <1>1. TypeOK
    BY DEF LifecycleInv
  <1>2. ASSUME NEW s \in Specs, Create(s) PROVE TotalInv'
    <2>1. /\ cr'.status.total = 0 /\ cr'.inc = cr.inc + 1 /\ applied' = 0 /\ ~cr.exists
          /\ UNCHANGED <<crCache, pc, pa, adj>>
      BY <1>2 DEF Create, NewCr, NewStatus, loopVars
    <2>2. pc \notin Working
      BY <2>1 DEF LifecycleInv, FinalizerGuardsWork, Managed
    <2>3. crCache.inc # cr.inc + 1
      BY <1>1, IncTypes DEF LifecycleInv, IncarnationInv
    <2> QED BY <2>1, <2>2, <2>3 DEF TotalInv, Working, Evaluating
  <1>3. CASE Delete \/ \E s \in Specs : Edit(s)
    <2>1. /\ cr'.exists => cr.exists /\ cr'.status = cr.status /\ cr'.inc = cr.inc
          /\ UNCHANGED <<crCache, pc, pa, adj, applied>>
      BY <1>1, <1>3, GoneFacts DEF Delete, Edit, loopVars, history, TypeOK, CrType
    <2> QED BY <2>1 DEF TotalInv
  <1>4. CASE Crash
    <2>1. cr' = cr /\ crCache' = cr /\ pc' = "idle" /\ adj' = 0 /\ applied' = applied
      BY <1>4 DEF Crash, serverVars
    <2> QED BY <2>1 DEF TotalInv, Working, Evaluating
  <1>5. CASE SyncCR
    <2>1. cr' = cr /\ crCache' = cr /\ UNCHANGED <<pc, pa, adj, applied>>
      BY <1>5 DEF SyncCR, serverVars, workerVars, loopVars, history
    <2> QED BY <2>1 DEF TotalInv
  <1>6. CASE TimerFires \/ FetchNothing \/ FetchFails \/ QuietAction
    <2>1. UNCHANGED <<cr, crCache, pc, pa, adj, applied>>
      BY <1>6, QuietFrame DEF TimerFires, FetchNothing, FetchFails, serverVars, cacheVars,
                  workerVars, loopVars, history, crVars
    <2> QED BY <2>1 DEF TotalInv
  <1>7. CASE Fetch
    <2>1. /\ UNCHANGED <<cr, crCache, adj, applied>> /\ pc = "idle"
          /\ pa' = crCache /\ pc' = FirstCall(crCache) /\ crCache.exists
      BY <1>7 DEF Fetch, serverVars, cacheVars, loopVars, history, Managed
    <2>2. adj = 0
      BY <2>1 DEF TotalInv, Working, Evaluating
    <2>3. CASE Held(crCache)
      <3>1. crCache.status.total <= applied /\ pc' = "discover"
        BY <2>1, <2>3 DEF LifecycleInv, CacheHolds, TotalInv, Managed, Held, FirstCall
      <3> QED BY <1>1, <2>1, <2>2, <3>1, CounterTypes DEF TotalInv, Working, Evaluating
    <2>4. CASE ~Held(crCache)
      <3>1. pc' \in {"cleanup", "addFinalizer"}
        BY <1>1, <2>1, <2>4 DEF FirstCall, Held, Managed, TypeOK, CrType
      <3> QED BY <2>1, <2>2, <3>1 DEF TotalInv, Working, Evaluating
    <2> QED BY <2>3, <2>4
  <1>8. CASE AddFinalizer
    <2> DEFINE new == [cr EXCEPT !.finalizer = TRUE]
    <2>1. new.exists = cr.exists /\ new.inc = cr.inc /\ new.status = cr.status
      BY <1>1, CrFields
    <2> HIDE DEF new
    <2>2. adj = 0 /\ UNCHANGED <<crCache, applied>>
      BY <1>8 DEF AddFinalizer, TotalInv, Working, Evaluating
    <2>3. CASE UpdateSucceeds(new) /\ pc' = "discover" /\ pa' = new /\ UNCHANGED adj
      <3>1. cr' = new /\ cr.exists
        BY <2>3 DEF UpdateSucceeds, Store, CanWrite
      <3> QED BY <1>1, <2>1, <2>2, <2>3, <3>1, CounterTypes DEF TotalInv, Working, Evaluating
    <2>4. CASE UpdateFails(new) /\ ReturnError
      <3>1. pc' = "idle" /\ adj' = 0
        BY <1>1, <2>4, FinishFacts DEF ReturnError
      <3>2. cr' = cr \/ cr' = new
        BY <2>4 DEF UpdateFails, Store
      <3> QED BY <2>1, <2>2, <3>1, <3>2 DEF TotalInv, Working, Evaluating
    <2> QED BY <1>8, <2>3, <2>4 DEF AddFinalizer, new, loopVars
  <1>9. CASE CleanupAction
    BY <1>9, CleanupFrame DEF TotalInv, crVars, Removing, Working, Evaluating
  <1>10. CASE RemoveFinalizer
    <2>1. pc' = "idle" /\ adj' = 0 /\ UNCHANGED <<crCache, applied>>
      BY <1>1, <1>10, FinishFacts DEF RemoveFinalizer, ReturnDone, ReturnError
    <2>2. cr' = cr \/ ~cr'.exists
      BY <1>10, GoneFacts DEF RemoveFinalizer, UpdateSucceeds, UpdateFails, Store
    <2> QED BY <2>1, <2>2 DEF TotalInv, Working, Evaluating
  <1>11. CASE DiscoverFails
    <2>1. pc' = "idle" /\ adj' = 0 /\ UNCHANGED <<cr, crCache, applied>>
      BY <1>1, <1>11, FinishFacts DEF DiscoverFails, ReturnError, serverVars, cacheVars
    <2> QED BY <2>1 DEF TotalInv, Working, Evaluating
  <1>12. CASE LoopAction
    <2>1. pa.spec.mode # "Off"
      BY <1>1 DEF NeverOff, TypeOK, CrType
    <2>2. UNCHANGED <<cr, crCache>> /\ pc \in Working /\ pc' \in Working
      BY <1>1, <1>12, LoopFrame DEF crVars
    <2>3. applied' >= applied /\ applied' \in Nat
      BY <1>1, <1>12, LoopTotals, CounterTypes, <2>1
    <2>4. pc # "writeFinal" /\ pa.status.total + adj <= applied
      BY <1>1, <1>12, LoopTotals DEF TotalInv
    <2>5. /\ pc' # "writeFinal" => pa'.status.total + adj' <= applied'
          /\ pc' = "writeFinal" => pa'.status.total <= applied'
      BY <1>1, <1>12, <2>1, <2>4, LoopTotals, CounterTypes DEF CountersKept
    <2> QED BY <1>1, <2>2, <2>3, <2>5, CounterTypes DEF TotalInv
  <1>13. CASE WriteStatus
    <2> DEFINE new == [cr EXCEPT !.status = pa.status]
    <2>1. new.exists = cr.exists /\ new.inc = cr.inc /\ new.status = pa.status
      BY <1>1, CrFields
    <2> HIDE DEF new
    <2>2. cr' = cr \/ cr' = new
      BY <1>13 DEF WriteStatus, UpdateSucceeds, UpdateFails, Store, new
    <2>3. pc' = "idle" /\ adj' = 0 /\ UNCHANGED <<crCache, applied>>
      BY <1>1, <1>13, FinishFacts DEF WriteStatus, ReturnInterval, ReturnError
    <2>4. pa.status.total <= applied
      BY <1>1, <1>13, CounterTypes DEF WriteStatus, Writing, TotalInv, Working, Evaluating
    <2> QED BY <2>1, <2>2, <2>3, <2>4 DEF TotalInv, Working, Evaluating
  <1> QED
    BY <1>2, <1>3, <1>4, <1>5, <1>6, <1>7, <1>8, <1>9, <1>10, <1>11, <1>12, <1>13,
       NextCases

\* TotalAdjustments counts no update twice and none that was not made, as long
\* as no spec is in mode Off.
THEOREM TotalNotOvercountedAlways == NeverOff => (Spec => []TotalNotOvercounted)
  <1> SUFFICES ASSUME NeverOff PROVE Spec => []TotalNotOvercounted
    OBVIOUS
  <1>1. Init => TotalInv
    BY GoneFacts DEF Init, TotalInv, Working, Evaluating
  <1>2. LifecycleInv /\ TotalInv /\ [Next]_vars => TotalInv'
    BY NextTotalInv
  <1>3. TotalInv => TotalNotOvercounted
    BY DEF TotalInv, TotalNotOvercounted
  <1> QED BY <1>1, <1>2, <1>3, InitLifecycleInv, NextLifecycleInv, PTL DEF Spec

-----------------------------------------------------------------------------
(***************************************************************************)
(* The status never regresses.  RecentInv is LifecycleInv's companion for  *)
(* the fields of the status.                                               *)
(***************************************************************************)

LEMMA GoneStatus ==
    \A i : Gone(i).gen = 0 /\ Gone(i).status.observed = 0 /\ Gone(i).status.total = 0
  <1> SUFFICES ASSUME NEW i
               PROVE  /\ Gone(i).gen = 0 /\ Gone(i).status.observed = 0
                      /\ Gone(i).status.total = 0
    OBVIOUS
  <1>1. Gone(i).gen = 0 /\ Gone(i).status = NewStatus
    BY DEF Gone, NewCr
  <1>2. NewStatus.observed = 0 /\ NewStatus.total = 0
    BY DEF NewStatus
  <1> QED BY <1>1, <1>2

LEMMA FinishStatus ==
    ASSUME Finish
    PROVE  pa'.status.observed = 0 /\ pa'.gen = 0 /\ ~paFresh'
  BY GoneStatus DEF Finish

LEMMA NextRecentInv ==
    LifecycleInv /\ RecentInv /\ [Next]_vars => RecentInv'
  <1> SUFFICES ASSUME LifecycleInv, RecentInv, [Next]_vars PROVE RecentInv'
    OBVIOUS
  <1>1. TypeOK
    BY DEF LifecycleInv
  <1>2. ASSUME NEW s \in Specs, Create(s) PROVE RecentInv'
    <2>1. cr' = NewCr(cr.inc + 1, s) /\ ~paFresh' /\ UNCHANGED <<crCache, pa>>
      BY <1>2 DEF Create, OutdatesCopies
    <2>2. cr'.gen = 1 /\ cr'.status = NewStatus
      BY <2>1 DEF NewCr
    <2>3. NewStatus.observed = 0
      BY DEF NewStatus
    <2> QED BY <2>1, <2>2, <2>3 DEF RecentInv
  <1>3. CASE Delete \/ \E s \in Specs : Edit(s)
    <2>1. ~paFresh' /\ UNCHANGED <<crCache, pa>>
      BY <1>3 DEF Delete, Edit, OutdatesCopies
    <2>2. \/ cr'.status = cr.status /\ cr'.gen \in {cr.gen, cr.gen + 1}
          \/ cr' = Gone(cr.inc)
      BY <1>1, <1>3 DEF Delete, Edit, TypeOK, CrType
    <2>3. Gone(cr.inc).status.observed = 0 /\ Gone(cr.inc).gen = 0
      BY GoneStatus
    <2> QED BY <1>1, <2>1, <2>2, <2>3, CounterTypes DEF RecentInv
  <1>4. CASE Crash
    <2>1. cr' = cr /\ crCache' = cr /\ pa' = Gone(0) /\ ~paFresh'
      BY <1>4 DEF Crash, serverVars
    <2>2. pa'.gen = 0 /\ pa'.status.observed = 0
      BY <2>1, GoneStatus
    <2> QED BY <2>1, <2>2 DEF RecentInv
  <1>5. CASE SyncCR
    <2>1. crCache' = cr /\ UNCHANGED <<cr, pc, pa, paFresh>>
      BY <1>5 DEF SyncCR, serverVars, workerVars
    <2> QED BY <2>1 DEF RecentInv
  <1>6. CASE TimerFires \/ FetchNothing \/ FetchFails \/ QuietAction
    <2>1. UNCHANGED <<cr, crCache, pc, pa, paFresh>>
      BY <1>6, QuietFrame DEF TimerFires, FetchNothing, FetchFails, serverVars,
                  cacheVars, workerVars, crVars
    <2> QED BY <2>1 DEF RecentInv
  <1>7. CASE Fetch
    <2>1. cr' = cr /\ crCache' = crCache /\ pa' = crCache /\ paFresh' = crCacheFresh
      BY <1>7 DEF Fetch, serverVars, cacheVars
    <2>2. crCacheFresh => pa' = cr
      BY <2>1 DEF LifecycleInv, CacheInv
    <2> QED BY <1>1, <2>1, <2>2, CounterTypes DEF RecentInv
  <1>8. CASE AddFinalizer
    <2> DEFINE new == [cr EXCEPT !.finalizer = TRUE]
    <2>1. new.gen = cr.gen /\ new.status = cr.status
      BY <1>1, CrFields
    <2> HIDE DEF new
    <2>2. crCache' = crCache
      BY <1>8 DEF AddFinalizer
    <2>3. CASE UpdateSucceeds(new) /\ pa' = new
      <3>1. cr' = new
        BY <2>3 DEF UpdateSucceeds, Store
      <3> QED BY <1>1, <2>1, <2>2, <2>3, <3>1, CounterTypes DEF RecentInv
    <2>4. CASE UpdateFails(new) /\ ReturnError
      <3>1. pa'.status.observed = 0 /\ pa'.gen = 0 /\ ~paFresh'
        BY <2>4, FinishStatus DEF ReturnError
      <3>2. cr' = cr \/ cr' = new
        BY <2>4 DEF UpdateFails, Store
      <3> QED BY <2>1, <2>2, <3>1, <3>2 DEF RecentInv
    <2> QED BY <1>8, <2>3, <2>4 DEF AddFinalizer, new
  <1>9. CASE CleanupAction
    BY <1>9, CleanupFrame DEF RecentInv, crVars, Removing, Working, Evaluating
  <1>10. CASE RemoveFinalizer
    <2>1. pa'.status.observed = 0 /\ pa'.gen = 0 /\ ~paFresh' /\ crCache' = crCache
      BY <1>10, FinishStatus DEF RemoveFinalizer, ReturnDone, ReturnError
    <2>2. cr' = cr \/ cr' = Gone(cr.inc)
      BY <1>10 DEF RemoveFinalizer, UpdateSucceeds, UpdateFails, Store
    <2>3. Gone(cr.inc).status.observed = 0 /\ Gone(cr.inc).gen = 0
      BY GoneStatus
    <2> QED BY <2>1, <2>2, <2>3 DEF RecentInv
  <1>11. CASE DiscoverFails
    <2>1. /\ UNCHANGED <<cr, crCache>>
          /\ pa'.status.observed = 0 /\ pa'.gen = 0 /\ ~paFresh'
      BY <1>11, FinishStatus DEF DiscoverFails, ReturnError, serverVars, cacheVars
    <2> QED BY <2>1 DEF RecentInv
  <1>12. CASE LoopAction
    <2>1. UNCHANGED <<cr, crCache, paFresh>> /\ pc \in Working /\ pa'.gen = pa.gen
      BY <1>1, <1>12, LoopFrame DEF crVars
    <2>2. \/ CountersKept
          \/ pa'.status.total = pa.status.total + adj /\ pa'.status.observed = pa.gen
      BY <1>1, <1>12, LoopTotals
    <2> QED BY <1>1, <2>1, <2>2, CounterTypes DEF RecentInv, CountersKept
  <1>13. CASE WriteStatus
    <2> DEFINE new == [cr EXCEPT !.status = pa.status]
    <2>1. new.gen = cr.gen /\ new.status = pa.status
      BY <1>1, CrFields
    <2> HIDE DEF new
    <2>2. /\ pa'.status.observed = 0 /\ pa'.gen = 0 /\ ~paFresh'
          /\ crCache' = crCache
      BY <1>13, FinishStatus DEF WriteStatus, ReturnInterval, ReturnError
    <2>3. cr' = cr \/ (cr' = new /\ paFresh)
      BY <1>13 DEF WriteStatus, UpdateSucceeds, UpdateFails, Store, CanWrite, new
    <2> QED BY <2>1, <2>2, <2>3 DEF RecentInv
  <1> QED
    BY <1>2, <1>3, <1>4, <1>5, <1>6, <1>7, <1>8, <1>9, <1>10, <1>11, <1>12, <1>13,
       NextCases

\* Only WriteStatus stores a status over another one of the same incarnation,
\* and only from a copy that is at least as recent.
LEMMA StatusStep ==
    ASSUME LifecycleInv, RecentInv, [Next]_vars,
           cr.exists, cr'.exists, cr'.inc = cr.inc
    PROVE  /\ cr'.status.total >= cr.status.total
           /\ cr'.status.observed >= cr.status.observed
  <1>1. TypeOK
    BY DEF LifecycleInv
  <1>2. CASE cr'.status = cr.status
    BY <1>1, <1>2, CounterTypes
  <1>3. CASE WriteStatus
    <2>1. cr' = cr \/ (cr' = [cr EXCEPT !.status = pa.status] /\ paFresh /\ pc \in Working)
      BY <1>3 DEF WriteStatus, UpdateSucceeds, UpdateFails, Store, CanWrite, Writing,
                  Working, Evaluating
    <2>2. cr'.status = cr.status \/ (cr'.status = pa.status /\ paFresh /\ pc \in Working)
      BY <1>1, <2>1, CrFields
    <2> QED BY <1>1, <2>2, CounterTypes DEF RecentInv
  <1>4. CASE \E s \in Specs : Create(s)
    BY <1>4 DEF Create
  <1>5. CASE Delete \/ \E s \in Specs : Edit(s)
    BY <1>1, <1>2, <1>5, GoneFacts DEF Delete, Edit, TypeOK, CrType
  <1>6. CASE AddFinalizer
    <2>1. cr' = cr \/ cr' = [cr EXCEPT !.finalizer = TRUE]
      BY <1>6 DEF AddFinalizer, UpdateSucceeds, UpdateFails, Store
    <2> QED BY <1>1, <1>2, <2>1, CrFields
  <1>7. CASE RemoveFinalizer
    <2>1. cr' = cr \/ ~cr'.exists
      BY <1>7, GoneFacts DEF RemoveFinalizer, UpdateSucceeds, UpdateFails, Store
    <2> QED BY <1>2, <2>1
  <1>8. CASE \/ Crash \/ SyncCR \/ TimerFires \/ Fetch \/ FetchNothing \/ FetchFails
             \/ DiscoverFails \/ CleanupAction \/ LoopAction \/ QuietAction
    <2>1. cr' = cr
      BY <1>1, <1>8, QuietFrame, CleanupFrame, LoopFrame
         DEF Crash, SyncCR, TimerFires, Fetch, FetchNothing, FetchFails, DiscoverFails,
             serverVars, crVars
    <2> QED BY <1>2, <2>1
  <1> QED BY <1>3, <1>4, <1>5, <1>6, <1>7, <1>8, NextCases

\* Within an incarnation TotalAdjustments and ObservedGeneration never go back.
THEOREM StatusNeverRegressesAlways == Spec => StatusNeverRegresses
  <1>1. Init => RecentInv
    <2>1. Gone(0).gen = 0 /\ Gone(0).status.observed = 0
      BY GoneStatus
    <2> QED BY <2>1 DEF Init, RecentInv
  <1>2. LifecycleInv /\ RecentInv /\ [Next]_vars
          => [cr.exists /\ cr'.exists /\ cr'.inc = cr.inc
                => /\ cr'.status.total >= cr.status.total
                   /\ cr'.status.observed >= cr.status.observed]_vars
    BY StatusStep
  <1> QED
    BY <1>1, <1>2, InitLifecycleInv, NextLifecycleInv, NextRecentInv, PTL
       DEF Spec, StatusNeverRegresses
=============================================================================
