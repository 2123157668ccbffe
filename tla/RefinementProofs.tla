--------------------------- MODULE RefinementProofs ---------------------------
(***************************************************************************)
(* Reconciler implements ManagedLifecycle, for every value of its          *)
(* constants: the initial states map to initial states, and every step to  *)
(* a step or a stutter.                                                    *)
(***************************************************************************)
EXTENDS ReconcilerProofs, ReconcilerRefinement

RefinementInv == LifecycleInv /\ RecentInv

\* What a step leaves alone of what the contract speaks of.
Mapped == <<cr, annotated, applied>>

\* A step within Reconcile touches one pod at a time, or none.
LEMMA LoopPods ==
    ASSUME TypeOK, LoopAction
    PROVE  \/ UNCHANGED <<annotated, applied>>
           \/ /\ cur \in Pods
              /\ annotated' \subseteq annotated \cup {cur}
              /\ applied' \in {applied, applied + 1}
  <1> USE DEF serverVars, podVars, history
  <1>1. CASE DiscoverInvalid \/ DiscoverNone \/ DiscoverPods \/ Summarise
    BY <1>1 DEF DiscoverInvalid, DiscoverNone, DiscoverPods, Summarise
  <1>2. CASE LookUpVPA
    BY <1>2 DEF LookUpVPA, CheckVPA
  <1>3. CASE \E p \in Pods : MetricsMissing(p) \/ LeavePod(p) \/ AdjustPod(p)
    BY <1>3 DEF MetricsMissing, LeavePod, AdjustPod
  <1>4. CASE ResizeInPlace
    BY <1>4 DEF ResizeInPlace, TypeOK
  <1>5. CASE AnnotatePod
    BY <1>5 DEF AnnotatePod, TypeOK
  <1>6. CASE EvictPod
    BY <1>6 DEF EvictPod, TypeOK
  <1> QED BY <1>1, <1>2, <1>3, <1>4, <1>5, <1>6 DEF LoopAction

\* Annotations go with the cleanup and with the pod.
LEMMA AnnotationsGo ==
    ASSUME TypeOK, CleanupAction \/ QuietAction
    PROVE  annotated' \subseteq annotated
  <1> USE DEF serverVars
  <1>1. CASE \/ VpaChanges \/ CleanupList \/ UNCHANGED vars
            \/ \E p \in Pods : PodStops(p) \/ PodStarts(p) \/ SyncPod(p)
    <2>1. annotated' = annotated
      BY <1>1 DEF VpaChanges, CleanupList, PodStops, PodStarts, SyncPod, vars, podVars
    <2> QED BY <2>1
  <1>2. CASE \E p \in Pods : PodEnds(p) \/ CleanupPod(p)
    <2>1. PICK p \in Pods : annotated' = annotated \/ annotated' = annotated \ {p}
      BY <1>2 DEF PodEnds, CleanupPod
    <2> QED BY <2>1
  <1> QED BY <1>1, <1>2 DEF CleanupAction, QuietAction

LEMMA InitContract == Init => Contract!Init
  <1> SUFFICES ASSUME Init PROVE Contract!Init
    OBVIOUS
  <1>1. ~cr.exists /\ cr.inc = 0
    BY GoneFacts DEF Init
  <1>2. cr.gen = 0 /\ cr.status.observed = 0 /\ cr.status.total = 0
    BY GoneStatus DEF Init
  <1>3. pc \notin Working /\ annotated = {} /\ applied = 0
    BY DEF Init, Working, Evaluating
  <1> QED BY <1>1, <1>2, <1>3 DEF Contract!Init, Contract!Blank, Phase

\* The phase and the numbers of the contract depend on these fields only.
LEMMA SameContract ==
    ASSUME cr'.exists = cr.exists, cr'.inc = cr.inc, cr'.gen = cr.gen,
           cr'.deleting = cr.deleting, cr'.finalizer = cr.finalizer,
           cr'.status = cr.status
    PROVE  /\ Phase' = Phase
           /\ [total |-> cr.status.total, observed |-> cr.status.observed]'
                = [total |-> cr.status.total, observed |-> cr.status.observed]
  BY DEF Phase

LEMMA StepContract ==
    ASSUME RefinementInv, RefinementInv', [Next]_vars
    PROVE  [Contract!Next]_(Contract!vars)
  <1> DEFINE Reported == [total |-> cr.status.total, observed |-> cr.status.observed]
             Busy == pc \in Working
  <1>1. TypeOK /\ TypeOK' /\ LifecycleInv /\ RecentInv /\ FinalizerGuardsWork
        /\ FinalizerGuardsWork' /\ CacheInv /\ CacheInv'
    BY DEF RefinementInv, LifecycleInv
  <1>2. ASSUME NEW s \in Specs, Create(s) PROVE Contract!Create
    <2>1. /\ ~cr.exists /\ cr' = NewCr(cr.inc + 1, s) /\ applied' = 0
          /\ UNCHANGED <<annotated, pc>>
      BY <1>2 DEF Create, podVars
    <2>2. /\ cr'.exists /\ ~cr'.finalizer /\ cr'.inc = cr.inc + 1 /\ cr'.gen = 1
          /\ cr'.status = NewStatus
      BY <2>1 DEF NewCr
    <2>3. NewStatus.total = 0 /\ NewStatus.observed = 0
      BY DEF NewStatus
    <2> QED BY <2>1, <2>2, <2>3 DEF Contract!Create, Contract!Blank, Phase
  <1>3. ASSUME NEW s \in Specs, Edit(s) PROVE Contract!Edit
    <2>1. /\ cr.exists /\ cr'.exists /\ cr'.inc = cr.inc /\ cr'.gen = cr.gen + 1
          /\ cr'.deleting = cr.deleting /\ cr'.finalizer = cr.finalizer
          /\ cr'.status = cr.status
          /\ UNCHANGED <<annotated, applied, pc>>
      BY <1>1, <1>3 DEF Edit, podVars, history, TypeOK, CrType
    <2> QED BY <1>1, <2>1 DEF Contract!Edit, Phase, TypeOK, CrType
  <1>4. CASE Delete
    <2>1. cr.exists /\ ~cr.deleting /\ UNCHANGED <<annotated, applied, pc>>
      BY <1>4 DEF Delete, podVars, history
    <2>2. CASE cr.finalizer
      <3>1. /\ cr'.exists /\ cr'.deleting /\ cr'.finalizer /\ cr'.inc = cr.inc
            /\ cr'.gen = cr.gen + 1 /\ cr'.status = cr.status
        BY <1>1, <1>4, <2>2 DEF Delete, TypeOK, CrType
      <3> QED BY <2>1, <2>2, <3>1 DEF Contract!Next, Contract!Delete, Phase
    <2>3. CASE ~cr.finalizer
      <3>1. cr' = Gone(cr.inc)
        BY <1>4, <2>3 DEF Delete
      <3>2. /\ ~cr'.exists /\ cr'.inc = cr.inc /\ cr'.gen = 0
            /\ cr'.status.total = 0 /\ cr'.status.observed = 0
        BY <3>1, GoneFacts, GoneStatus
      <3> QED BY <2>1, <2>3, <3>2
              DEF Contract!Next, Contract!Delete, Contract!Blank, Phase
    <2> QED BY <2>2, <2>3
  <1>5. CASE Crash \/ DiscoverFails
    <2>1. UNCHANGED Mapped /\ pc' = "idle"
      BY <1>1, <1>5, FinishFacts
         DEF Crash, DiscoverFails, ReturnError, serverVars, history, Mapped
    <2>2. ~Busy'
      BY <2>1 DEF Working, Evaluating
    <2>3. CASE Busy
      BY <2>1, <2>2, <2>3, SameContract DEF Contract!Next, Contract!End, Mapped
    <2>4. CASE ~Busy
      BY <2>1, <2>2, <2>4, SameContract DEF Contract!vars, Mapped
    <2> QED BY <2>3, <2>4
  <1>6. CASE SyncCR \/ TimerFires \/ FetchNothing \/ FetchFails
    <2>1. UNCHANGED Mapped /\ UNCHANGED pc
      BY <1>6 DEF SyncCR, TimerFires, FetchNothing, FetchFails, serverVars, workerVars,
                  history, Mapped
    <2> QED BY <2>1, SameContract DEF Contract!vars, Mapped
  <1>7. CASE Fetch
    <2>1. UNCHANGED Mapped /\ pc = "idle"
      BY <1>7 DEF Fetch, serverVars, history, Mapped
    <2>2. ~Busy
      BY <2>1 DEF Working, Evaluating
    <2>3. CASE Busy'
      <3>1. Managed(cr)
        BY <1>1, <2>1, <2>3 DEF FinalizerGuardsWork, Mapped, Managed
      <3>2. Contract!Held
        BY <1>1, <3>1 DEF Contract!Held, Phase, Managed, TypeOK, CrType
      <3> QED BY <2>1, <2>3, <3>2, SameContract DEF Contract!Next, Contract!Begin, Mapped
    <2>4. CASE ~Busy'
      BY <2>1, <2>2, <2>4, SameContract DEF Contract!vars, Mapped
    <2> QED BY <2>3, <2>4
  <1>8. CASE AddFinalizer
    <2> DEFINE new == [cr EXCEPT !.finalizer = TRUE]
    <2>1. /\ new.exists = cr.exists /\ new.inc = cr.inc /\ new.gen = cr.gen
          /\ new.deleting = cr.deleting /\ new.finalizer = TRUE /\ new.status = cr.status
      BY <1>1, CrFields
    <2>2. cr' = cr \/ (cr' = new /\ cr.exists)
      BY <1>8 DEF AddFinalizer, UpdateSucceeds, UpdateFails, Store, CanWrite
    <2> HIDE DEF new
    <2>3. UNCHANGED <<annotated, applied>>
      BY <1>8 DEF AddFinalizer, podVars
    <2>4. ~Busy
      BY <1>8 DEF AddFinalizer, Working, Evaluating
    <2>5. cr.finalizer \in BOOLEAN /\ cr.deleting \in BOOLEAN
      BY <1>1 DEF TypeOK, CrType
    <2>6. CASE cr' = new /\ cr.exists /\ ~cr.finalizer
      <3>1. Phase = "unheld" /\ Phase' = "held"
        BY <1>1, <2>1, <2>5, <2>6 DEF Phase, CacheInv
      <3>2. Reported' = Reported /\ cr'.inc = cr.inc /\ cr'.gen = cr.gen
        BY <2>1, <2>6
      <3> QED BY <2>3, <3>1, <3>2 DEF Contract!Next, Contract!Hold
    <2>7. CASE cr' = cr \/ (cr' = new /\ cr.exists /\ cr.finalizer)
      <3>1. /\ cr'.exists = cr.exists /\ cr'.inc = cr.inc /\ cr'.gen = cr.gen
            /\ cr'.deleting = cr.deleting /\ cr'.finalizer = cr.finalizer
            /\ cr'.status = cr.status
        BY <2>1, <2>5, <2>7
      <3>2. CASE Busy'
        <4>1. Managed(cr)
          BY <1>1, <3>1, <3>2 DEF FinalizerGuardsWork, Managed
        <4>2. Contract!Held
          BY <1>1, <4>1 DEF Contract!Held, Phase, Managed, TypeOK, CrType
        <4> QED BY <2>3, <3>1, <3>2, <4>2, SameContract DEF Contract!Next, Contract!Begin
      <3>3. CASE ~Busy'
        BY <2>3, <2>4, <3>1, <3>3, SameContract DEF Contract!vars
      <3> QED BY <3>2, <3>3
    <2> QED BY <2>2, <2>5, <2>6, <2>7
  <1>9. CASE CleanupAction \/ QuietAction
    <2>1. /\ UNCHANGED <<cr, applied>> /\ Busy' = Busy
          /\ annotated' \subseteq annotated
      BY <1>1, <1>9, CleanupFrame, QuietFrame, AnnotationsGo
         DEF crVars, Removing, Working, Evaluating
    <2> QED BY <2>1, SameContract DEF Contract!Next, Contract!Forget, Contract!Forgets
  <1>10. CASE RemoveFinalizer
    <2>1. UNCHANGED <<annotated, applied>> /\ pc = "cleanupPods" /\ pc' = "idle"
      BY <1>1, <1>10, FinishFacts DEF RemoveFinalizer, ReturnDone, ReturnError, podVars
    <2>2. ~Busy /\ ~Busy'
      BY <2>1 DEF Working, Evaluating
    <2>3. cr' = cr \/ (cr' = Gone(cr.inc) /\ cr.exists /\ paFresh)
      BY <1>10 DEF RemoveFinalizer, UpdateSucceeds, UpdateFails, Store, CanWrite
    <2>4. CASE cr' = cr
      BY <2>1, <2>2, <2>4, SameContract DEF Contract!vars
    <2>5. CASE cr' = Gone(cr.inc) /\ cr.exists /\ paFresh
      <3>1. cr.deleting /\ cr.finalizer
        BY <1>1, <2>1, <2>5
           DEF LifecycleInv, IncarnationInv, RemovalInv, CacheInv, Removing
      <3>2. /\ ~cr'.exists /\ cr'.inc = cr.inc /\ cr'.gen = 0
            /\ cr'.status.total = 0 /\ cr'.status.observed = 0
        BY <2>5, GoneFacts, GoneStatus
      <3> QED BY <2>1, <2>2, <2>5, <3>1, <3>2
              DEF Contract!Next, Contract!Release, Contract!Blank, Phase
    <2> QED BY <2>3, <2>4, <2>5
  <1>11. CASE LoopAction
    <2>1. cr' = cr /\ Busy /\ Busy'
      BY <1>1, <1>11, LoopFrame DEF crVars
    <2>2. CASE UNCHANGED <<annotated, applied>>
      BY <2>1, <2>2, SameContract DEF Contract!vars
    <2>3. CASE /\ cur \in Pods
               /\ annotated' \subseteq annotated \cup {cur}
               /\ applied' \in {applied, applied + 1}
      BY <2>1, <2>3, SameContract DEF Contract!Next, Contract!Work
    <2> QED BY <1>1, <1>11, <2>2, <2>3, LoopPods
  <1>12. CASE WriteStatus
    <2> DEFINE new == [cr EXCEPT !.status = pa.status]
    <2>1. /\ new.exists = cr.exists /\ new.inc = cr.inc /\ new.gen = cr.gen
          /\ new.deleting = cr.deleting /\ new.finalizer = cr.finalizer
      BY <1>1, CrFields
    <2>2. cr' = cr \/ (cr' = new /\ cr.exists)
      BY <1>12 DEF WriteStatus, UpdateSucceeds, UpdateFails, Store, CanWrite
    <2> HIDE DEF new
    <2>3. UNCHANGED <<annotated, applied>> /\ Busy /\ pc' = "idle"
      BY <1>1, <1>12, FinishFacts
         DEF WriteStatus, ReturnInterval, ReturnError, podVars, Writing, Working, Evaluating
    <2>4. ~Busy'
      BY <2>3 DEF Working, Evaluating
    <2>5. CASE cr' = cr
      BY <2>3, <2>4, <2>5, SameContract DEF Contract!Next, Contract!End
    <2>6. CASE cr' = new /\ cr.exists
      <3>1. Phase' = Phase /\ cr'.inc = cr.inc /\ cr'.gen = cr.gen /\ cr'.exists
        BY <2>1, <2>6 DEF Phase
      <3>2. /\ cr'.status.total >= cr.status.total
            /\ cr'.status.observed >= cr.status.observed
        BY <1>1, <2>6, <3>1, StatusStep
      <3>3. /\ cr'.status.total \in Nat /\ cr'.status.observed \in Nat
            /\ cr'.status.observed <= cr.gen /\ cr.gen \in Nat
        <4>1. cr' \in CrType /\ cr \in CrType
          BY <1>1 DEF TypeOK
        <4> QED BY <3>1, <4>1 DEF RefinementInv, RecentInv, CrType, StatusType
      <3>4. Reported' \in [total : Nat, observed : 0 .. cr.gen]
        BY <3>3
      <3> QED BY <2>3, <3>1, <3>2, <3>4 DEF Contract!Next, Contract!Report
    <2> QED BY <2>2, <2>5, <2>6
  <1>13. CASE \E s \in Specs : Create(s) \/ Edit(s)
    BY <1>2, <1>3, <1>13 DEF Contract!Next
  <1> QED
    BY <1>4, <1>5, <1>6, <1>7, <1>8, <1>9, <1>10, <1>11, <1>12, <1>13, NextCases

\* The reconciler, with its caches, its queue, its faults and its crashes,
\* keeps the contract the user has with it.
THEOREM KeepsContractAlways == Spec => KeepsContract
  <1>1. Init => RefinementInv
    <2>1. Gone(0).gen = 0 /\ Gone(0).status.observed = 0
      BY GoneStatus
    <2> QED BY <2>1, InitLifecycleInv DEF Init, RecentInv, RefinementInv
  <1>2. RefinementInv /\ [Next]_vars => RefinementInv'
    BY NextLifecycleInv, NextRecentInv DEF RefinementInv
  <1>3. RefinementInv /\ RefinementInv' /\ [Next]_vars => [Contract!Next]_(Contract!vars)
    BY StepContract
  <1> QED
    BY <1>1, <1>2, <1>3, InitContract, PTL DEF Spec, KeepsContract, Contract!Spec
=============================================================================
