----------------------------- MODULE WorkerProofs -----------------------------
(***************************************************************************)
(* What a reconcile may do to pods and to the status, for every value of   *)
(* Reconciler's constants.  The proofs follow the worker's copy through    *)
(* one reconcile, on top of the lifecycle invariant of ReconcilerProofs.   *)
(***************************************************************************)
EXTENDS ReconcilerProofs

\* The calls that change a pod for a recommendation.
Touching == {"resize", "annotate", "evict"}

LEMMA CopyTypes ==
    ASSUME TypeOK
    PROVE  /\ cr \in CrType /\ crCache \in CrType /\ pa \in CrType
           /\ cr.status \in StatusType /\ crCache.status \in StatusType
           /\ pa.status \in StatusType
           /\ cr.spec \in Specs /\ crCache.spec \in Specs /\ pa.spec \in Specs
  BY DEF TypeOK, CrType

\* What the steps that end a reconcile, or belong to no reconcile, leave the
\* worker with.
LEMMA FinishCopy ==
    ASSUME Finish
    PROVE  pc' = "idle" /\ pa' = Gone(0) /\ ~paFresh' /\ todo' = {}
  BY DEF Finish

-----------------------------------------------------------------------------
(***************************************************************************)
(* The status is coherent.  Between LookUpVPA and Summarise the worker's   *)
(* copy may be incoherent: LookUpVPA clears the VPAConflict condition that *)
(* a Degraded status may rest on.  Nothing in between writes it.           *)
(***************************************************************************)

Coherent(s) ==
    /\ s.phase = "Active" => s.ready = "True" /\ s.metrics = "True"
    /\ s.phase \in {"Pending", "Error"} => s.ready = "False"
    /\ s.phase = "Degraded" => s.metrics = "False" \/ s.conflict = "True"

CoherenceInv ==
    /\ Coherent(cr.status) /\ Coherent(crCache.status)
    /\ pc \notin {"evaluate"} \cup Touching => Coherent(pa.status)

LEMMA BlankCoherent == Coherent(NewStatus) /\ \A i : Gone(i).status = NewStatus
  BY DEF Coherent, NewStatus, Gone, NewCr

\* Whatever the status was before, each of the four paths makes it coherent.
LEMMA PathsCoherent ==
    ASSUME NEW s \in StatusType, NEW v \in VpaKinds, TypeOK
    PROVE  /\ Coherent([s EXCEPT !.phase = "Error", !.ready = "False"])
           /\ Coherent([s EXCEPT !.phase = "Pending", !.ready = "False"])
           /\ Coherent([s EXCEPT !.vpa = v, !.phase = "Degraded", !.conflict = "True"])
           /\ Coherent(Evaluated(s))
  <1>1. /\ Coherent([s EXCEPT !.phase = "Error", !.ready = "False"])
        /\ Coherent([s EXCEPT !.phase = "Pending", !.ready = "False"])
        /\ Coherent([s EXCEPT !.vpa = v, !.phase = "Degraded", !.conflict = "True"])
    BY DEF Coherent, StatusType
  <1>2. \A n, t : LET c == [s EXCEPT !.observed = n, !.total = t]
                  IN  /\ Coherent([c EXCEPT !.phase = "Active", !.ready = "True",
                                            !.metrics = "True"])
                      /\ Coherent([c EXCEPT !.phase = "Degraded", !.metrics = "False"])
    BY DEF Coherent, StatusType
  <1> QED BY <1>1, <1>2 DEF Evaluated

LEMMA LoopCoherence ==
    ASSUME TypeOK, LoopAction, CoherenceInv
    PROVE  pc' \notin {"evaluate"} \cup Touching => Coherent(pa'.status)
  <1>1. pa.status \in StatusType
    BY CopyTypes
  <1>2. CASE DiscoverInvalid \/ DiscoverNone
    BY <1>1, <1>2, WithStatusFrame, PathsCoherent
       DEF DiscoverInvalid, DiscoverNone, VpaKinds
  <1>3. CASE DiscoverPods
    BY <1>3 DEF DiscoverPods, CoherenceInv, Touching
  <1>4. CASE LookUpVPA
    <2>1. PICK found \in VpaKinds : CheckVPA(found)
      BY <1>4, ConstantsAssumption DEF LookUpVPA, TypeOK, VpaKinds
    <2>2. \/ WithStatus([pa.status EXCEPT !.vpa = found, !.phase = "Degraded",
                                          !.conflict = "True"], "writeHalt")
          \/ pc' = "evaluate"
      BY <2>1 DEF CheckVPA, WithStatus, VpaKinds
    <2> QED BY <1>1, <2>2, WithStatusFrame, PathsCoherent
  <1>5. CASE \/ \E p \in Pods : MetricsMissing(p) \/ LeavePod(p) \/ AdjustPod(p)
             \/ ResizeInPlace \/ AnnotatePod \/ EvictPod
    <2>1. pc' \in {"evaluate"} \cup Touching
      BY <1>5 DEF MetricsMissing, LeavePod, AdjustPod, ResizeInPlace, AnnotatePod,
                  EvictPod, NextPod, Touching
    <2> QED BY <2>1
  <1>6. CASE Summarise
    BY <1>1, <1>6, WithStatusFrame, PathsCoherent DEF Summarise, VpaKinds
  <1> QED BY <1>2, <1>3, <1>4, <1>5, <1>6 DEF LoopAction

LEMMA NextCoherenceInv ==
    TypeOK /\ CoherenceInv /\ [Next]_vars => CoherenceInv'
  <1> SUFFICES ASSUME TypeOK, CoherenceInv, [Next]_vars PROVE CoherenceInv'
    OBVIOUS
  <1> USE DEF CoherenceInv
  <1>1. ASSUME NEW s \in Specs, Create(s) PROVE CoherenceInv'
    <2>1. cr' = NewCr(cr.inc + 1, s) /\ UNCHANGED <<crCache, pc, pa>>
      BY <1>1 DEF Create
    <2>2. cr'.status = NewStatus
      BY <2>1 DEF NewCr
    <2> QED BY <2>1, <2>2, BlankCoherent
  <1>2. CASE Delete \/ \E s \in Specs : Edit(s)
    <2>1. UNCHANGED <<crCache, pc, pa>>
      BY <1>2 DEF Delete, Edit
    <2>2. cr'.status = cr.status \/ cr'.status = NewStatus
      BY <1>2, BlankCoherent DEF Delete, Edit, TypeOK, CrType
    <2> QED BY <2>1, <2>2, BlankCoherent
  <1>3. CASE Crash
    <2>1. cr' = cr /\ crCache' = cr /\ pa' = Gone(0)
      BY <1>3 DEF Crash, serverVars
    <2> QED BY <2>1, BlankCoherent
  <1>4. CASE SyncCR
    <2>1. cr' = cr /\ crCache' = cr /\ UNCHANGED <<pc, pa>>
      BY <1>4 DEF SyncCR, serverVars, workerVars
    <2> QED BY <2>1
  <1>5. CASE TimerFires \/ FetchNothing \/ FetchFails \/ QuietAction
    <2>1. UNCHANGED <<cr, crCache, pc, pa>>
      BY <1>5, QuietFrame DEF TimerFires, FetchNothing, FetchFails, serverVars,
                  cacheVars, workerVars, crVars
    <2> QED BY <2>1
  <1>6. CASE Fetch
    <2>1. UNCHANGED <<cr, crCache>> /\ pa' = crCache
      BY <1>6 DEF Fetch, serverVars, cacheVars
    <2> QED BY <2>1
  <1>7. CASE CleanupAction
    BY <1>7, CleanupFrame DEF crVars, Removing, Touching
  <1>8. CASE AddFinalizer
    <2> DEFINE new == [cr EXCEPT !.finalizer = TRUE]
    <2>1. new.status = cr.status
      BY CrFields
    <2> HIDE DEF new
    <2>2. crCache' = crCache /\ (cr' = cr \/ cr' = new)
          /\ (pa' = new \/ pa' = Gone(0))
      BY <1>8, FinishCopy
         DEF AddFinalizer, UpdateSucceeds, UpdateFails, Store, ReturnError, new
    <2> QED BY <2>1, <2>2, BlankCoherent
  <1>9. CASE RemoveFinalizer \/ DiscoverFails
    <2>1. crCache' = crCache /\ (cr' = cr \/ cr' = Gone(cr.inc)) /\ pa' = Gone(0)
      BY <1>9, FinishCopy
         DEF RemoveFinalizer, DiscoverFails, UpdateSucceeds, UpdateFails, Store,
             ReturnDone, ReturnError, serverVars, cacheVars
    <2> QED BY <2>1, BlankCoherent
  <1>10. CASE LoopAction
    BY <1>10, LoopFrame, LoopCoherence DEF crVars
  <1>11. CASE WriteStatus
    <2> DEFINE new == [cr EXCEPT !.status = pa.status]
    <2>1. new.status = pa.status
      BY CrFields
    <2> HIDE DEF new
    <2>2. crCache' = crCache /\ (cr' = cr \/ cr' = new) /\ pa' = Gone(0)
      BY <1>11, FinishCopy
         DEF WriteStatus, UpdateSucceeds, UpdateFails, Store, ReturnInterval,
             ReturnError, new
    <2>3. Coherent(pa.status)
      BY <1>11 DEF WriteStatus, Writing, Touching
    <2> QED BY <2>1, <2>2, <2>3, BlankCoherent
  <1> QED
    BY <1>1, <1>2, <1>3, <1>4, <1>5, <1>6, <1>7, <1>8, <1>9, <1>10, <1>11, NextCases

LEMMA InitRecentInv == Init => RecentInv
  <1> SUFFICES ASSUME Init PROVE RecentInv
    OBVIOUS
  <1>1. Gone(0).gen = 0 /\ Gone(0).status.observed = 0
    BY GoneStatus
  <1> QED BY <1>1 DEF Init, RecentInv

\* Whichever of the four paths wrote it and whatever the one before left, the
\* phase and the conditions of a stored status agree, and its generation is
\* one the resource has had.
THEOREM StatusCoherentAlways == Spec => []StatusCoherent
  <1>1. Init => CoherenceInv
    BY BlankCoherent DEF Init, CoherenceInv
  <1>2. LifecycleInv => TypeOK
    BY DEF LifecycleInv
  <1>3. CoherenceInv /\ RecentInv => StatusCoherent
    BY DEF CoherenceInv, RecentInv, Coherent, StatusCoherent
  <1> QED
    BY <1>1, <1>2, <1>3, InitLifecycleInv, NextLifecycleInv, InitRecentInv,
       NextRecentInv, NextCoherenceInv, PTL DEF Spec

-----------------------------------------------------------------------------
(***************************************************************************)
(* A dry-run spec that is observed is quiet.  Once the status carries the  *)
(* current generation every copy that is left, in the cache or in a        *)
(* worker, is of that generation: an older copy could have been written    *)
(* neither before (its write would have failed) nor after (the cache had   *)
(* delivered this one).                                                    *)
(***************************************************************************)

SameSpec(a, b) ==
    /\ a.exists = b.exists /\ a.inc = b.inc /\ a.gen = b.gen
    /\ a.deleting = b.deleting /\ a.spec = b.spec

Observed(c) == c.exists /\ c.status.observed = c.gen

\* A copy with the current resourceVersion has the current spec, and so has
\* the cache it came from.
FreshInv == paFresh => SameSpec(pa, cr) /\ SameSpec(crCache, cr)

\* The worker only works for a resource it has not seen being deleted, and
\* only touches pods for a spec that says so.
IntentInv ==
    /\ pc \in Working \cup {"addFinalizer"} => ~pa.deleting
    /\ pc \in Touching => ~pa.spec.dryRun /\ pa.spec.mode # "Off"

ObservedInv ==
    Observed(cr) => /\ ~cr.deleting
                    /\ SameSpec(crCache, cr)
                    /\ pc # "idle" => SameSpec(pa, cr)

QuietInv == FreshInv /\ IntentInv /\ ObservedInv

\* Working on a copy changes nothing of it but the status.
LEMMA LoopCopy ==
    ASSUME TypeOK, LoopAction
    PROVE  SameSpec(pa', pa)
  <1> DEFINE Kept(s) == SameSpec([pa EXCEPT !.status = s], pa)
  <1>1. \A s : Kept(s)
    BY DEF SameSpec, TypeOK, CrType
  <1>2. CASE DiscoverInvalid \/ DiscoverNone \/ Summarise
    BY <1>1, <1>2 DEF DiscoverInvalid, DiscoverNone, Summarise, WithStatus
  <1>3. CASE LookUpVPA
    <2>1. PICK found \in VpaKinds : CheckVPA(found)
      BY <1>3, ConstantsAssumption DEF LookUpVPA, TypeOK, VpaKinds
    <2>2. \E s : pa' = [pa EXCEPT !.status = s]
      BY <2>1 DEF CheckVPA, WithStatus, VpaKinds
    <2> QED BY <1>1, <2>2
  <1>4. CASE \/ DiscoverPods
             \/ \E p \in Pods : MetricsMissing(p) \/ LeavePod(p) \/ AdjustPod(p)
             \/ ResizeInPlace \/ AnnotatePod \/ EvictPod
    <2>1. pa' = pa
      BY <1>4 DEF DiscoverPods, MetricsMissing, LeavePod, AdjustPod, ResizeInPlace,
                  AnnotatePod, EvictPod
    <2> QED BY <2>1 DEF SameSpec
  <1> QED BY <1>2, <1>3, <1>4 DEF LoopAction

\* A pod is only touched for a spec that lets it be, from the choice of the
\* strategy to the last call.
LEMMA LoopIntent ==
    ASSUME TypeOK, LoopAction, IntentInv
    PROVE  pc' \in Touching => ~pa.spec.dryRun /\ pa.spec.mode # "Off"
  <1> USE DEF Touching
  <1>1. CASE DiscoverInvalid \/ DiscoverNone \/ DiscoverPods \/ Summarise
    BY <1>1 DEF DiscoverInvalid, DiscoverNone, DiscoverPods, Summarise, WithStatus
  <1>2. CASE LookUpVPA
    <2>1. PICK found \in VpaKinds : CheckVPA(found)
      BY <1>2, ConstantsAssumption DEF LookUpVPA, TypeOK, VpaKinds
    <2> QED BY <2>1 DEF CheckVPA, WithStatus, VpaKinds
  <1>3. CASE \E p \in Pods : MetricsMissing(p) \/ LeavePod(p)
    BY <1>3 DEF MetricsMissing, LeavePod
  <1>4. CASE \E p \in Pods : AdjustPod(p)
    BY <1>4 DEF AdjustPod, Mutates
  <1>5. CASE ResizeInPlace \/ AnnotatePod \/ EvictPod
    BY <1>5 DEF ResizeInPlace, AnnotatePod, EvictPod, NextPod, IntentInv
  <1> QED BY <1>1, <1>2, <1>3, <1>4, <1>5 DEF LoopAction

\* What a status or a finalizer that is stored leaves alone.
LEMMA StoredFields ==
    ASSUME TypeOK
    PROVE  /\ \A t : SameSpec([cr EXCEPT !.status = t], cr)
           /\ SameSpec([cr EXCEPT !.finalizer = TRUE], cr)
           /\ \A t : [cr EXCEPT !.status = t].status = t
           /\ [cr EXCEPT !.finalizer = TRUE].status = cr.status
  BY DEF SameSpec, TypeOK, CrType

\* A reconcile that is over leaves no copy behind.
LEMMA IdleQuiet ==
    ASSUME FreshInv, ObservedInv, SameSpec(cr', cr), crCache' = crCache,
           ~paFresh', pc' = "idle",
           Observed(cr') => Observed(cr)
    PROVE  QuietInv'
  BY DEF QuietInv, FreshInv, IntentInv, ObservedInv, SameSpec, Working, Evaluating,
         Touching

LEMMA NextQuietInv ==
    LifecycleInv /\ RecentInv /\ QuietInv /\ [Next]_vars => QuietInv'
  <1> SUFFICES ASSUME LifecycleInv, RecentInv, QuietInv, [Next]_vars
               PROVE  QuietInv'
    OBVIOUS
  <1>1. TypeOK /\ CacheInv /\ FreshInv /\ IntentInv /\ ObservedInv
    BY DEF LifecycleInv, QuietInv
  <1>2. ASSUME NEW s \in Specs, Create(s) PROVE QuietInv'
    <2>1. /\ cr' = NewCr(cr.inc + 1, s) /\ ~paFresh' /\ UNCHANGED <<crCache, pc, pa>>
      BY <1>2 DEF Create, OutdatesCopies
    <2>2. cr'.gen = 1 /\ cr'.status.observed = 0
      BY <2>1 DEF NewCr, NewStatus
    <2> QED BY <1>1, <2>1, <2>2
            DEF QuietInv, FreshInv, IntentInv, ObservedInv, Observed
  <1>3. CASE Delete \/ \E s \in Specs : Edit(s)
    <2>1. ~paFresh' /\ UNCHANGED <<crCache, pc, pa>>
      BY <1>3 DEF Delete, Edit, OutdatesCopies
    <2>2. \/ cr'.gen = cr.gen + 1 /\ cr'.status = cr.status
          \/ ~cr'.exists
      BY <1>1, <1>3, GoneFacts DEF Delete, Edit, TypeOK, CrType
    <2>3. ~Observed(cr')
      BY <1>1, <2>2, CounterTypes DEF Observed, RecentInv
    <2> QED BY <1>1, <2>1, <2>3 DEF QuietInv, FreshInv, IntentInv, ObservedInv
  <1>4. CASE Crash
    <2>1. cr' = cr /\ crCache' = cr /\ pc' = "idle" /\ ~paFresh'
      BY <1>4 DEF Crash, serverVars
    <2> QED BY <1>1, <2>1 DEF QuietInv, FreshInv, IntentInv, ObservedInv, SameSpec,
                              Working, Evaluating, Touching
  <1>5. CASE SyncCR
    <2>1. cr' = cr /\ crCache' = cr /\ UNCHANGED <<pc, pa, paFresh>>
      BY <1>5 DEF SyncCR, serverVars, workerVars
    <2> QED BY <1>1, <2>1 DEF QuietInv, FreshInv, IntentInv, ObservedInv, SameSpec
  <1>6. CASE TimerFires \/ FetchNothing \/ FetchFails \/ QuietAction
    <2>1. UNCHANGED <<cr, crCache, pc, pa, paFresh>>
      BY <1>6, QuietFrame DEF TimerFires, FetchNothing, FetchFails, serverVars,
                  cacheVars, workerVars, crVars
    <2> QED BY <1>1, <2>1 DEF QuietInv, FreshInv, IntentInv, ObservedInv
  <1>7. CASE Fetch
    <2>1. /\ UNCHANGED <<cr, crCache>> /\ pa' = crCache /\ paFresh' = crCacheFresh
          /\ pc' = FirstCall(crCache) /\ pc' \notin Touching
      BY <1>7 DEF Fetch, FirstCall, serverVars, cacheVars, Touching
    <2>2. pc' \in Working \cup {"addFinalizer"} => ~pa'.deleting
      BY <2>1 DEF FirstCall, Working, Evaluating
    <2>3. paFresh' => pa' = cr /\ crCache = cr
      BY <1>1, <2>1 DEF CacheInv
    <2> QED BY <1>1, <2>1, <2>2, <2>3
            DEF QuietInv, FreshInv, IntentInv, ObservedInv, SameSpec
  <1>8. CASE CleanupAction
    BY <1>1, <1>8, CleanupFrame
       DEF QuietInv, FreshInv, IntentInv, ObservedInv, crVars, Removing, Working,
           Evaluating, Touching
  <1>9. CASE AddFinalizer
    <2> DEFINE new == [cr EXCEPT !.finalizer = TRUE]
    <2>1. SameSpec(new, cr) /\ new.status = cr.status
      BY <1>1, StoredFields
    <2> HIDE DEF new
    <2>2. crCache' = crCache /\ (cr' = cr \/ cr' = new)
      BY <1>9 DEF AddFinalizer, UpdateSucceeds, UpdateFails, Store, new
    <2>3. SameSpec(cr', cr) /\ (Observed(cr') => Observed(cr))
      BY <2>1, <2>2 DEF SameSpec, Observed
    <2>4. CASE UpdateSucceeds(new) /\ pc' = "discover" /\ pa' = new /\ paFresh' = paFresh
      <3>1. paFresh /\ cr' = new
        BY <2>4 DEF UpdateSucceeds, Store, CanWrite
      <3>2. ~pa.deleting /\ SameSpec(pa, cr) /\ SameSpec(crCache, cr)
        BY <1>1, <1>9, <3>1 DEF AddFinalizer, FreshInv, IntentInv
      <3>3. SameSpec(pa', cr') /\ SameSpec(crCache', cr') /\ ~pa'.deleting
            /\ ~cr'.deleting
        BY <2>1, <2>2, <2>4, <3>1, <3>2 DEF SameSpec
      <3> QED BY <2>4, <3>3 DEF QuietInv, FreshInv, IntentInv, ObservedInv, Touching
    <2>5. CASE UpdateFails(new) /\ ReturnError
      BY <1>1, <2>2, <2>3, <2>5, FinishCopy, IdleQuiet DEF ReturnError
    <2> QED BY <1>9, <2>4, <2>5 DEF AddFinalizer, new
  <1>10. CASE RemoveFinalizer \/ DiscoverFails
    <2>1. /\ crCache' = crCache /\ (cr' = cr \/ cr' = Gone(cr.inc))
          /\ pc' = "idle" /\ ~paFresh'
      BY <1>10, FinishCopy
         DEF RemoveFinalizer, DiscoverFails, UpdateSucceeds, UpdateFails, Store,
             ReturnDone, ReturnError, serverVars, cacheVars
    <2>2. CASE cr' = cr
      BY <1>1, <2>1, <2>2, IdleQuiet DEF SameSpec
    <2>3. CASE cr' = Gone(cr.inc)
      BY <2>1, <2>3, GoneFacts
         DEF QuietInv, FreshInv, IntentInv, ObservedInv, Observed, Working,
             Evaluating, Touching
    <2> QED BY <2>1, <2>2, <2>3
  <1>11. CASE LoopAction
    <2>1. /\ UNCHANGED <<cr, crCache, paFresh>> /\ SameSpec(pa', pa)
          /\ pc \in Working /\ pc' \in Working
          /\ pc' \in Touching => ~pa.spec.dryRun /\ pa.spec.mode # "Off"
      BY <1>1, <1>11, LoopFrame, LoopCopy, LoopIntent DEF crVars
    <2>2. pc # "idle" /\ ~pa.deleting
      BY <1>1, <2>1 DEF IntentInv, Working, Evaluating
    <2> QED BY <1>1, <2>1, <2>2
            DEF QuietInv, FreshInv, IntentInv, ObservedInv, SameSpec
  <1>12. CASE WriteStatus
    <2> DEFINE new == [cr EXCEPT !.status = pa.status]
    <2>1. SameSpec(new, cr) /\ new.status = pa.status
      BY <1>1, StoredFields
    <2> HIDE DEF new
    <2>2. /\ crCache' = crCache /\ (cr' = cr \/ (cr' = new /\ paFresh))
          /\ pc' = "idle" /\ ~paFresh' /\ pc \in Working
      BY <1>12, FinishCopy
         DEF WriteStatus, UpdateSucceeds, UpdateFails, Store, CanWrite, ReturnInterval,
             ReturnError, Writing, Working, Evaluating, new
    <2>3. CASE cr' = cr
      BY <1>1, <2>2, <2>3, IdleQuiet DEF SameSpec
    <2>4. CASE cr' = new /\ paFresh
      <3>1. SameSpec(crCache, cr) /\ ~cr.deleting
        BY <1>1, <2>2, <2>4 DEF FreshInv, IntentInv, SameSpec
      <3> QED BY <2>1, <2>2, <2>4, <3>1
              DEF QuietInv, FreshInv, IntentInv, ObservedInv, SameSpec, Working,
                  Evaluating, Touching
    <2> QED BY <2>2, <2>3, <2>4
  <1> QED
    BY <1>2, <1>3, <1>4, <1>5, <1>6, <1>7, <1>8, <1>9, <1>10, <1>11, <1>12, NextCases

LEMMA InitQuietInv == Init => QuietInv
  BY GoneFacts DEF Init, QuietInv, FreshInv, IntentInv, ObservedInv, Observed, Working,
                   Evaluating, Touching

\* The steps of a reconcile that touch a pod, by where the worker is.
LEMMA PodSteps ==
    ASSUME Worker, ~(annotated' = annotated /\ pods' = pods /\ applied' = applied)
    PROVE  pc \in Touching \cup Removing
  BY DEF Worker, Fetch, FetchNothing, FetchFails, AddFinalizer, CleanupList,
         CleanupPod, RemoveFinalizer, DiscoverInvalid, DiscoverFails, DiscoverNone,
         DiscoverPods, LookUpVPA, CheckVPA, MetricsMissing, LeavePod, AdjustPod,
         ResizeInPlace, AnnotatePod, EvictPod, Summarise, WriteStatus, Touching,
         Removing, serverVars, podVars, history

LEMMA QuietStep ==
    ASSUME LifecycleInv, QuietInv, Worker,
           cr.exists, cr.status.observed = cr.gen,
           cr.spec.dryRun \/ cr.spec.mode = "Off"
    PROVE  annotated' = annotated /\ pods' = pods /\ applied' = applied
  <1> SUFFICES ASSUME pc \in Touching \cup Removing PROVE FALSE
    BY PodSteps
  <1>1. SameSpec(pa, cr) /\ ~cr.deleting
    BY DEF QuietInv, ObservedInv, Observed, Touching, Removing
  <1>2. CASE pc \in Touching
    BY <1>1, <1>2 DEF QuietInv, IntentInv, SameSpec
  <1>3. CASE pc \in Removing
    BY <1>1, <1>3 DEF LifecycleInv, RemovalInv, SameSpec
  <1> QED BY <1>2, <1>3

\* Once a dry-run or Off spec is reported as observed, no reconcile touches a
\* pod, its annotation or its resources until the spec changes.
THEOREM ObservedDryRunIsQuietAlways == Spec => ObservedDryRunIsQuiet
  <1> DEFINE QuietOn == Worker /\ cr.exists /\ cr.status.observed = cr.gen
                          /\ (cr.spec.dryRun \/ cr.spec.mode = "Off")
                        => annotated' = annotated /\ pods' = pods /\ applied' = applied
  <1>1. LifecycleInv /\ QuietInv => [QuietOn]_vars
    BY QuietStep
  <1> QED
    BY <1>1, InitLifecycleInv, NextLifecycleInv, InitRecentInv, NextRecentInv,
       InitQuietInv, NextQuietInv, PTL DEF Spec, ObservedDryRunIsQuiet

-----------------------------------------------------------------------------
(***************************************************************************)
(* The observed spec rules.  On top of the copies being of the observed    *)
(* generation: the loop keeps to the pods that its copy selects, and comes *)
(* to the annotation only by way of a mode that lets pods be evicted.      *)
(***************************************************************************)

Marking == {"annotate", "evict"}

LoopInv ==
    /\ pc \in {"vpa", "evaluate"} \cup Touching
         => pa.spec.valid /\ todo \subseteq pa.spec.selects
    /\ pc \in Touching => cur \in pa.spec.selects
    /\ pc \in Marking => pa.spec.mode \in {"Auto", "Recreate"}

\* What a step of the loop makes of it, for the copy's spec, which it keeps.
LEMMA LoopKeeps ==
    ASSUME TypeOK, LoopAction, LoopInv
    PROVE  /\ pc' \in {"vpa", "evaluate"} \cup Touching
                => pa.spec.valid /\ todo' \subseteq pa.spec.selects
           /\ pc' \in Touching => cur' \in pa.spec.selects
           /\ pc' \in Marking => pa.spec.mode \in {"Auto", "Recreate"}
  <1> USE DEF LoopInv, Touching, Marking
  <1>1. CASE DiscoverInvalid \/ DiscoverNone \/ Summarise
    BY <1>1 DEF DiscoverInvalid, DiscoverNone, Summarise, WithStatus
  <1>2. CASE DiscoverPods
    BY <1>2 DEF DiscoverPods, RunningPods
  <1>3. CASE LookUpVPA
    <2>1. PICK found \in VpaKinds : CheckVPA(found)
      BY <1>3, ConstantsAssumption DEF LookUpVPA, TypeOK, VpaKinds
    <2> QED BY <2>1 DEF CheckVPA, WithStatus, VpaKinds, loopVars
  <1>4. CASE \E p \in Pods : MetricsMissing(p) \/ LeavePod(p)
    BY <1>4 DEF MetricsMissing, LeavePod
  <1>5. CASE \E p \in Pods : AdjustPod(p)
    BY <1>5 DEF AdjustPod
  <1>6. CASE ResizeInPlace
    BY <1>6 DEF ResizeInPlace, FallsBack, NextPod
  <1>7. CASE AnnotatePod \/ EvictPod
    BY <1>7 DEF AnnotatePod, EvictPod, NextPod
  <1> QED BY <1>1, <1>2, <1>3, <1>4, <1>5, <1>6, <1>7 DEF LoopAction

LEMMA NextLoopInv == TypeOK /\ LoopInv /\ [Next]_vars => LoopInv'
  <1> SUFFICES ASSUME TypeOK, LoopInv, [Next]_vars PROVE LoopInv'
    OBVIOUS
  <1>1. CASE LoopAction
    BY <1>1, LoopKeeps, LoopFrame DEF LoopInv
  <1>2. CASE \/ Delete \/ SyncCR \/ TimerFires \/ FetchNothing \/ FetchFails
             \/ QuietAction \/ \E s \in Specs : Create(s) \/ Edit(s)
    <2>1. UNCHANGED <<pc, pa, todo, cur>>
      BY <1>2 DEF Delete, SyncCR, TimerFires, FetchNothing, FetchFails, Create, Edit,
                  QuietAction, VpaChanges, PodStops, PodEnds, PodStarts, SyncPod, vars,
                  workerVars, loopVars
    <2> QED BY <2>1 DEF LoopInv
  <1>3. CASE CleanupAction
    BY <1>3, CleanupFrame DEF LoopInv, Removing, Touching, Marking
  <1>4. CASE \/ Crash \/ Fetch \/ AddFinalizer \/ RemoveFinalizer \/ DiscoverFails
             \/ WriteStatus
    <2>1. pc' \in {"idle", "cleanup", "addFinalizer", "discover"}
      BY <1>4 DEF Crash, Fetch, FirstCall, AddFinalizer, RemoveFinalizer, DiscoverFails,
                  WriteStatus, ReturnDone, ReturnError, ReturnInterval, Finish
    <2> QED BY <2>1 DEF LoopInv, Touching, Marking
  <1> QED BY <1>1, <1>2, <1>3, <1>4, NextCases

\* Pods are evicted and marked only by the two calls of applyViaEviction.
LEMMA MarkSteps ==
    ASSUME Worker, ~(annotated' = annotated /\ pods' = pods)
    PROVE  pc \in Marking \cup Removing
  BY DEF Worker, Fetch, FetchNothing, FetchFails, AddFinalizer, CleanupList,
         CleanupPod, RemoveFinalizer, DiscoverInvalid, DiscoverFails, DiscoverNone,
         DiscoverPods, LookUpVPA, CheckVPA, MetricsMissing, LeavePod, AdjustPod,
         ResizeInPlace, AnnotatePod, EvictPod, Summarise, WriteStatus, Marking,
         Removing, serverVars, podVars

LEMMA RulesStep ==
    ASSUME LifecycleInv, QuietInv, LoopInv, Worker,
           cr.exists, cr.status.observed = cr.gen
    PROVE  /\ applied' # applied \/ ~(annotated' \subseteq annotated)
                => cur \in cr.spec.selects
           /\ cr.spec.mode \notin {"Auto", "Recreate"}
                => pods' = pods /\ annotated' \subseteq annotated
  <1>1. ~cr.deleting /\ (pc # "idle" => SameSpec(pa, cr))
    BY DEF QuietInv, ObservedInv, Observed
  <1>2. pc \in Touching => cur \in cr.spec.selects
    BY <1>1 DEF LoopInv, SameSpec, Touching
  <1>3. pc \in Marking => cr.spec.mode \in {"Auto", "Recreate"}
    BY <1>1 DEF LoopInv, SameSpec, Marking
  <1>4. pc \notin Removing
    BY <1>1 DEF LifecycleInv, RemovalInv, SameSpec, Removing
  <1>5. CASE annotated' = annotated /\ pods' = pods /\ applied' = applied
    BY <1>5
  <1>6. CASE ~(annotated' = annotated /\ pods' = pods /\ applied' = applied)
    <2>1. cur \in cr.spec.selects
      BY <1>2, <1>4, <1>6, PodSteps
    <2>2. CASE ~(annotated' = annotated /\ pods' = pods)
      BY <1>3, <1>4, <2>1, <2>2, MarkSteps
    <2>3. CASE annotated' = annotated /\ pods' = pods
      BY <2>1, <2>3
    <2> QED BY <2>2, <2>3
  <1> QED BY <1>5, <1>6

\* Once a spec is reported as observed no reconcile goes by another: whatever
\* the caches held, however many patches failed and whatever the user edited
\* before, only pods the observed spec selects are updated, and none is evicted
\* unless it says so.
THEOREM ObservedSpecRulesAlways == Spec => ObservedSpecRules
  <1> DEFINE Rules == Worker /\ cr.exists /\ cr.status.observed = cr.gen
                        => /\ applied' # applied \/ ~(annotated' \subseteq annotated)
                               => cur \in cr.spec.selects
                           /\ cr.spec.mode \notin {"Auto", "Recreate"}
                               => pods' = pods /\ annotated' \subseteq annotated
  <1>1. LifecycleInv /\ QuietInv /\ LoopInv => [Rules]_vars
    BY RulesStep
  <1>2. Init => LoopInv
    BY DEF Init, LoopInv, Touching, Marking
  <1>3. LifecycleInv => TypeOK
    BY DEF LifecycleInv
  <1> QED
    BY <1>1, <1>2, <1>3, InitLifecycleInv, NextLifecycleInv, InitRecentInv, NextRecentInv,
       InitQuietInv, NextQuietInv, NextLoopInv, PTL DEF Spec, ObservedSpecRules

-----------------------------------------------------------------------------
(***************************************************************************)
(* No annotation is left, but for those a cleanup knows nothing of or      *)
(* failed to remove.  Only pods the selector selects are annotated, only   *)
(* while the finalizer holds the resource; and from its list on a cleanup  *)
(* has every annotation behind it (forgotten) or ahead of it (todo).       *)
(***************************************************************************)

\* An edit never changes what the selector selects.
SteadySelector == \A s, t \in Specs : s.valid /\ t.valid => s.selects = t.selects

AnnotationInv ==
    /\ \A s \in Specs : s.valid => annotated \subseteq s.selects
    /\ ~Managed(cr) => annotated \subseteq forgotten
    /\ pc = "cleanupPods" => annotated \subseteq forgotten \cup todo

\* A step of the loop annotates at most the pod it is at.
LEMMA LoopAnnotates ==
    ASSUME TypeOK, LoopAction, LoopInv
    PROVE  \/ annotated' = annotated
           \/ /\ pa.spec.valid /\ annotated' \subseteq annotated \cup pa.spec.selects
  <1>1. CASE AnnotatePod
    BY <1>1 DEF AnnotatePod, LoopInv, Touching
  <1>2. CASE LookUpVPA
    <2>1. PICK found \in VpaKinds : CheckVPA(found)
      BY <1>2, ConstantsAssumption DEF LookUpVPA, TypeOK, VpaKinds
    <2> QED BY <2>1 DEF CheckVPA, serverVars
  <1>3. CASE ~AnnotatePod /\ ~LookUpVPA
    BY <1>3 DEF LoopAction, DiscoverInvalid, DiscoverNone, DiscoverPods, MetricsMissing,
                LeavePod, AdjustPod, ResizeInPlace, EvictPod, Summarise, serverVars,
                podVars
  <1> QED BY <1>1, <1>2, <1>3

LEMMA NextAnnotationInv ==
    ASSUME SteadySelector, LifecycleInv, LoopInv, AnnotationInv, [Next]_vars
    PROVE  AnnotationInv'
  <1>1. TypeOK
    BY DEF LifecycleInv
  <1>2. CASE \E s \in Specs : Create(s)
    <2>1. ~cr.exists /\ UNCHANGED <<annotated, forgotten, pc, todo>>
      BY <1>2 DEF Create, podVars, loopVars
    <2> QED BY <2>1 DEF AnnotationInv, Managed
  <1>3. CASE Delete \/ \E s \in Specs : Edit(s)
    <2>1. UNCHANGED <<annotated, forgotten, pc, todo>>
      BY <1>3 DEF Delete, Edit, podVars, loopVars, history
    <2>2. Managed(cr) => Managed(cr')
      BY <1>1, <1>3 DEF Delete, Edit, Managed, TypeOK, CrType
    <2> QED BY <2>1, <2>2 DEF AnnotationInv
  <1>4. CASE Crash \/ DiscoverFails
    <2>1. UNCHANGED <<cr, annotated, forgotten>> /\ pc' = "idle"
      BY <1>4, FinishCopy DEF Crash, DiscoverFails, ReturnError, serverVars
    <2> QED BY <2>1 DEF AnnotationInv
  <1>5. CASE SyncCR \/ TimerFires \/ FetchNothing \/ FetchFails
    <2>1. UNCHANGED <<cr, annotated, forgotten, pc, todo>>
      BY <1>5 DEF SyncCR, TimerFires, FetchNothing, FetchFails, serverVars,
                  workerVars, loopVars, history
    <2> QED BY <2>1 DEF AnnotationInv
  <1>6. CASE QuietAction
    <2>1. /\ UNCHANGED <<cr, pc, todo>>
          /\ \/ UNCHANGED <<annotated, forgotten>>
             \/ \E p \in Pods : /\ annotated' = annotated \ {p}
                               /\ forgotten' = forgotten \ {p}
      BY <1>6 DEF QuietAction, VpaChanges, PodStops, PodEnds, PodStarts, SyncPod, vars,
                  serverVars, podVars, workerVars, loopVars, history
    <2> QED BY <2>1 DEF AnnotationInv
  <1>7. CASE Fetch
    <2>1. /\ UNCHANGED <<cr, annotated, forgotten>>
          /\ pc' \in {"cleanup", "addFinalizer", "discover"}
      BY <1>7 DEF Fetch, FirstCall, serverVars, history
    <2> QED BY <2>1 DEF AnnotationInv
  <1>8. CASE AddFinalizer
    <2>1. /\ UNCHANGED <<annotated, forgotten>> /\ pc' \in {"discover", "idle"}
          /\ cr' = cr \/ cr' = [cr EXCEPT !.finalizer = TRUE]
      BY <1>8, FinishCopy
         DEF AddFinalizer, UpdateSucceeds, UpdateFails, Store, ReturnError, podVars
    <2>2. Managed(cr) => Managed(cr')
      BY <1>1, <2>1, CrFields DEF Managed
    <2> QED BY <2>1, <2>2 DEF AnnotationInv
  <1>9. CASE CleanupList
    <2>1. UNCHANGED <<cr, annotated>> /\ pc' = "cleanupPods"
      BY <1>9 DEF CleanupList, serverVars
    <2>2. \/ /\ pa.spec.valid /\ todo' = pa.spec.selects \cap SeenAnnotated
             /\ forgotten' = forgotten \cup (annotated \ SeenAnnotated)
          \/ forgotten' = annotated
      BY <1>9 DEF CleanupList, ManagedPods
    <2>3. pa.spec \in Specs
      BY <1>1, CopyTypes
    <2>4. annotated' \subseteq forgotten' \cup todo'
      BY <2>1, <2>2, <2>3 DEF AnnotationInv
    <2>5. forgotten \subseteq forgotten' \/ annotated \subseteq forgotten'
      BY <2>2
    <2> QED BY <2>1, <2>4, <2>5 DEF AnnotationInv
  <1>10. ASSUME NEW p \in Pods, CleanupPod(p) PROVE AnnotationInv'
    <2>1. /\ UNCHANGED cr /\ pc = "cleanupPods" /\ todo' = todo \ {p}
          /\ \/ annotated' = annotated \ {p} /\ forgotten' = forgotten \ {p}
             \/ annotated' = annotated /\ forgotten' = forgotten \cup ({p} \cap annotated)
      BY <1>10 DEF CleanupPod
    <2> QED BY <2>1 DEF AnnotationInv
  <1>11. CASE RemoveFinalizer
    <2>1. /\ UNCHANGED <<annotated, forgotten>> /\ pc' = "idle"
          /\ pc = "cleanupPods" /\ todo = {}
      BY <1>11, FinishCopy DEF RemoveFinalizer, ReturnDone, ReturnError, podVars
    <2>2. annotated \subseteq forgotten
      BY <2>1 DEF AnnotationInv
    <2> QED BY <2>1, <2>2 DEF AnnotationInv
  <1>12. CASE LoopAction
    <2>1. /\ UNCHANGED cr /\ pc \in Working /\ pc' \in Working
      BY <1>1, <1>12, LoopFrame DEF crVars
    <2>2. Managed(cr) /\ pc' # "cleanupPods"
      BY <2>1 DEF LifecycleInv, FinalizerGuardsWork, Working, Evaluating
    <2>3. pa.spec \in Specs
      BY <1>1, CopyTypes
    <2>4. \A s \in Specs : s.valid => annotated' \subseteq s.selects
      BY <1>1, <1>12, <2>3, LoopAnnotates DEF AnnotationInv, SteadySelector
    <2> QED BY <2>1, <2>2, <2>4 DEF AnnotationInv
  <1>13. CASE WriteStatus
    <2> DEFINE new == [cr EXCEPT !.status = pa.status]
    <2>1. new.exists = cr.exists /\ new.finalizer = cr.finalizer
      BY <1>1, CrFields
    <2> HIDE DEF new
    <2>2. UNCHANGED <<annotated, forgotten>> /\ pc' = "idle" /\ (cr' = cr \/ cr' = new)
      BY <1>13, FinishCopy
         DEF WriteStatus, UpdateSucceeds, UpdateFails, Store, ReturnInterval,
             ReturnError, podVars, new
    <2> QED BY <2>1, <2>2 DEF AnnotationInv, Managed
  <1> QED
    BY <1>2, <1>3, <1>4, <1>5, <1>6, <1>7, <1>8, <1>9, <1>10, <1>11, <1>12, <1>13,
       NextCases DEF CleanupAction

\* However old the lists of pods and the copies of the resource were, whichever
\* calls failed and whatever crashed on the way: what a resource that is gone has
\* left behind are annotations that its cleanup did not know of or tried in vain
\* to remove.
THEOREM NoAnnotationLeftAlways ==
    SteadySelector => (Spec => []NoAnnotationLeft)
  <1> SUFFICES ASSUME SteadySelector PROVE Spec => []NoAnnotationLeft
    OBVIOUS
  <1>1. Init => AnnotationInv /\ LoopInv
    BY DEF Init, AnnotationInv, LoopInv, Touching, Marking
  <1>2. LifecycleInv /\ LoopInv /\ AnnotationInv /\ [Next]_vars => AnnotationInv'
    BY NextAnnotationInv
  <1>3. AnnotationInv => NoAnnotationLeft
    BY DEF AnnotationInv, NoAnnotationLeft, Managed
  <1>4. LifecycleInv => TypeOK
    BY DEF LifecycleInv
  <1> QED BY <1>1, <1>2, <1>3, <1>4, InitLifecycleInv, NextLifecycleInv, NextLoopInv, PTL
          DEF Spec

-----------------------------------------------------------------------------
(***************************************************************************)
(* A deletion is not blocked.                                              *)
(***************************************************************************)

\* A current copy of a resource that is being deleted is one of a resource that
\* is there: the user cannot take it away, and only this worker will.
HeldCopyInv == paFresh /\ pc \in Removing => cr.exists

\* The resource of a current copy in cleanup cannot be created or deleted.
LEMMA RemovalHolds ==
    ASSUME LifecycleInv, HeldCopyInv, paFresh, pc \in Removing
    PROVE  cr.exists /\ cr.deleting
  BY DEF LifecycleInv, HeldCopyInv, IncarnationInv, RemovalInv

\* The steps that leave a reconcile, its copy and the resource's being as they are.
LEMMA OutsideSteps ==
    ASSUME \/ VpaChanges \/ SyncCR \/ TimerFires \/ UNCHANGED vars
           \/ \E p \in Pods : SyncPod(p) \/ PodStops(p) \/ PodEnds(p) \/ PodStarts(p)
    PROVE  UNCHANGED <<cr, pc, paFresh>>
  BY DEF VpaChanges, SyncCR, TimerFires, SyncPod, PodStops, PodEnds, PodStarts, vars,
         workerVars, serverVars

\* The calls of a cleanup.
LEMMA CleanupSteps ==
    ASSUME pc \in Removing, Worker
    PROVE  CleanupList \/ (\E p \in Pods : CleanupPod(p)) \/ RemoveFinalizer
  BY DEF Worker, Removing, Fetch, FetchNothing, FetchFails, AddFinalizer,
         DiscoverInvalid, DiscoverFails, DiscoverNone, DiscoverPods, LookUpVPA, CheckVPA,
         MetricsMissing, LeavePod, AdjustPod, ResizeInPlace, AnnotatePod, EvictPod,
         Summarise, WriteStatus, Writing

LEMMA DeletionStep ==
    ASSUME LifecycleInv, HeldCopyInv, [Next]_vars, paFresh, pc \in Removing
    PROVE  \/ ~cr'.exists
           \/ pc' \in Removing /\ (paFresh' \/ cr'.spec # cr.spec)
           \/ pc = "cleanupPods" /\ todo = {} /\ faults' # faults
           \/ crashes' # crashes
  <1>1. cr.exists /\ cr.deleting
    BY RemovalHolds
  <1>2. faults \in Nat /\ crashes \in Nat /\ cr \in CrType
    BY DEF LifecycleInv, TypeOK
  <1>3. CASE CleanupList \/ \E p \in Pods : CleanupPod(p)
    BY <1>1, <1>3 DEF CleanupList, CleanupPod, Removing, serverVars
  <1>4. CASE RemoveFinalizer
    <2>1. CASE UpdateSucceeds(Gone(cr.inc))
      <3>1. cr' = Gone(cr.inc)
        BY <2>1 DEF UpdateSucceeds, Store
      <3> QED BY <3>1, GoneFacts
    <2>2. CASE UpdateFails(Gone(cr.inc))
      <3>1. faults' = faults + 1
        BY <1>1, <2>2 DEF UpdateFails, CanWrite, Fault
      <3>2. pc = "cleanupPods" /\ todo = {}
        BY <1>4 DEF RemoveFinalizer
      <3> QED BY <1>2, <3>1, <3>2
    <2> QED BY <1>4, <2>1, <2>2 DEF RemoveFinalizer
  <1>5. CASE Crash
    BY <1>2, <1>5 DEF Crash
  <1>6. ASSUME NEW s \in Specs, Edit(s)
        PROVE  pc' \in Removing /\ cr'.spec # cr.spec
    BY <1>1, <1>2, <1>6 DEF Edit, CrType
  <1>7. CASE Delete \/ \E s \in Specs : Create(s)
    BY <1>1, <1>7 DEF Delete, Create
  <1>8. CASE \/ VpaChanges \/ SyncCR \/ TimerFires \/ UNCHANGED vars
             \/ \E p \in Pods : SyncPod(p) \/ PodStops(p) \/ PodEnds(p) \/ PodStarts(p)
    BY <1>1, <1>8, OutsideSteps
  <1>9. CASE Worker
    BY <1>3, <1>4, <1>9, CleanupSteps
  <1> QED BY <1>5, <1>6, <1>7, <1>8, <1>9 DEF Next, Informers, Environment

LEMMA NextHeldCopyInv == LifecycleInv /\ HeldCopyInv /\ [Next]_vars => HeldCopyInv'
  <1> SUFFICES ASSUME LifecycleInv, HeldCopyInv, [Next]_vars, paFresh', pc' \in Removing
               PROVE  cr'.exists
    BY DEF HeldCopyInv
  <1>1. CASE Worker
    <2>1. CASE Fetch
      <3>1. crCache = cr /\ crCache.exists /\ cr' = cr
        BY <2>1 DEF Fetch, Managed, LifecycleInv, CacheInv, serverVars
      <3> QED BY <3>1
    <2>2. CASE CleanupList \/ \E p \in Pods : CleanupPod(p)
      <3>1. paFresh /\ pc \in Removing /\ cr' = cr
        BY <2>2 DEF CleanupList, CleanupPod, Removing, serverVars
      <3> QED BY <3>1 DEF HeldCopyInv
    <2>3. CASE FetchNothing \/ FetchFails
      <3>1. pc' = "idle"
        BY <2>3 DEF FetchNothing, FetchFails, workerVars
      <3> QED BY <3>1 DEF Removing
    <2>4. CASE AddFinalizer \/ RemoveFinalizer \/ WriteStatus \/ DiscoverFails
      <3>1. pc' = "idle" \/ pc' = "discover"
        BY <2>4 DEF AddFinalizer, RemoveFinalizer, WriteStatus, DiscoverFails, Finish,
                    ReturnDone, ReturnError, ReturnInterval
      <3> QED BY <3>1 DEF Removing
    <2>5. CASE DiscoverInvalid \/ DiscoverNone \/ DiscoverPods \/ Summarise
      BY <2>5 DEF DiscoverInvalid, DiscoverNone, DiscoverPods, Summarise, WithStatus,
                  Removing
    <2>6. CASE LookUpVPA
      <3>1. PICK found \in VpaKinds : CheckVPA(found)
        BY <2>6, ConstantsAssumption DEF LookUpVPA, LifecycleInv, TypeOK, VpaKinds
      <3>2. pc' = "writeHalt" \/ pc' = "evaluate"
        BY <3>1 DEF CheckVPA, WithStatus, VpaKinds
      <3> QED BY <3>2 DEF Removing
    <2>7. CASE \/ \E p \in Pods : MetricsMissing(p) \/ LeavePod(p) \/ AdjustPod(p)
               \/ ResizeInPlace \/ AnnotatePod \/ EvictPod
      BY <2>7 DEF MetricsMissing, LeavePod, AdjustPod, ResizeInPlace, AnnotatePod,
                  EvictPod, NextPod, Removing
    <2> QED BY <1>1, <2>1, <2>2, <2>3, <2>4, <2>5, <2>6, <2>7 DEF Worker
  <1>2. CASE Delete \/ Crash \/ \E s \in Specs : Create(s) \/ Edit(s)
    BY <1>2 DEF Delete, Crash, Create, Edit, OutdatesCopies
  <1>3. CASE \/ VpaChanges \/ SyncCR \/ TimerFires \/ UNCHANGED vars
             \/ \E p \in Pods : SyncPod(p) \/ PodStops(p) \/ PodEnds(p) \/ PodStarts(p)
    <2>1. UNCHANGED <<cr, pc, paFresh>>
      BY <1>3, OutsideSteps
    <2> QED BY <2>1 DEF HeldCopyInv
  <1> QED BY <1>1, <1>2, <1>3 DEF Next, Informers, Environment

\* Whatever the selector, the pods and their annotations are, whether or not the
\* List and the removals fail: a reconcile that starts the cleanup from the
\* current copy removes the resource, unless the user edits it, the final Update
\* fails or the process dies meanwhile.
THEOREM DeletionNotBlockedAlways == Spec => DeletionNotBlocked
  <1> DEFINE Free == paFresh /\ pc \in Removing
                       => \/ ~cr'.exists
                          \/ pc' \in Removing /\ (paFresh' \/ cr'.spec # cr.spec)
                          \/ pc = "cleanupPods" /\ todo = {} /\ faults' # faults
                          \/ crashes' # crashes
  <1>1. Init => HeldCopyInv
    BY DEF Init, HeldCopyInv, Removing
  <1>2. LifecycleInv /\ HeldCopyInv /\ [Next]_vars => [Free]_vars
    BY DeletionStep
  <1> QED BY <1>1, <1>2, InitLifecycleInv, NextLifecycleInv, NextHeldCopyInv, PTL
          DEF Spec, DeletionNotBlocked
=============================================================================
