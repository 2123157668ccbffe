------------------------- MODULE ReconcilerRefinement -------------------------
(***************************************************************************)
(* Reconciler implements ManagedLifecycle: the refinement mapping.         *)
(***************************************************************************)
EXTENDS Reconciler

Phase ==
    CASE ~cr.exists                                -> "absent"
      [] cr.exists /\ ~cr.finalizer                -> "unheld"
      [] cr.exists /\ cr.finalizer /\ ~cr.deleting -> "held"
      [] cr.exists /\ cr.finalizer /\ cr.deleting  -> "releasing"

Contract == INSTANCE ManagedLifecycle WITH
                phase    <- Phase,
                inc      <- cr.inc,
                gen      <- cr.gen,
                reported <- [total    |-> cr.status.total,
                             observed |-> cr.status.observed],
                working  <- pc \in Working

\* Whatever the caches hold and whichever calls fail or crash: pods are
\* updated and marked, and the status is written, only in the course of work
\* on a resource that is held; it is not let go in the middle of that work; a
\* held resource goes only by way of releasing, and what a status reports only
\* moves forward.
KeepsContract == Contract!Spec
=============================================================================
