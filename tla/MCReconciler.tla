----------------------------- MODULE MCReconciler -----------------------------
(***************************************************************************)
(* Instances of Reconciler for TLC.                                        *)
(***************************************************************************)
EXTENDS ReconcilerRefinement

AutoSpec == [mode |-> "Auto", dryRun |-> FALSE, valid |-> TRUE,
             selects |-> Pods, vpa |-> "lenient"]

Auto     == {AutoSpec}
Recreate == {[AutoSpec EXCEPT !.mode = "Recreate"]}
InPlace  == {[AutoSpec EXCEPT !.mode = "InPlace"]}
DryRun   == {[AutoSpec EXCEPT !.dryRun = TRUE]}
Invalid  == {[AutoSpec EXCEPT !.valid = FALSE]}
Strict(m) == {[AutoSpec EXCEPT !.mode = m, !.vpa = "strict"]}

StrictInPlace        == Strict("InPlace")
StrictOffOrInvalid   == Strict("Off") \cup Invalid
RecreateInPlaceOrDry == Recreate \cup InPlace \cup DryRun

NoVpa       == {"none"}
NoneToRecommendingVpa == {"none", "conflict", "recommending"}
NoneOrConflictVpa == {"none", "conflict"}

\* A fault or a crash, but not both.
OneMishap == faults + crashes <= 1
=============================================================================
