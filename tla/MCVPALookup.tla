----------------------------- MODULE MCVPALookup -----------------------------
(***************************************************************************)
(* Instances of VPALookup for TLC.                                         *)
(***************************************************************************)
EXTENDS VPALookup

\* Of the VPAs for another workload, one in conflict is enough to be mistaken.
SomeVpas ==
    [target: {"mine"}, mode: {"unset", "Off", "Initial"},
     recs: {"absent", "empty", "some"}]
      \cup [target: {"other"}, mode: {"Off", "Auto"}, recs: {"some"}]
      \cup [target: {"missing"}, mode: {"Recreate"}, recs: {"some"}]

Policy(enabled, strict, by) == [enabled |-> enabled, strict |-> strict, by |-> by, name |-> 1]

\* By target and by name, strict and lenient; nothing to look for; disabled.
SomePolicies ==
    {Policy(TRUE, TRUE, "target"), Policy(TRUE, FALSE, "target"),
     Policy(TRUE, TRUE, "name"), Policy(TRUE, FALSE, "nothing"), Policy(FALSE, TRUE, "target")}
=============================================================================
