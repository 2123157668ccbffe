----------------------------- MODULE MCPodUpdater -----------------------------
(***************************************************************************)
(* Instances of PodUpdater for TLC.                                        *)
(***************************************************************************)
EXTENDS PodUpdater

Small == [c \in Containers |-> "small"]
=============================================================================
