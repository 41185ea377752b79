--------------------------- MODULE MCEpochRunner ---------------------------
(***************************************************************************)
(* Two runners for TLC, each on a home of its own, or both on one.         *)
(***************************************************************************)
EXTENDS EpochRunner

OwnHome == [r \in Runners |-> r]
OneHome == [r \in Runners |-> "home"]
=============================================================================
