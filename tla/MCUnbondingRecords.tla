------------------------- MODULE MCUnbondingRecords -------------------------
(* Instances of UnbondingRecords for TLC. *)
EXTENDS UnbondingRecords

CONSTANTS u1, u2
=============================================================================
