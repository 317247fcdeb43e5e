------------------------ MODULE MCValidatorSelection ------------------------
(* Instances of ValidatorSelection for TLC. *)
EXTENDS ValidatorSelection
=============================================================================
