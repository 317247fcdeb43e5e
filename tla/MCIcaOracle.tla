----------------------------- MODULE MCIcaOracle -----------------------------
(* A small instance of IcaOracle.                                          *)
EXTENDS IcaOracle

MCUpdates == {1, 2}
=============================================================================
