-------------------------- MODULE MCDepositRecords --------------------------
(* Instances of DepositRecords for TLC.  A record that holds tokens holds at *)
(* least the smallest stake, and at most two more are empty: that many       *)
(* identifiers never run out.                                                *)
EXTENDS DepositRecords

FourIds == 1..4
=============================================================================
