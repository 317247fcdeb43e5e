----------------------------- MODULE MCStakeDym -----------------------------
(* A small instance of StakeDym.                                           *)
EXTENDS StakeDym

\* The outer bounds, and bounds that leave out the initial rate of 1.
MCInnerBounds == {<<50, 140>>, <<110, 140>>}
=============================================================================
