------------------------- MODULE MCLSMTokenDeposits -------------------------
(* Instances of LSMTokenDeposits for TLC. *)
EXTENDS LSMTokenDeposits

CONSTANTS u1, v1, v2, d1, d2

\* Two tokens of a validator without delegations (it may be deleted), which the staker
\* holds; another validator has the delegations that the checkpoint is a share of.
MCValidatorOf == [d \in Denoms |-> v1]
MCDelegation == [v \in Validators |-> IF v = v1 THEN 0 ELSE 8]
MCBalance == [u \in Stakers |-> [d \in Denoms |-> IF d = d1 THEN 4 ELSE 2]]
=============================================================================
