----------------------------- MODULE IcaBatches -----------------------------
(***************************************************************************)
(* How stakeibc spreads an amount over interchain-account transactions: it *)
(* builds one message per validator and submits them in batches of at most *)
(* MaxMessagesPerIcaTx.  The validator weights are abstracted: any split   *)
(* into positive parts is possible.                                        *)
(***************************************************************************)
EXTENDS Integers, FiniteSets

CONSTANT MaxBatches         \* ICA transactions per submission
ASSUME MaxBatchesAssumption == MaxBatches \in Nat \ {0}

Batches == 1..MaxBatches

\* Where the batches of an amount end: batch k carries the tokens from cut k - 1 to cut k.
\* The batches in use come first.
Cuts(amount) ==
    {c \in [0..MaxBatches -> 0..amount] :
        /\ c[0] = 0 /\ c[MaxBatches] = amount
        /\ \A j, k \in 0..MaxBatches : j <= k => c[j] <= c[k]
        /\ \A k \in 2..MaxBatches : c[k] > c[k - 1] => c[k - 1] > c[k - 2]}

\* The splits of an amount into batches: batch k carries f[k].
Splits(amount) == {[k \in Batches |-> c[k] - c[k - 1]] : c \in Cuts(amount)}

\* The number of transactions of a split.
Used(split) == Cardinality({k \in Batches : split[k] > 0})
=============================================================================
