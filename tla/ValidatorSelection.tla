------------------------- MODULE ValidatorSelection -------------------------
(***************************************************************************)
(* How x/stakeibc spreads stake over the validators of one host zone: the  *)
(* weighted targets (GetTargetValAmtsForHostZone), the cascade that picks  *)
(* the validators an unbonding is taken from, and the pairing of surplus   *)
(* and deficit validators that a rebalancing is made of.  The loops of the *)
(* code are steps; what they are given is chosen in the initial state.     *)
(***************************************************************************)
EXTENDS Integers, Sequences, FiniteSets, SequencesExt, LegacyDec

CONSTANTS
    Validators,     \* addresses: numbers, so that they can break ties
    Weights,        \* validator weights
    Delegations,    \* recorded delegations
    UnbondAmounts,  \* totals of the queued unbonding records
    Slashed,        \* whether a SharesToTokensRate below one is possible
    SafetyDivisor   \* UndelegationSharesSafetyDivisor, 10^17 in the code

ASSUME SelectionAssumptions ==
    /\ Validators \subseteq Nat /\ IsFiniteSet(Validators)
    /\ Weights \subseteq Nat /\ Delegations \subseteq Nat
    /\ UnbondAmounts \subseteq Nat \ {0}
    /\ Slashed \subseteq BOOLEAN /\ SafetyDivisor \in Nat \ {0}

VARIABLES
    zone,       \* validators of the host zone
    request,    \* what is computed: an unbonding and its amount, or a rebalancing
    pc,         \* "ready", "looping", "submitted" or "error"
    targets,    \* weighted target of every eligible validator
    queue,      \* validators still to be visited, in order
    left,       \* unbonding: the amount left; rebalancing: the delta of each validator
    messages    \* the messages of the ICA, in order

vars == <<zone, request, pc, targets, queue, left, messages>>

Total(S, f) == SumFunctionOnSet(f, S)

\* Validators without a slash query in progress: the others take no part.
Eligible == {v \in Validators : ~zone[v].slashQueryInProgress}
WeightOf == [v \in Validators |-> zone[v].weight]
DelegationOf == [v \in Validators |-> zone[v].delegation]
TotalWeight == Total(Eligible, WeightOf)
ValidDelegation == Total(Eligible, DelegationOf)

\* Mutant of ByWeight: heaviest first, so that the remainder goes to the lightest.
ByWeightDescending(S) ==
    SetToSortSeq(S, LAMBDA a, b : \/ zone[a].weight > zone[b].weight
                                  \/ zone[a].weight = zone[b].weight /\ a < b)
ByWeight(S) ==
    SetToSortSeq(S, LAMBDA a, b : \/ zone[a].weight < zone[b].weight
                                  \/ zone[a].weight = zone[b].weight /\ a < b)

\* GetTargetValAmtsForHostZone fails on these inputs.
NoTargets(total) == total <= 0 \/ TotalWeight = 0

\* Every validator its share, rounded down; the last one what remains.
GetTargetValAmts(total) ==
    LET share == [v \in Eligible |-> (zone[v].weight * total) \div TotalWeight]
        last == Last(ByWeight(Eligible))
    IN  [share EXCEPT ![last] = total - Total(Eligible \ {last}, share)]

Init ==
    /\ zone \in [Validators -> [weight : Weights, delegation : Delegations,
                                slashQueryInProgress : BOOLEAN, slashed : Slashed]]
    /\ request \in [kind : {"unbond"}, amount : UnbondAmounts]
                     \cup {[kind |-> "rebalance", amount |-> 0]}
    /\ pc = "ready" /\ targets = <<>> /\ queue = <<>> /\ left = 0 /\ messages = <<>>

-----------------------------------------------------------------------------
(* Unbonding. *)

Capacity(v, balanced) == zone[v].delegation - balanced[v]

\* GetValidatorUnbondCapacity.  Mutant: a surplus of one token is none.
WithCapacityAboveOne(balanced) == {v \in Eligible : Capacity(v, balanced) > 1}
WithCapacity(balanced) == {v \in Eligible : Capacity(v, balanced) > 0}

\* SortUnbondingCapacityByPriority: the most unbalanced validator first.
Prioritized(balanced) ==
    LET ratio(v) == Quo(NewDecFromInt(balanced[v]), NewDecFromInt(zone[v].delegation))
        capacity(v) == Capacity(v, balanced)
    IN  SetToSortSeq(WithCapacity(balanced),
          LAMBDA a, b :
            \/ ratio(a) < ratio(b)
            \/ ratio(a) = ratio(b) /\ capacity(a) > capacity(b)
            \/ ratio(a) = ratio(b) /\ capacity(a) = capacity(b) /\ a < b)

\* applySharesRoundingSafety: draining a slashed validator leaves a buffer behind.
RoundingSafety(v, amount) ==
    LET share == amount \div SafetyDivisor
        buffer == IF share = 0 THEN 1 ELSE share
    IN  IF amount = zone[v].delegation /\ zone[v].slashed /\ buffer < amount
        THEN amount - buffer ELSE amount

UnbondAmount(v) ==
    LET capacity == Capacity(v, targets)
    IN  RoundingSafety(v, IF capacity < left THEN capacity ELSE left)

UnbondFromHostZone ==
    /\ pc = "ready" /\ request.kind = "unbond"
    /\ LET after == ValidDelegation - request.amount
       IN  IF NoTargets(after) \/ Prioritized(GetTargetValAmts(after)) = <<>>
           THEN pc' = "error" /\ UNCHANGED <<targets, queue, left>>
           ELSE /\ targets' = GetTargetValAmts(after)
                /\ queue' = Prioritized(targets')
                /\ left' = request.amount
                /\ pc' = "looping"
    /\ UNCHANGED <<zone, request, messages>>

GetUnbondingICAMessages ==
    /\ pc = "looping" /\ request.kind = "unbond"
    /\ IF left = 0 \/ queue = <<>>
       THEN /\ pc' = IF left = 0 THEN "submitted" ELSE "error"
            /\ UNCHANGED <<queue, left, messages>>
       ELSE LET v == Head(queue) IN
            /\ messages' = Append(messages, [validator |-> v, amount |-> UnbondAmount(v)])
            /\ left' = left - UnbondAmount(v)
            /\ queue' = Tail(queue)
            /\ pc' = pc
    /\ UNCHANGED <<zone, request, targets>>

-----------------------------------------------------------------------------
(* Rebalancing. *)

RebalanceDelegations ==
    /\ pc = "ready" /\ request.kind = "rebalance"
    /\ IF NoTargets(ValidDelegation)
       THEN pc' = "error" /\ UNCHANGED <<targets, queue, left>>
       ELSE LET target == GetTargetValAmts(ValidDelegation)
                delta == [v \in Eligible |-> zone[v].delegation - target[v]]
                changed == {v \in Eligible : delta[v] # 0}
            IN  /\ targets' = target
                /\ left' = delta
                /\ queue' = SetToSortSeq(changed,
                              LAMBDA a, b : \/ delta[a] > delta[b]
                                            \/ delta[a] = delta[b] /\ a < b)
                /\ pc' = IF Total(Eligible, delta) = 0 THEN "looping" ELSE "error"
    /\ UNCHANGED <<zone, request, messages>>

\* Mutant of Redelegation: all the destination lacks, whatever the source has.
RedelegationOfDeficit(src, dst) == -left[dst]
Redelegation(src, dst) == IF -left[dst] > left[src] THEN left[src] ELSE -left[dst]

\* What is left of the queue.  Mutant: both validators leave it.
StillUnbalancedNeither(src, dst, delta) == SelectSeq(queue, LAMBDA v : v \notin {src, dst})
StillUnbalanced(src, dst, delta) ==
    SelectSeq(queue, LAMBDA v : v \notin {src, dst} \/ delta[v] # 0)

\* One pass of the loop: the first validator of the queue has the largest surplus left,
\* the last one the largest deficit.  Those that become balanced leave the queue.
GetRebalanceICAMessages ==
    /\ pc = "looping" /\ request.kind = "rebalance"
    /\ IF queue = <<>> \/ left[Head(queue)] = 0 \/ left[Last(queue)] = 0
       THEN pc' = "submitted" /\ UNCHANGED <<queue, left, messages>>
       ELSE LET src == Head(queue)
                dst == Last(queue)
                amount == Redelegation(src, dst)
            IN  /\ messages' = Append(messages, [src |-> src, dst |-> dst, amount |-> amount])
                /\ left' = [left EXCEPT ![src] = @ - amount, ![dst] = @ + amount]
                /\ queue' = StillUnbalanced(src, dst, left')
                /\ pc' = pc
    /\ UNCHANGED <<zone, request, targets>>

Done == pc \in {"submitted", "error"} /\ UNCHANGED vars

Next ==
    \/ UnbondFromHostZone
    \/ GetUnbondingICAMessages
    \/ RebalanceDelegations
    \/ GetRebalanceICAMessages
    \/ Done

Spec == Init /\ [][Next]_vars

-----------------------------------------------------------------------------
(* Properties. *)

Computed == pc \in {"looping", "submitted"}

\* GetTargetValAmtsForHostZone hands out exactly the total it is given; no validator is
\* further from its exact share than the number of validators, and one without weight
\* gets nothing, whatever the order the validators are visited in.
TargetsProportional ==
    Computed =>
      LET total == ValidDelegation - request.amount
          Error(v) == targets[v] * TotalWeight - zone[v].weight * total
      IN  /\ Total(Eligible, targets) = total
          /\ \A v \in Eligible :
                /\ targets[v] >= 0
                /\ Error(v) > -TotalWeight
                /\ Error(v) < TotalWeight * Cardinality(Eligible)
                /\ zone[v].weight = 0 => targets[v] = 0

Unbonded(v) ==
    LET mine == SelectSeq(messages, LAMBDA m : m.validator = v)
    IN  FoldLeft(LAMBDA sum, m : sum + m.amount, 0, mine)

\* GetUnbondingICAMessages submits messages for exactly the amount of the records, and
\* takes no validator below its balanced delegation (so none is asked for more than it
\* has): "unbondings lead to a more balanced distribution of stake across validators".
\* UnbondFromHostZone refuses an unbonding only if no eligible validator has weight or they
\* hold no more than the amount: the capacities always cover it.  The exception is a zone
\* with a slashed validator, where the rounding buffers may eat the capacity.
UnbondingCovered ==
    request.kind = "unbond" =>
      /\ pc = "submitted" =>
            Total(Eligible, [v \in Eligible |-> Unbonded(v)]) = request.amount
      /\ Computed => \A v \in Eligible :
            Unbonded(v) > 0 => zone[v].delegation - Unbonded(v) >= targets[v]
      /\ pc = "error" => \/ TotalWeight = 0
                         \/ ValidDelegation <= request.amount
                         \/ \E v \in Eligible : zone[v].slashed

Outgoing(v) ==
    FoldLeft(LAMBDA sum, m : sum + m.amount, 0, SelectSeq(messages, LAMBDA m : m.src = v))
Incoming(v) ==
    FoldLeft(LAMBDA sum, m : sum + m.amount, 0, SelectSeq(messages, LAMBDA m : m.dst = v))

\* The redelegations of GetRebalanceICAMessages leave every eligible validator with its
\* target.
RebalanceReachesTargets ==
    (pc = "submitted" /\ request.kind = "rebalance") =>
      \A v \in Eligible : zone[v].delegation - Outgoing(v) + Incoming(v) = targets[v]

\* While the loop runs, no validator gives away more than it has, none is both the source
\* and the destination of redelegations (the host refuses to redelegate what was just
\* redelegated), and there are fewer messages than validators.
RebalanceAcceptable ==
    request.kind = "rebalance" =>
      /\ \A v \in Eligible : Outgoing(v) <= zone[v].delegation
      /\ {m.src : m \in Range(messages)} \cap {m.dst : m \in Range(messages)} = {}
      /\ messages # <<>> => Len(messages) < Cardinality(Eligible)
=============================================================================
