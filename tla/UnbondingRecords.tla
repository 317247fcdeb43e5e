-------------------------- MODULE UnbondingRecords --------------------------
(***************************************************************************)
(* The redemption side of x/stakeibc and x/records for one host zone: what *)
(* happens from MsgRedeemStake until the native tokens are paid out.       *)
(*                                                                         *)
(*   UNBONDING_QUEUE -> UNBONDING_IN_PROGRESS     (undelegate ICAs)        *)
(*                   -> UNBONDING_RETRY_QUEUE     (a batch failed)         *)
(*                   -> EXIT_TRANSFER_QUEUE       (all unbonded, burned)   *)
(*                   -> EXIT_TRANSFER_IN_PROGRESS (sweep ICA)              *)
(*                   -> CLAIMABLE -> removed      (claims, cleanup)        *)
(*                                                                         *)
(* A HostZoneUnbonding gathers the redemptions of one day epoch; a         *)
(* UserRedemptionRecord is one receiver's part of it.                      *)
(***************************************************************************)
EXTENDS Integers, FiniteSets, Sequences, Functions, LegacyDec, IcaBatches

CONSTANTS
    MaxDays,            \* day epochs in which users redeem; later records stay empty
    Users,              \* receivers of redemptions
    InitialStake,       \* native tokens delegated at the start
    UserStTokens,       \* stTokens each user holds at the start
    RedeemAmounts,      \* amounts of MsgRedeemStake
    Rates,              \* redemption rates (LegacyDec) UpdateRedemptionRates may set
    UnbondingFrequency, \* HostZone.GetUnbondingFrequency, in day epochs
    UnbondingPeriod,    \* unbonding period of the host, in ticks
    MaxFaults,          \* bound on failures, timeouts, halts and rate changes
    AcksBeforeClose,    \* TRUE: no ICA times out while an executed one awaits its ack
    AcksBeforeMaturity, \* TRUE: a submission is acknowledged or times out before the
                        \* unbonding period of its first batch is over
    OldPackets          \* "cleared": a closed channel is restored once its ICAs timed
                        \* out; "dropped": ICAs still unrelayed then never are

Days == 1..MaxDays

ASSUME UnbondingAssumptions ==
    /\ {MaxDays, InitialStake, UserStTokens, MaxFaults} \subseteq Nat
    /\ {UnbondingFrequency, UnbondingPeriod} \subseteq Nat \ {0}
    /\ RedeemAmounts \subseteq Nat \ {0}
    /\ Rates \subseteq Nat \ {0} /\ Precision \in Rates
    /\ IsFiniteSet(Users)
    /\ {AcksBeforeClose, AcksBeforeMaturity} \subseteq BOOLEAN
    /\ OldPackets \in {"cleared", "dropped"}

VARIABLES
    day, phase,         \* day epoch tracker, up to MaxDays + 1; day number modulo frequency
    halted,             \* HostZone.Halted
    redemptionRate,     \* HostZone.RedemptionRate
    totalDelegations,   \* HostZone.TotalDelegations
    hostZoneUnbondings, \* by day
    userRedemptions,    \* user redemption records, by day and user
    stTokens,           \* stTokens of the users
    escrow,             \* stTokens in the deposit account
    packets,            \* undelegate and sweep ICAs on the delegation channel, in order
    channel,            \* delegation ICA channel
    claims,             \* claim ICAs, by day and user
    claimChannel,       \* redemption ICA channel
    staked,             \* delegated on the host
    unbonding,          \* unbonding on the host, by ticks left
    delegationBalance,  \* unbonded tokens in the delegation account
    redemptionBalance,  \* balance of the redemption account
    paid,               \* paid out of the redemption account, by day and user
    faults

zoneVars   == <<halted, redemptionRate>>
epochVars  == <<day, phase>>
stVars     == <<stTokens, escrow>>
hostVars   == <<staked, unbonding, delegationBalance>>
claimVars  == <<claims, claimChannel, paid>>
vars == <<epochVars, zoneVars, totalDelegations, hostZoneUnbondings, userRedemptions,
          stVars, packets, channel, claimVars, hostVars, redemptionBalance, faults>>

Statuses == {"NONE", "UNBONDING_QUEUE", "UNBONDING_IN_PROGRESS", "UNBONDING_RETRY_QUEUE",
             "EXIT_TRANSFER_QUEUE", "EXIT_TRANSFER_IN_PROGRESS", "CLAIMABLE"}

\* UnbondingTime as the ticks left until then: Passed once the host's clock is beyond
\* it, Unset (the zero of the code) before the first undelegation is acknowledged.
Passed == -1
Unset == -2

NewHostZoneUnbonding ==
    [status |-> "UNBONDING_QUEUE", stTokenAmount |-> 0, nativeTokenAmount |-> 0,
     stTokensToBurn |-> 0, nativeTokensToUnbond |-> 0, claimableNativeTokens |-> 0,
     txs |-> 0, unbondingTime |-> Unset]
NoHostZoneUnbonding == [NewHostZoneUnbonding EXCEPT !.status = "NONE"]
NoUserRedemption ==
    [exists |-> FALSE, stTokenAmount |-> 0, nativeTokenAmount |-> 0, claimIsPending |-> FALSE]

Sum(S, f(_)) == SumFunctionOnSet([x \in S |-> f(x)], S)
WithStatus(S) == {d \in Days : hostZoneUnbondings[d].status \in S}

Init ==
    /\ day = 1 /\ phase = 1 % UnbondingFrequency
    /\ halted = FALSE /\ redemptionRate = Precision
    /\ totalDelegations = InitialStake /\ staked = InitialStake
    /\ hostZoneUnbondings = [d \in Days |-> IF d = 1 THEN NewHostZoneUnbonding
                                            ELSE NoHostZoneUnbonding]
    /\ userRedemptions = [d \in Days |-> [u \in Users |-> NoUserRedemption]]
    /\ stTokens = [u \in Users |-> UserStTokens] /\ escrow = 0
    /\ packets = <<>> /\ channel = "open"
    /\ claims = [d \in Days |-> [u \in Users |-> "none"]] /\ claimChannel = "open"
    /\ paid = [d \in Days |-> [u \in Users |-> 0]]
    /\ unbonding = [t \in 1..UnbondingPeriod |-> 0]
    /\ delegationBalance = 0 /\ redemptionBalance = 0
    /\ faults = 0

Fault == faults < MaxFaults /\ faults' = faults + 1
-----------------------------------------------------------------------------
(* Messages on Stride                                                      *)

ToNative(stAmount) == TruncateInt(Mul(NewDecFromInt(stAmount), redemptionRate))

\* MsgRedeemStake.  Redemptions are enabled and the rates of Rates are the safe ones.
RedeemStake(u, amount) ==
    LET nativeAmount == ToNative(amount)
    IN  /\ ~halted
        /\ nativeAmount > 0 /\ nativeAmount <= totalDelegations
        /\ day \in Days /\ hostZoneUnbondings[day].status # "NONE"
        /\ stTokens[u] >= amount
        /\ userRedemptions' = [userRedemptions EXCEPT ![day][u] =
              [exists |-> TRUE, claimIsPending |-> userRedemptions[day][u].claimIsPending,
               stTokenAmount |-> userRedemptions[day][u].stTokenAmount + amount,
               nativeTokenAmount |-> userRedemptions[day][u].nativeTokenAmount + nativeAmount]]
        /\ hostZoneUnbondings' = [hostZoneUnbondings EXCEPT ![day] =
              [@ EXCEPT !.stTokenAmount = @ + amount, !.nativeTokenAmount = @ + nativeAmount]]
        /\ stTokens' = [stTokens EXCEPT ![u] = @ - amount]
        /\ escrow' = escrow + amount
        /\ UNCHANGED <<epochVars, zoneVars, totalDelegations, packets, channel, claimVars,
                       hostVars, redemptionBalance, faults>>

\* MsgClaimUndelegatedTokens.  Mutant: a claim that is pending does not count.
ClaimUndelegatedTokensAgain(d, u) ==
    /\ userRedemptions[d][u].exists
    /\ hostZoneUnbondings[d].status = "CLAIMABLE"
    /\ ~halted
    /\ claimChannel = "open"
    /\ claims' = [claims EXCEPT ![d][u] = "sent"]
    /\ userRedemptions' = [userRedemptions EXCEPT ![d][u].claimIsPending = TRUE]
    /\ UNCHANGED <<epochVars, zoneVars, totalDelegations, hostZoneUnbondings, stVars, packets,
                   channel, claimChannel, paid, hostVars, redemptionBalance, faults>>
ClaimUndelegatedTokens(d, u) ==
    /\ userRedemptions[d][u].exists
    /\ hostZoneUnbondings[d].status = "CLAIMABLE"
    /\ ~userRedemptions[d][u].claimIsPending
    /\ ~halted
    /\ claimChannel = "open"
    /\ claims' = [claims EXCEPT ![d][u] = "sent"]
    /\ userRedemptions' = [userRedemptions EXCEPT ![d][u].claimIsPending = TRUE]
    /\ UNCHANGED <<epochVars, zoneVars, totalDelegations, hostZoneUnbondings, stVars, packets,
                   channel, claimChannel, paid, hostVars, redemptionBalance, faults>>

\* BeginBlocker or MsgDeprecateHostZone, and MsgResumeHostZone.
SetHalted(value) ==
    /\ halted # value /\ halted' = value
    /\ IF value THEN Fault ELSE UNCHANGED faults
    /\ UNCHANGED <<epochVars, redemptionRate, totalDelegations, hostZoneUnbondings,
                   userRedemptions, stVars, packets, channel, claimVars, hostVars,
                   redemptionBalance>>
-----------------------------------------------------------------------------
(* Day epoch: InitiateAllHostZoneUnbondings, CleanupEpochUnbondingRecords, *)
(* CreateEpochUnbondingRecord                                              *)

\* ShouldInitiateUnbonding and ShouldRetryUnbonding.  Mutant: a retry does not wait for
\* the batches in flight.
QueuedInFlight == {d \in WithStatus({"UNBONDING_QUEUE", "UNBONDING_RETRY_QUEUE"}) :
                      hostZoneUnbondings[d].stTokenAmount > 0}
Queued == {d \in WithStatus({"UNBONDING_QUEUE", "UNBONDING_RETRY_QUEUE"}) :
              /\ hostZoneUnbondings[d].stTokenAmount > 0
              /\ hostZoneUnbondings[d].status = "UNBONDING_RETRY_QUEUE"
                    => hostZoneUnbondings[d].txs = 0}

\* RefreshUnbondingNativeTokenAmounts: records that never were submitted take the
\* native amounts of today's redemption rate.
ToRefresh == {d \in Queued : hostZoneUnbondings[d].status = "UNBONDING_QUEUE"}
RefreshedRedemptions ==
    [d \in Days |-> [u \in Users |->
        IF d \in ToRefresh /\ userRedemptions[d][u].exists
        THEN [userRedemptions[d][u] EXCEPT
                 !.nativeTokenAmount = ToNative(userRedemptions[d][u].stTokenAmount)]
        ELSE userRedemptions[d][u]]]
\* Mutant: the record is converted as a whole, not as the sum of its redemptions.
RefreshedAsWhole ==
    [d \in Days |->
        IF d \in ToRefresh
        THEN LET total == ToNative(hostZoneUnbondings[d].stTokenAmount)
             IN  [hostZoneUnbondings[d] EXCEPT
                     !.nativeTokenAmount = total, !.nativeTokensToUnbond = total,
                     !.stTokensToBurn = hostZoneUnbondings[d].stTokenAmount]
        ELSE hostZoneUnbondings[d]]
Refreshed ==
    [d \in Days |->
        IF d \in ToRefresh
        THEN LET total == Sum({u \in Users : userRedemptions[d][u].exists},
                              LAMBDA u : RefreshedRedemptions[d][u].nativeTokenAmount)
             IN  [hostZoneUnbondings[d] EXCEPT
                     !.nativeTokenAmount = total, !.nativeTokensToUnbond = total,
                     !.stTokensToBurn = hostZoneUnbondings[d].stTokenAmount]
        ELSE hostZoneUnbondings[d]]

UndelegatePacket(amount) ==
    [kind |-> "undelegate", ids |-> Queued, amount |-> amount, state |-> "sent",
     completion |-> Unset]

\* The records and packets after UnbondFromHostZone with the given split; an empty split
\* stands for "nothing to unbond" (the refresh stays), an error discards everything.
\* Mutant: the submission counts as one transaction.
UnbondedInOne(split) ==
    [d \in Days |->
        IF d \in Queued /\ split[1] > 0
        THEN [Refreshed[d] EXCEPT !.status = "UNBONDING_IN_PROGRESS", !.txs = @ + 1]
        ELSE Refreshed[d]]
Unbonded(split) ==
    [d \in Days |->
        IF d \in Queued /\ split[1] > 0
        THEN [Refreshed[d] EXCEPT !.status = "UNBONDING_IN_PROGRESS", !.txs = @ + Used(split)]
        ELSE Refreshed[d]]
UndelegatePackets(split) == [k \in 1..Used(split) |-> UndelegatePacket(split[k])]

\* Claimed records disappear, and the new day gets an empty one.
CleanedUpAndCreated(records) ==
    [d \in Days |->
        IF d = day + 1 /\ ~halted THEN NewHostZoneUnbonding
        ELSE IF records[d].status = "CLAIMABLE" /\ records[d].claimableNativeTokens = 0
        THEN NoHostZoneUnbonding
        ELSE records[d]]

DayEpoch(ok) ==
    LET total == Sum(Queued, LAMBDA d : Refreshed[d].nativeTokensToUnbond)
        nextPhase == (phase + 1) % UnbondingFrequency
        due == ~halted /\ nextPhase = 0
        canSubmit == ok /\ channel = "open" /\ totalDelegations - total > 0
    IN  /\ day' = IF day \in Days THEN day + 1 ELSE day
        /\ phase' = nextPhase
        /\ IF due /\ (total = 0 \/ canSubmit)
           THEN \E split \in Splits(total) :
                   /\ hostZoneUnbondings' = CleanedUpAndCreated(Unbonded(split))
                   /\ packets' = packets \o UndelegatePackets(split)
                   /\ userRedemptions' = RefreshedRedemptions
           ELSE /\ hostZoneUnbondings' = CleanedUpAndCreated(hostZoneUnbondings)
                /\ UNCHANGED <<packets, userRedemptions>>
        /\ IF ok THEN UNCHANGED faults ELSE Fault
        /\ UNCHANGED <<zoneVars, totalDelegations, stVars, channel, claimVars, hostVars,
                       redemptionBalance>>
-----------------------------------------------------------------------------
(* Stride epoch: a new redemption rate, and SweepUnbondedTokensForHostZone *)

SweepPacket(ids) ==
    [kind |-> "sweep", ids |-> ids, state |-> "sent", completion |-> Unset,
     amount |-> Sum(ids, LAMBDA d : hostZoneUnbondings[d].nativeTokenAmount)]

\* Mutant: the unbonding time is not waited for.
SweepableAtOnce == WithStatus({"EXIT_TRANSFER_QUEUE"})
Sweepable == {d \in WithStatus({"EXIT_TRANSFER_QUEUE"}) :
                 hostZoneUnbondings[d].unbondingTime = Passed}

SetStatus(records, ids, status) ==
    [d \in Days |-> IF d \in ids THEN [records[d] EXCEPT !.status = status] ELSE records[d]]

StrideEpoch(rate, ok) ==
    LET packet == SweepPacket(Sweepable)
    IN  /\ redemptionRate' = IF halted THEN redemptionRate ELSE rate
        /\ IF ~halted /\ ok /\ channel = "open" /\ packet.amount > 0
           THEN /\ packets' = Append(packets, packet)
                /\ hostZoneUnbondings' =
                      SetStatus(hostZoneUnbondings, Sweepable, "EXIT_TRANSFER_IN_PROGRESS")
           ELSE UNCHANGED <<packets, hostZoneUnbondings>>
        /\ IF ok /\ rate = redemptionRate THEN UNCHANGED faults ELSE Fault
        /\ UNCHANGED <<epochVars, halted, totalDelegations, userRedemptions, stVars, channel,
                       claimVars, hostVars, redemptionBalance>>
-----------------------------------------------------------------------------
(* The host zone                                                           *)

\* A tick of the host's clock: what has finished unbonding becomes liquid.
Tick ==
    LET older(left) == IF left >= 0 THEN left - 1 ELSE left
    IN  /\ AcksBeforeMaturity => \A n \in DOMAIN packets : packets[n].kind = "undelegate" =>
              /\ packets[n].completion # 0
              /\ \A d \in packets[n].ids : hostZoneUnbondings[d].unbondingTime # 0
        /\ unbonding' = [t \in 1..UnbondingPeriod |->
                            IF t < UnbondingPeriod THEN unbonding[t + 1] ELSE 0]
        /\ delegationBalance' = delegationBalance + unbonding[1]
        /\ hostZoneUnbondings' = [d \in Days |->
              [hostZoneUnbondings[d] EXCEPT !.unbondingTime = older(@)]]
        /\ packets' = [n \in DOMAIN packets |-> [packets[n] EXCEPT !.completion = older(@)]]
        /\ UNCHANGED <<epochVars, zoneVars, totalDelegations, userRedemptions, stVars, channel,
                       claimVars, staked, redemptionBalance, faults>>

\* The ICAs of the ordered channel are executed in order.
HostExecutes(n) ==
    LET p == packets[n]
        enough == IF p.kind = "undelegate" THEN staked >= p.amount
                  ELSE delegationBalance >= p.amount
    IN  /\ channel = "open" /\ p.state = "sent"
        /\ \A m \in 1..(n - 1) : packets[m].state # "sent"
        /\ \/ /\ enough /\ p.kind = "undelegate"
              /\ packets' = [packets EXCEPT ![n].state = "success",
                                            ![n].completion = UnbondingPeriod]
              /\ staked' = staked - p.amount
              /\ unbonding' = [unbonding EXCEPT ![UnbondingPeriod] = @ + p.amount]
              /\ UNCHANGED <<delegationBalance, redemptionBalance, faults>>
           \/ /\ enough /\ p.kind = "sweep"
              /\ packets' = [packets EXCEPT ![n].state = "success"]
              /\ delegationBalance' = delegationBalance - p.amount
              /\ redemptionBalance' = redemptionBalance + p.amount
              /\ UNCHANGED <<staked, unbonding, faults>>
           \/ /\ packets' = [packets EXCEPT ![n].state = "failure"]
              /\ IF enough THEN Fault ELSE UNCHANGED faults
              /\ UNCHANGED <<hostVars, redemptionBalance>>
        /\ UNCHANGED <<epochVars, zoneVars, totalDelegations, hostZoneUnbondings,
                       userRedemptions, stVars, channel, claimVars>>

HostExecutesClaim(d, u) ==
    LET amount == userRedemptions[d][u].nativeTokenAmount
    IN  /\ claimChannel = "open" /\ claims[d][u] = "sent"
        /\ \/ /\ redemptionBalance >= amount /\ amount > 0
              /\ claims' = [claims EXCEPT ![d][u] = "success"]
              /\ redemptionBalance' = redemptionBalance - amount
              /\ paid' = [paid EXCEPT ![d][u] = @ + amount]
              /\ UNCHANGED faults
           \/ /\ claims' = [claims EXCEPT ![d][u] = "failure"]
              /\ IF redemptionBalance >= amount /\ amount > 0 THEN Fault ELSE UNCHANGED faults
              /\ UNCHANGED <<redemptionBalance, paid>>
        /\ UNCHANGED <<epochVars, zoneVars, totalDelegations, hostZoneUnbondings,
                       userRedemptions, stVars, packets, channel, claimChannel, hostVars>>
-----------------------------------------------------------------------------
(* ICA callbacks of the delegation channel                                 *)

\* UpdateHostZoneUnbondingsAfterUndelegation: the unbonded amount cascades over the
\* records of the batch, earliest first; one completed before is skipped.
Completed(d) == hostZoneUnbondings[d].status = "EXIT_TRANSFER_QUEUE"
UnbondedFrom(d, p) ==
    LET toUnbond(e) == hostZoneUnbondings[e].nativeTokensToUnbond
        before == Sum({e \in p.ids : e < d /\ ~Completed(e)}, toUnbond)
        left == IF p.amount > before THEN p.amount - before ELSE 0
    IN  IF toUnbond(d) < left THEN toUnbond(d) ELSE left
StTokensBurnedFrom(d, p) ==
    LET r == hostZoneUnbondings[d]
        impliedRate == Quo(NewDecFromInt(r.nativeTokenAmount), NewDecFromInt(r.stTokenAmount))
    IN  IF UnbondedFrom(d, p) = r.nativeTokensToUnbond THEN r.stTokensToBurn
        ELSE TruncateInt(Quo(NewDecFromInt(UnbondedFrom(d, p)), impliedRate))

AfterUndelegation(d, p) ==
    LET r == hostZoneUnbondings[d]
        native == r.nativeTokensToUnbond - UnbondedFrom(d, p)
        burn == r.stTokensToBurn - StTokensBurnedFrom(d, p)
    IN  [r EXCEPT !.nativeTokensToUnbond = native, !.stTokensToBurn = burn,
                  !.status = IF native = 0 /\ burn = 0 THEN "EXIT_TRANSFER_QUEUE" ELSE @,
                  !.unbondingTime = IF p.completion > @ THEN p.completion ELSE @]

\* MarkUndelegationAckReceived.
Acked(p) == [d \in Days |-> IF d \in p.ids THEN [hostZoneUnbondings[d] EXCEPT !.txs = @ - 1]
                            ELSE hostZoneUnbondings[d]]

\* HandleFailedUndelegation: the records to retry.  Mutant: also the completed ones.
RetriedAnyway(p) == p.ids
Retried(p) == p.ids \cap WithStatus({"UNBONDING_IN_PROGRESS"})

\* UndelegateCallback; without the records or their counters it returns an error.
UndelegateCallback(p, status) ==
    LET touched == {d \in p.ids : ~Completed(d)}
        burned == Sum(touched, LAMBDA d : StTokensBurnedFrom(d, p))
    IN  /\ \A d \in p.ids : hostZoneUnbondings[d].status # "NONE" /\ hostZoneUnbondings[d].txs # 0
        /\ \/ /\ status = "timeout" /\ hostZoneUnbondings' = Acked(p)
              /\ UNCHANGED <<totalDelegations, escrow>>
           \/ /\ status = "failure"
              /\ hostZoneUnbondings' = SetStatus(Acked(p), Retried(p), "UNBONDING_RETRY_QUEUE")
              /\ UNCHANGED <<totalDelegations, escrow>>
           \/ /\ status = "success" /\ totalDelegations >= p.amount /\ escrow >= burned
              /\ hostZoneUnbondings' = [d \in Days |->
                    IF d \in touched THEN [AfterUndelegation(d, p) EXCEPT !.txs = @ - 1]
                    ELSE Acked(p)[d]]
              /\ totalDelegations' = totalDelegations - p.amount
              /\ escrow' = escrow - burned

\* RedemptionCallback.
RedemptionCallback(p, status) ==
    /\ \/ status = "timeout" /\ UNCHANGED hostZoneUnbondings
       \/ /\ status = "failure"
          /\ \A d \in p.ids : hostZoneUnbondings[d].status # "NONE"
          /\ hostZoneUnbondings' = SetStatus(hostZoneUnbondings, p.ids, "EXIT_TRANSFER_QUEUE")
       \/ /\ status = "success"
          /\ \A d \in p.ids : hostZoneUnbondings[d].status # "NONE"
          /\ hostZoneUnbondings' = [d \in Days |->
                IF d \in p.ids
                THEN [hostZoneUnbondings[d] EXCEPT !.status = "CLAIMABLE",
                         !.claimableNativeTokens = hostZoneUnbondings[d].nativeTokenAmount]
                ELSE hostZoneUnbondings[d]]
    /\ UNCHANGED <<totalDelegations, escrow>>

Callback(p, status) ==
    \/ p.kind = "undelegate" /\ UndelegateCallback(p, status)
    \/ p.kind = "sweep" /\ RedemptionCallback(p, status)

Without(n) == SubSeq(packets, 1, n - 1) \o SubSeq(packets, n + 1, Len(packets))

\* Acknowledgements of the ordered channel arrive in order.
PacketAcknowledged ==
    /\ channel = "open" /\ packets # <<>> /\ Head(packets).state # "sent"
    /\ Callback(Head(packets), Head(packets).state)
    /\ packets' = Tail(packets)
    /\ UNCHANGED <<epochVars, zoneVars, userRedemptions, stTokens, channel, claimVars,
                   hostVars, redemptionBalance, faults>>

MayClose == AcksBeforeClose => \A n \in DOMAIN packets : packets[n].state = "sent"

\* A timeout closes an open channel; on a closed one it only clears the packet.
PacketTimedOut(n) ==
    /\ packets[n].state = "sent"
    /\ \/ channel = "open" /\ MayClose /\ Fault
       \/ channel = "closed" /\ UNCHANGED faults
    /\ channel' = "closed"
    /\ Callback(packets[n], "timeout")
    /\ packets' = Without(n)
    /\ UNCHANGED <<epochVars, zoneVars, userRedemptions, stTokens, claimVars, hostVars,
                   redemptionBalance>>

\* Another ICA of the delegation channel times out.
DelegationChannelCloses ==
    /\ channel = "open" /\ MayClose /\ Fault
    /\ channel' = "closed"
    /\ UNCHANGED <<epochVars, zoneVars, totalDelegations, hostZoneUnbondings, userRedemptions,
                   stVars, packets, claimVars, hostVars, redemptionBalance>>

\* MsgRestoreInterchainAccount for the delegation account.  Mutant: sweeps are forgotten.
RestoredUnswept(r) ==
    [r EXCEPT !.txs = 0,
              !.status = IF @ = "UNBONDING_IN_PROGRESS" THEN "UNBONDING_RETRY_QUEUE" ELSE @]
Restored(r) ==
    [r EXCEPT !.txs = 0,
              !.status = CASE @ = "UNBONDING_IN_PROGRESS" -> "UNBONDING_RETRY_QUEUE"
                           [] @ = "EXIT_TRANSFER_IN_PROGRESS" -> "EXIT_TRANSFER_QUEUE"
                           [] OTHER -> @]

RestoreInterchainAccount ==
    /\ channel = "closed"
    /\ OldPackets = "cleared" => \A n \in DOMAIN packets : packets[n].state # "sent"
    /\ channel' = "handshake"
    /\ packets' = <<>>
    /\ hostZoneUnbondings' = [d \in Days |-> Restored(hostZoneUnbondings[d])]
    /\ UNCHANGED <<epochVars, zoneVars, totalDelegations, userRedemptions, stVars, claimVars,
                   hostVars, redemptionBalance, faults>>

OnChanOpenAck ==
    /\ channel = "handshake" /\ channel' = "open"
    /\ UNCHANGED <<epochVars, zoneVars, totalDelegations, hostZoneUnbondings, userRedemptions,
                   stVars, packets, claimVars, hostVars, redemptionBalance, faults>>
-----------------------------------------------------------------------------
(* ICA callback of a claim, on the redemption channel                      *)

ClaimCallback(d, u, status) ==
    LET record == userRedemptions[d][u]
    IN  /\ record.exists
        /\ IF status = "success"
           THEN /\ hostZoneUnbondings[d].status # "NONE"
                /\ userRedemptions' = [userRedemptions EXCEPT ![d][u] = NoUserRedemption]
                /\ hostZoneUnbondings' = [hostZoneUnbondings EXCEPT ![d].claimableNativeTokens =
                      @ - record.nativeTokenAmount]
           ELSE /\ userRedemptions' = [userRedemptions EXCEPT ![d][u].claimIsPending = FALSE]
                /\ UNCHANGED hostZoneUnbondings
        /\ claims' = [claims EXCEPT ![d][u] = "none"]
        /\ UNCHANGED <<epochVars, zoneVars, totalDelegations, stVars, packets, channel, paid,
                       hostVars, redemptionBalance>>

ClaimAcknowledged(d, u) ==
    /\ claimChannel = "open" /\ claims[d][u] \in {"success", "failure"}
    /\ ClaimCallback(d, u, claims[d][u])
    /\ UNCHANGED <<claimChannel, faults>>

ClaimTimedOut(d, u) ==
    /\ claims[d][u] = "sent"
    /\ \/ /\ claimChannel = "open" /\ Fault
          /\ AcksBeforeClose => \A e \in Days, v \in Users : claims[e][v] \in {"none", "sent"}
       \/ claimChannel = "closed" /\ UNCHANGED faults
    /\ claimChannel' = "closed"
    /\ ClaimCallback(d, u, "timeout")

\* MsgRestoreInterchainAccount for the redemption account resets no record: a claim that
\* was neither acknowledged nor timed out before stays pending.  The handshake is skipped.
RestoreRedemptionAccount ==
    /\ claimChannel = "closed"
    /\ OldPackets = "cleared" => \A d \in Days, u \in Users : claims[d][u] # "sent"
    /\ claimChannel' = "open"
    /\ claims' = [d \in Days |-> [u \in Users |-> IF claims[d][u] = "none" THEN "none" ELSE "lost"]]
    /\ UNCHANGED <<epochVars, zoneVars, totalDelegations, hostZoneUnbondings, userRedemptions,
                   stVars, packets, channel, paid, hostVars, redemptionBalance, faults>>
-----------------------------------------------------------------------------
HostStep == \E n \in DOMAIN packets : HostExecutes(n)
TimeoutStep == \E n \in DOMAIN packets : PacketTimedOut(n)
ClaimStep(d, u) ==
    \/ ClaimUndelegatedTokens(d, u) \/ HostExecutesClaim(d, u)
    \/ ClaimAcknowledged(d, u) \/ ClaimTimedOut(d, u)

Next ==
    \/ \E u \in Users, amount \in RedeemAmounts : RedeemStake(u, amount)
    \/ \E d \in Days, u \in Users : ClaimStep(d, u)
    \/ \E b \in BOOLEAN : SetHalted(b) \/ DayEpoch(b)
    \/ \E rate \in Rates, ok \in BOOLEAN : StrideEpoch(rate, ok)
    \/ Tick \/ HostStep \/ PacketAcknowledged \/ TimeoutStep
    \/ DelegationChannelCloses \/ RestoreInterchainAccount \/ OnChanOpenAck
    \/ RestoreRedemptionAccount

Spec == Init /\ [][Next]_vars

\* Time passes and epochs keep coming, relayers relay, a closed channel is restored.
Fairness ==
    /\ WF_vars(Tick) /\ WF_vars(DayEpoch(TRUE)) /\ WF_vars(StrideEpoch(redemptionRate, TRUE))
    /\ WF_vars(HostStep) /\ WF_vars(PacketAcknowledged)
    /\ WF_vars(channel = "closed" /\ TimeoutStep)
    /\ WF_vars(RestoreInterchainAccount) /\ WF_vars(OnChanOpenAck)

FairSpec == Spec /\ Fairness
-----------------------------------------------------------------------------
(* Properties                                                              *)

PacketSum(kind, states) ==
    Sum({n \in DOMAIN packets : packets[n].kind = kind /\ packets[n].state \in states},
        LAMBDA n : packets[n].amount)

\* The escrowed stTokens are those of the queued redemptions plus those still to burn:
\* each undelegated batch burns its part, no stToken is burned twice or left behind.
EscrowExact ==
    escrow = Sum(WithStatus({"UNBONDING_QUEUE"}), LAMBDA d : hostZoneUnbondings[d].stTokenAmount)
           + Sum(WithStatus(Statuses \ {"NONE", "UNBONDING_QUEUE"}),
                 LAMBDA d : hostZoneUnbondings[d].stTokensToBurn)

\* The cascade and the rounding of the implied rate never overdraw a record.
AmountsInRange ==
    \A d \in Days : LET r == hostZoneUnbondings[d] IN
        /\ r.stTokensToBurn \in 0..r.stTokenAmount
        /\ r.nativeTokensToUnbond \in 0..r.nativeTokenAmount
        /\ r.claimableNativeTokens \in 0..r.nativeTokenAmount

\* A record's native amount is the sum over its redemptions, and once it is claimable so
\* is what remains to claim: the last claimer is not short.
NativeAmountsAddUp ==
    \A d \in WithStatus(Statuses \ {"NONE"}) :
        LET owed == Sum(Users, LAMBDA u : userRedemptions[d][u].nativeTokenAmount)
            r == hostZoneUnbondings[d]
        IN  owed = IF r.status = "CLAIMABLE" THEN r.claimableNativeTokens ELSE r.nativeTokenAmount

\* Cleanup never removes a record somebody can still claim from.
NoOrphanedRedemption ==
    \A d \in Days, u \in Users :
        userRedemptions[d][u].nativeTokenAmount > 0 => hostZoneUnbondings[d].status # "NONE"

\* The three ledgers of a redemption agree, over RedeemStake, the daily refresh, the cascade
\* of the undelegation callback, the claims and the cleanup: the user redemption records,
\* the host zone unbonding records and the escrowed stTokens.
RedemptionsAddUp ==
    EscrowExact /\ AmountsInRange /\ NativeAmountsAddUp /\ NoOrphanedRedemption

\* UndelegationTxsInProgress counts the undelegate ICAs of a record in flight.
UndelegationTxsExact ==
    \A d \in Days : hostZoneUnbondings[d].txs =
        Cardinality({n \in DOMAIN packets : packets[n].kind = "undelegate" /\ d \in packets[n].ids})

\* What was undelegated on the host is what the records say was unbonded and not yet swept:
\* nothing is undelegated twice, over failed batches, retries and restores.
UnbondedTokensTracked ==
    /\ staked + PacketSum("undelegate", {"success"}) = totalDelegations
    /\ SumFunction(unbonding) + delegationBalance + PacketSum("sweep", {"success"})
          = PacketSum("undelegate", {"success"})
          + Sum(WithStatus({"UNBONDING_IN_PROGRESS", "UNBONDING_RETRY_QUEUE",
                            "EXIT_TRANSFER_QUEUE", "EXIT_TRANSFER_IN_PROGRESS"}),
                LAMBDA d : hostZoneUnbondings[d].nativeTokenAmount
                           - hostZoneUnbondings[d].nativeTokensToUnbond)

\* A sweep never spends more than what has finished unbonding (the delegation account also
\* holds deposits to be staked, which a premature sweep would take), and the redemption
\* account holds exactly what can still be claimed, but for acknowledgements on their way.
SweepsCovered ==
    /\ PacketSum("sweep", {"sent"}) <= delegationBalance
    /\ redemptionBalance
          + Sum({x \in Days \X Users : claims[x[1]][x[2]] = "success"},
                LAMBDA x : userRedemptions[x[1]][x[2]].nativeTokenAmount)
        = Sum(WithStatus({"CLAIMABLE"}), LAMBDA d : hostZoneUnbondings[d].claimableNativeTokens)
          + PacketSum("sweep", {"success"})

\* A redemption is paid at most once, and its full amount, whatever happens to the claim
\* ICAs, their acknowledgements and the channel.
PaidOnce ==
    [][\A d \in Days, u \in Users : paid'[d][u] # paid[d][u] =>
          /\ paid[d][u] = 0
          /\ paid'[d][u] = userRedemptions[d][u].nativeTokenAmount]_vars

\* A record whose tokens are unbonded never goes back to unbonding, and a claimable one
\* stays claimable until it is removed.
NoStatusRegress ==
    [][\A d \in Days :
          LET old == hostZoneUnbondings[d].status
              new == hostZoneUnbondings'[d].status
              exit == {"EXIT_TRANSFER_QUEUE", "EXIT_TRANSFER_IN_PROGRESS"}
          IN  /\ old \in exit => new \in exit \cup {"CLAIMABLE"}
              /\ old = "CLAIMABLE" => new \in {"CLAIMABLE", "NONE"}]_vars

\* Every redemption becomes claimable, over any finite number of faults, unless the zone
\* is halted again and again.
RedemptionsEventuallyClaimable ==
    \A d \in Days :
        \/ (\E u \in Users : userRedemptions[d][u].nativeTokenAmount > 0)
              ~> (hostZoneUnbondings[d].status = "CLAIMABLE")
        \/ []<>halted
=============================================================================
