--------------------------- MODULE DepositRecords ---------------------------
(***************************************************************************)
(* The deposit side of x/stakeibc and x/records for one host zone: what    *)
(* happens to a native token from MsgLiquidStake until it is delegated on  *)
(* the host zone.                                                          *)
(*                                                                         *)
(*   TRANSFER_QUEUE -> TRANSFER_IN_PROGRESS   (IBC transfer, stride epoch) *)
(*                  -> DELEGATION_QUEUE       (transfer acknowledged)      *)
(*                  -> DELEGATION_IN_PROGRESS (delegate ICAs, in batches)  *)
(*                  -> removed                (all batches acknowledged)   *)
(*                                                                         *)
(* Acknowledgements, failures and timeouts move a record back.  A timeout  *)
(* closes the ORDERED interchain-account channel, and                      *)
(* MsgRestoreInterchainAccount opens a new one and resets the records.     *)
(***************************************************************************)
EXTENDS Integers, FiniteSets, Functions, LegacyDec, IcaBatches

CONSTANTS
    Ids,                \* identifiers of deposit records; the bound on live records
    MaxTokens,          \* bound on the native tokens the protocol ever holds
    MaxFaults,          \* bound on failures, timeouts and halts
    StakeAmounts,       \* amounts of MsgLiquidStake and of reinvested rewards
    MinSafetyThreshold, MaxSafetyThreshold,     \* bounds of the redemption rate
    RedemptionRateInterval, DepositInterval, DelegateInterval,
    EpochCycle,         \* a common multiple of the three intervals
    AcksBeforeClose,    \* TRUE: no ICA times out while an executed one awaits its ack
    OldPackets,         \* the ICAs left on a closed channel: "cleared", all of them time
                        \* out before the account is restored, or "dropped", none need to
    ValidatorRemovals   \* TRUE: a validator may be removed while a batch to it is in flight;
                        \* the timeout of such a batch is rejected, it is never cleared

ASSUME DepositAssumptions ==
    /\ IsFiniteSet(Ids) /\ Ids \subseteq Nat
    /\ MaxTokens \in Nat /\ MaxFaults \in Nat
    /\ StakeAmounts \subseteq Nat \ {0}
    /\ MinSafetyThreshold \in Nat \ {0} /\ MaxSafetyThreshold \in Nat
    /\ {RedemptionRateInterval, DepositInterval, DelegateInterval,
        EpochCycle} \subseteq Nat \ {0}
    /\ AcksBeforeClose \in BOOLEAN
    /\ OldPackets \in {"cleared", "dropped"}
    /\ ValidatorRemovals \in BOOLEAN
    /\ ValidatorRemovals => OldPackets = "dropped"

VARIABLES
    epoch,              \* stride epoch tracker, modulo EpochCycle
    halted,             \* HostZone.Halted
    redemptionRate,     \* HostZone.RedemptionRate (a LegacyDec)
    totalDelegations,   \* HostZone.TotalDelegations
    stSupply,           \* bank supply of the stToken
    depositRecords,     \* the deposit record store
    transfers,          \* IBC transfer of a record, between send and ack
    delegateIcas,       \* delegate ICAs of a record, by batch
    orphaned,           \* batches in flight one of whose validators was removed
    channel,            \* delegation ICA channel
    reinvestIca,        \* the reinvestment ICA on the withdrawal channel
    depositBalance,     \* deposit account on Stride
    delegationBalance,  \* liquid balance of the delegation account on the host
    staked,             \* tokens delegated on the host
    faults              \* failures, timeouts and halts so far

recordVars  == <<depositRecords, totalDelegations>>
zoneVars    == <<halted, redemptionRate, stSupply>>
icaVars     == <<delegateIcas, orphaned, channel>>
hostVars    == <<delegationBalance, staked>>
vars == <<epoch, zoneVars, recordVars, transfers, icaVars, reinvestIca,
          depositBalance, hostVars, faults>>

Statuses == {"NONE", "TRANSFER_QUEUE", "TRANSFER_IN_PROGRESS",
             "DELEGATION_QUEUE", "DELEGATION_IN_PROGRESS"}

\* A record; current says that its DepositEpochNumber is the tracker's epoch,
\* the only thing the code ever asks of that number.
DepositRecord(status, amount, txs) ==
    [status |-> status, amount |-> amount, current |-> TRUE, txs |-> txs]
NoRecord == [status |-> "NONE", amount |-> 0, current |-> FALSE, txs |-> 0]

\* An ICA packet: none, sent, executed on the host ("success" or "failure").
NoIca == [state |-> "none", amount |-> 0]
Pending(i) == {k \in Batches : delegateIcas[i][k].state # "none"}
Executed(i) == {k \in Batches : delegateIcas[i][k].state \in {"success", "failure"}}

\* Identifiers grow without bound in the code; here one nothing refers to is reused.
FreeIds == {i \in Ids : /\ depositRecords[i].status = "NONE"
                        /\ transfers[i] = "none" /\ Pending(i) = {}}
NextId(i) == i \in FreeIds /\ \A j \in FreeIds : i <= j

Amount(S) == SumFunctionOnSet([i \in Ids |-> depositRecords[i].amount], S)
WithStatus(S) == {i \in Ids : depositRecords[i].status \in S}
InTransit == {i \in Ids : transfers[i] \in {"sent", "rejected"}}

\* All the native tokens that came in, wherever they are.
AllTokens == depositBalance + Amount(InTransit) + delegationBalance + staked
RewardsInFlight == IF reinvestIca.state = "sent" THEN reinvestIca.amount ELSE 0

RecordsTypeOK ==
    /\ depositRecords \in [Ids -> [status : Statuses, amount : Int,
                                   current : BOOLEAN, txs : Nat]]
    /\ transfers \in [Ids -> {"none", "sent", "received", "rejected"}]
    /\ delegateIcas \in [Ids -> [Batches ->
           [state : {"none", "sent", "success", "failure"}, amount : Nat]]]
    /\ channel \in {"open", "closed", "handshake"}
    /\ reinvestIca \in [state : {"none", "sent", "success", "failure"}, amount : Nat]

TypeOK ==
    /\ RecordsTypeOK
    /\ orphaned \subseteq Ids \X Batches
    /\ epoch \in 0..(EpochCycle - 1)
    /\ halted \in BOOLEAN
    /\ {redemptionRate, totalDelegations, stSupply,
        delegationBalance, staked, faults} \subseteq Nat
    /\ depositBalance \in Int

Init ==
    /\ epoch = 0 /\ halted = FALSE
    /\ redemptionRate = Precision
    /\ totalDelegations = 0 /\ stSupply = 0
    /\ depositRecords = [i \in Ids |-> NoRecord]
    /\ transfers = [i \in Ids |-> "none"]
    /\ delegateIcas = [i \in Ids |-> [k \in Batches |-> NoIca]]
    /\ orphaned = {} /\ channel = "open"
    /\ reinvestIca = NoIca
    /\ depositBalance = 0 /\ delegationBalance = 0 /\ staked = 0
    /\ faults = 0

Fault == faults < MaxFaults /\ faults' = faults + 1
-----------------------------------------------------------------------------
(* Messages and the begin blocker                                          *)

\* The outer and inner bounds of the code, of which the tighter ones count.
IsRedemptionRateWithinSafetyBounds ==
    redemptionRate >= MinSafetyThreshold /\ redemptionRate <= MaxSafetyThreshold

LiquidStake(amount) ==
    LET stAmount == TruncateInt(Quo(NewDecFromInt(amount), redemptionRate))
    IN  /\ ~halted
        /\ IsRedemptionRateWithinSafetyBounds
        /\ AllTokens + RewardsInFlight + amount <= MaxTokens
        /\ stAmount # 0
        /\ \E i \in Ids :
              /\ depositRecords[i].status = "TRANSFER_QUEUE" /\ depositRecords[i].current
              /\ depositRecords' = [depositRecords EXCEPT ![i].amount = @ + amount]
        /\ depositBalance' = depositBalance + amount
        /\ stSupply' = stSupply + stAmount
        /\ UNCHANGED <<epoch, halted, redemptionRate, totalDelegations, transfers,
                       icaVars, reinvestIca, hostVars, faults>>

\* BeginBlocker halts a zone whose rate is unsafe; the blacklisting of the
\* stToken in the rate limiter follows Halted and is left out.
BeginBlocker ==
    /\ ~IsRedemptionRateWithinSafetyBounds /\ ~halted
    /\ halted' = TRUE
    /\ UNCHANGED <<epoch, redemptionRate, stSupply, recordVars, transfers, icaVars,
                   reinvestIca, depositBalance, hostVars, faults>>

DeprecateHostZone ==
    /\ Fault /\ halted' = TRUE
    /\ UNCHANGED <<epoch, redemptionRate, stSupply, recordVars, transfers, icaVars,
                   reinvestIca, depositBalance, hostVars>>

ResumeHostZone ==
    /\ halted /\ halted' = FALSE
    /\ UNCHANGED <<epoch, redemptionRate, stSupply, recordVars, transfers, icaVars,
                   reinvestIca, depositBalance, hostVars, faults>>
-----------------------------------------------------------------------------
(* BeforeEpochStart, stride epoch                                          *)

\* nativeTokensLocked / stSupply; records counts every deposit record, as the
\* statuses of GetDepositAccountBalance and GetUndelegatedBalance do together.
\* Mutant: transfers in flight are forgotten.
UpdatedRedemptionRateSettled ==
    Quo(NewDecFromInt(Amount(WithStatus(Statuses \ {"NONE", "TRANSFER_IN_PROGRESS"}))
                      + totalDelegations),
        NewDecFromInt(stSupply))
UpdatedRedemptionRate ==
    Quo(NewDecFromInt(Amount(WithStatus(Statuses \ {"NONE"})) + totalDelegations),
        NewDecFromInt(stSupply))

\* Steps of the epoch that can fail as a whole: the IBC transfer (client expired)
\* and the delegations (no validator weights).  The code logs and moves on.
Submissions == {"transfer", "delegate"}

Due(interval) == ((epoch + 1) % EpochCycle) % interval = 0

\* CreateDepositRecordsForEpoch: a record for the zone unless it is halted.
NewRecords == IF halted THEN {{}} ELSE {{i} : i \in {j \in Ids : NextId(j)}}
Aged(new) ==
    [i \in Ids |-> IF i \in new THEN DepositRecord("TRANSFER_QUEUE", 0, 0)
                   ELSE [depositRecords[i] EXCEPT !.current = FALSE]]

\* TransferExistingDepositsToHostZones: empty records are removed, the others sent.
Queued(records) == {i \in Ids : /\ Due(DepositInterval) /\ ~records[i].current
                                /\ records[i].status = "TRANSFER_QUEUE"}
Empty(records) == {i \in Queued(records) : records[i].amount <= 0}
Transferred(records, ok) ==
    {i \in Queued(records) \ Empty(records) : ~halted /\ "transfer" \in ok}

\* StakeExistingDepositsOnHostZones.  Mutant: batches in flight do not count.
StakeableInFlight(records, ok) ==
    {i \in Ids : /\ Due(DelegateInterval) /\ ~records[i].current
                 /\ records[i].status = "DELEGATION_QUEUE" /\ records[i].amount > 0
                 /\ ~halted /\ channel = "open" /\ "delegate" \in ok}
Stakeable(records, ok) ==
    {i \in Ids : /\ Due(DelegateInterval) /\ ~records[i].current
                 /\ records[i].status = "DELEGATION_QUEUE"
                 /\ records[i].txs = 0 /\ records[i].amount > 0
                 /\ ~halted /\ channel = "open" /\ "delegate" \in ok}
Submitted(split) ==
    [k \in Batches |-> IF split[k] > 0 THEN [state |-> "sent", amount |-> split[k]] ELSE NoIca]

AfterEpoch(records, ok, split) ==
    [i \in Ids |->
        IF i \in Empty(records) THEN NoRecord
        ELSE IF i \in Transferred(records, ok)
        THEN [records[i] EXCEPT !.status = "TRANSFER_IN_PROGRESS"]
        ELSE IF i \in Stakeable(records, ok)
        THEN [records[i] EXCEPT !.status = "DELEGATION_IN_PROGRESS",
                                !.txs = @ + Used(split[i])]
        ELSE records[i]]

StrideEpoch(ok) ==
    \E new \in NewRecords :
    LET records == Aged(new)
        stakeable == Stakeable(records, ok)
    IN  \E split \in [stakeable -> UNION {Splits(records[i].amount) : i \in stakeable}] :
        /\ \A i \in stakeable : split[i] \in Splits(records[i].amount)
        /\ epoch' = (epoch + 1) % EpochCycle
        /\ redemptionRate' = IF Due(RedemptionRateInterval) /\ ~halted /\ stSupply # 0
                             THEN UpdatedRedemptionRate ELSE redemptionRate
        /\ depositRecords' = AfterEpoch(records, ok, split)
        /\ transfers' = [i \in Ids |-> IF i \in Transferred(records, ok) THEN "sent"
                                       ELSE transfers[i]]
        /\ depositBalance' = depositBalance - Amount(Transferred(records, ok))
        /\ delegateIcas' = [i \in Ids |-> IF i \in stakeable THEN Submitted(split[i])
                                          ELSE delegateIcas[i]]
        /\ UNCHANGED <<halted, stSupply, totalDelegations, orphaned, channel, reinvestIca, hostVars>>

\* The epoch with every submission going through, and with some failing.
StrideEpochStart == StrideEpoch(Submissions) /\ UNCHANGED faults
StrideEpochWithErrors == \E ok \in SUBSET Submissions \ {Submissions} : StrideEpoch(ok) /\ Fault
-----------------------------------------------------------------------------
(* The IBC transfer of a deposit record (unordered channel)                *)

TransferReceived(i) ==
    /\ transfers[i] = "sent"
    /\ \/ /\ transfers' = [transfers EXCEPT ![i] = "received"]
          /\ delegationBalance' = delegationBalance + depositRecords[i].amount
          /\ UNCHANGED faults
       \/ /\ transfers' = [transfers EXCEPT ![i] = "rejected"]
          /\ Fault /\ UNCHANGED delegationBalance
    /\ UNCHANGED <<epoch, zoneVars, recordVars, icaVars, reinvestIca, depositBalance, staked>>

\* TransferCallback, then the refund of the transfer module when there is one.
StatusAfterTransfer(status) ==
    IF status = "success" THEN "DELEGATION_QUEUE" ELSE "TRANSFER_QUEUE"
TransferCallback(i, status) ==
    /\ depositRecords[i].status # "NONE"
    /\ depositRecords' = [depositRecords EXCEPT ![i].status = StatusAfterTransfer(status)]
    /\ depositBalance' = IF status = "success" THEN depositBalance
                         ELSE depositBalance + depositRecords[i].amount
    /\ transfers' = [transfers EXCEPT ![i] = "none"]
    /\ UNCHANGED <<epoch, zoneVars, totalDelegations, icaVars, reinvestIca, hostVars>>

TransferAcknowledged(i) ==
    /\ \/ transfers[i] = "received" /\ TransferCallback(i, "success")
       \/ transfers[i] = "rejected" /\ TransferCallback(i, "failure")
    /\ UNCHANGED faults

TransferTimedOut(i) ==
    transfers[i] = "sent" /\ TransferCallback(i, "timeout") /\ Fault
-----------------------------------------------------------------------------
(* Delegate ICAs on the ordered delegation channel.  Acknowledgements come *)
(* in the order of the batches of a record; batches of different records   *)
(* touch different records and are not ordered here.                       *)

HostExecutesDelegate(i, k) ==
    LET amount == delegateIcas[i][k].amount
    IN  /\ channel = "open"
        /\ delegateIcas[i][k].state = "sent"
        /\ \A j \in 1..(k - 1) : delegateIcas[i][j].state # "sent"
        /\ \/ /\ delegationBalance >= amount
              /\ delegateIcas' = [delegateIcas EXCEPT ![i][k].state = "success"]
              /\ delegationBalance' = delegationBalance - amount
              /\ staked' = staked + amount
              /\ UNCHANGED faults
           \/ /\ delegateIcas' = [delegateIcas EXCEPT ![i][k].state = "failure"]
              /\ IF delegationBalance < amount THEN UNCHANGED faults ELSE Fault
              /\ UNCHANGED hostVars
        /\ UNCHANGED <<epoch, zoneVars, recordVars, transfers, orphaned, channel,
                       reinvestIca, depositBalance>>

\* The record after a batch.  Mutants: it is removed with its first batch; a failure
\* counts twice.
AfterBatchRemoved(record, amount, status) ==
    CASE status = "timeout" -> [record EXCEPT !.txs = @ - 1]
      [] status = "failure" -> [record EXCEPT !.txs = @ - 1, !.status = "DELEGATION_QUEUE"]
      [] OTHER -> NoRecord
AfterBatchCountedTwice(record, amount, status) ==
    CASE status = "timeout" -> [record EXCEPT !.txs = @ - 1]
      [] status = "failure" -> [record EXCEPT !.txs = @ - 2, !.status = "DELEGATION_QUEUE"]
      [] status = "success" /\ record.amount = amount -> NoRecord
      [] OTHER -> [record EXCEPT !.txs = @ - 1, !.amount = @ - amount]
AfterBatch(record, amount, status) ==
    CASE status = "timeout" -> [record EXCEPT !.txs = @ - 1]
      [] status = "failure" -> [record EXCEPT !.txs = @ - 1, !.status = "DELEGATION_QUEUE"]
      [] status = "success" /\ record.amount = amount -> NoRecord
      [] OTHER -> [record EXCEPT !.txs = @ - 1, !.amount = @ - amount]

\* What AddDelegationToValidator adds to the zone.  Mutant: failures are added too.
DelegatedUnchecked(amount, status) == IF status = "timeout" THEN 0 ELSE amount
Delegated(amount, status) == IF status = "success" THEN amount ELSE 0

\* DelegateCallback for batch k.  When the record is gone, no transaction is in progress
\* or a validator of the batch is gone (also one that was added anew, which has no change
\* in progress), the callback returns an error, and with it the acknowledgement or
\* timeout is rejected: no step.
DelegateCallback(i, k, status) ==
    LET amount == delegateIcas[i][k].amount
    IN  /\ depositRecords[i].status # "NONE" /\ depositRecords[i].txs # 0
        /\ <<i, k>> \notin orphaned
        /\ depositRecords' = [depositRecords EXCEPT
                                 ![i] = AfterBatch(depositRecords[i], amount, status)]
        /\ totalDelegations' = totalDelegations + Delegated(amount, status)

DelegateAcknowledged(i, k) ==
    /\ channel = "open"
    /\ k \in Executed(i)
    /\ \A j \in 1..(k - 1) : delegateIcas[i][j].state = "none"
    /\ DelegateCallback(i, k, delegateIcas[i][k].state)
    /\ delegateIcas' = [delegateIcas EXCEPT ![i][k] = NoIca]
    /\ UNCHANGED <<epoch, zoneVars, transfers, orphaned, channel, reinvestIca,
                   depositBalance, hostVars, faults>>

\* A timeout closes an open channel; on a closed one it only clears the packet.
MayClose == AcksBeforeClose => \A i \in Ids : Executed(i) = {}

DelegateTimedOut(i, k) ==
    /\ delegateIcas[i][k].state = "sent"
    /\ \/ channel = "open" /\ MayClose /\ Fault
       \/ channel = "closed" /\ UNCHANGED faults
    /\ channel' = "closed"
    /\ DelegateCallback(i, k, "timeout")
    /\ delegateIcas' = [delegateIcas EXCEPT ![i][k] = NoIca]
    /\ UNCHANGED <<epoch, zoneVars, transfers, orphaned, reinvestIca, depositBalance, hostVars>>

\* Another ICA of the same channel times out: an undelegation, a reward claim, or
\* the one MsgCloseDelegationChannel sends for that purpose.
DelegationChannelCloses ==
    /\ channel = "open" /\ MayClose /\ Fault
    /\ channel' = "closed"
    /\ UNCHANGED <<epoch, zoneVars, recordVars, transfers, delegateIcas, orphaned,
                   reinvestIca, depositBalance, hostVars>>

\* MsgRestoreInterchainAccount for the delegation account.  Mutant: the deposit records
\* are left as they are.
RestoredUnchanged(record) == record
Restored(record) ==
    IF record.status = "DELEGATION_IN_PROGRESS"
    THEN [record EXCEPT !.status = "DELEGATION_QUEUE", !.txs = 0] ELSE record

RestoreInterchainAccount ==
    LET unrelayed(i) == {k \in Batches : delegateIcas[i][k].state = "sent"}
    IN  /\ channel = "closed"
        /\ OldPackets = "cleared" => \A i \in Ids : unrelayed(i) = {}
        /\ channel' = "handshake"
        /\ depositRecords' = [i \in Ids |-> Restored(depositRecords[i])]
        /\ delegateIcas' = [i \in Ids |-> [k \in Batches |-> NoIca]]
        /\ orphaned' = {}
        /\ UNCHANGED <<epoch, zoneVars, totalDelegations, transfers, reinvestIca,
                       depositBalance, hostVars, faults>>

OnChanOpenAck ==
    /\ channel = "handshake" /\ channel' = "open"
    /\ UNCHANGED <<epoch, zoneVars, recordVars, transfers, delegateIcas, orphaned,
                   reinvestIca, depositBalance, hostVars, faults>>

\* RemoveValidatorFromHostZone asks for no weight and no delegation, which a validator
\* can have while the first delegation to it is in flight.  A validator is in one batch
\* of a record at most.  Removals that hit no batch change nothing here.
RemoveValidator ==
    /\ ValidatorRemovals /\ Fault
    /\ \E hit \in SUBSET {x \in Ids \X Batches : x[2] \in Pending(x[1])} :
          /\ hit # {} /\ \A x, y \in hit : x[1] = y[1] => x = y
          /\ orphaned' = orphaned \cup hit
    /\ UNCHANGED <<epoch, zoneVars, recordVars, transfers, delegateIcas, channel,
                   reinvestIca, depositBalance, hostVars>>
-----------------------------------------------------------------------------
(* Reinvestment of rewards.  At most one reinvestment ICA is in flight.    *)

\* The answer to the query of ReinvestRewards: the reinvested share of the rewards
\* is sent from the withdrawal account to the delegation account.
WithdrawalHostBalanceCallback(amount) ==
    /\ totalDelegations > 0 /\ reinvestIca = NoIca
    /\ AllTokens + amount <= MaxTokens
    /\ reinvestIca' = [state |-> "sent", amount |-> amount]
    /\ UNCHANGED <<epoch, zoneVars, recordVars, transfers, icaVars, depositBalance,
                   hostVars, faults>>

HostExecutesReinvest ==
    /\ reinvestIca.state = "sent"
    /\ \/ /\ reinvestIca' = [reinvestIca EXCEPT !.state = "success"]
          /\ delegationBalance' = delegationBalance + reinvestIca.amount
          /\ UNCHANGED faults
       \/ /\ reinvestIca' = [reinvestIca EXCEPT !.state = "failure"]
          /\ Fault /\ UNCHANGED delegationBalance
    /\ UNCHANGED <<epoch, zoneVars, recordVars, transfers, icaVars, depositBalance, staked>>

\* On success the rewards become a deposit record that is already on the host.
ReinvestCallback ==
    /\ \/ /\ reinvestIca.state = "success"
          /\ \E i \in Ids :
                /\ NextId(i)
                /\ depositRecords' = [depositRecords EXCEPT ![i] =
                      DepositRecord("DELEGATION_QUEUE", reinvestIca.amount, 0)]
          /\ UNCHANGED faults
       \/ reinvestIca.state = "failure" /\ UNCHANGED <<depositRecords, faults>>
       \/ reinvestIca.state = "sent" /\ Fault /\ UNCHANGED depositRecords
    /\ reinvestIca' = NoIca
    /\ UNCHANGED <<epoch, zoneVars, totalDelegations, transfers, icaVars,
                   depositBalance, hostVars>>
-----------------------------------------------------------------------------
DelegationStep(i) ==
    \E k \in Batches : HostExecutesDelegate(i, k) \/ DelegateAcknowledged(i, k)

Next ==
    \/ \E amount \in StakeAmounts : LiquidStake(amount) \/ WithdrawalHostBalanceCallback(amount)
    \/ BeginBlocker \/ DeprecateHostZone \/ ResumeHostZone
    \/ StrideEpochStart \/ StrideEpochWithErrors
    \/ \E i \in Ids : \/ TransferReceived(i) \/ TransferAcknowledged(i) \/ TransferTimedOut(i)
                      \/ DelegationStep(i)
                      \/ \E k \in Batches : DelegateTimedOut(i, k)
    \/ DelegationChannelCloses \/ RestoreInterchainAccount \/ OnChanOpenAck
    \/ RemoveValidator
    \/ HostExecutesReinvest \/ ReinvestCallback

Spec == Init /\ [][Next]_vars

\* Epochs keep coming, relayers relay what can be relayed, and a closed channel is
\* restored (the message is permissionless).  Nothing forces a user, a fault or a
\* governance action.
Fairness ==
    /\ WF_vars(StrideEpochStart)
    /\ \A i \in Ids : /\ WF_vars(TransferReceived(i)) /\ WF_vars(TransferAcknowledged(i))
                      /\ WF_vars(DelegationStep(i))
                      /\ WF_vars(channel = "closed" /\ \E k \in Batches : DelegateTimedOut(i, k))
    /\ WF_vars(RestoreInterchainAccount) /\ WF_vars(OnChanOpenAck)
    /\ WF_vars(HostExecutesReinvest) /\ WF_vars(ReinvestCallback)

FairSpec == Spec /\ Fairness
-----------------------------------------------------------------------------
(* Properties                                                              *)

ExecutedAmount(i) ==
    SumFunctionOnSet([k \in Batches |-> delegateIcas[i][k].amount],
                     {k \in Batches : delegateIcas[i][k].state = "success"})
StakedUnacked == SumFunction([i \in Ids |-> ExecutedAmount(i)])

\* Nothing is delegated twice, nothing forgotten.  The deposit account holds exactly the
\* amounts of the records queued for transfer (LiquidStake, the transfers and their refunds
\* move tokens and records together); every token of the delegation account belongs to a
\* record that will delegate it, or is about to become one; and the host zone's
\* TotalDelegations is what is staked but for the acknowledgements on their way.
AccountsBacked ==
    /\ depositBalance = Amount(WithStatus({"TRANSFER_QUEUE"}))
    /\ staked = totalDelegations + StakedUnacked
    /\ delegationBalance + StakedUnacked =
          Amount(WithStatus({"DELEGATION_QUEUE", "DELEGATION_IN_PROGRESS"}))
          + Amount({i \in Ids : transfers[i] = "received"})
          + (IF reinvestIca.state = "success" THEN reinvestIca.amount ELSE 0)

\* TotalDelegations never counts tokens that are not staked, even when acknowledgements are
\* lost with a closed channel and their batches are delegated again.
DelegationsNeverOverstated == totalDelegations + StakedUnacked <= staked

\* DelegationTxsInProgress of a record counts its ICAs that have neither been
\* acknowledged nor timed out, over mixed outcomes, channel closures and restores.
TxsInProgressExact == \A i \in Ids : depositRecords[i].txs = Cardinality(Pending(i))

\* Without slashing the redemption rate never falls by more than the rounding of Quo.
RedemptionRateNeverFalls == [][redemptionRate' >= redemptionRate - 1]_vars

\* Every deposit ends up delegated, over any finite number of faults, unless the zone
\* is halted again and again.  It assumes that the validators of a batch in flight stay.
DepositsEventuallyStaked ==
    \A i \in Ids : \/ depositRecords[i].amount > 0 ~> depositRecords[i].status = "NONE"
                   \/ []<>halted
=============================================================================
