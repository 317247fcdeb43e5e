-------------------------- MODULE LSMTokenDeposits --------------------------
(***************************************************************************)
(* Liquid staking of LSM tokens (tokenized shares of a delegation) with    *)
(* one host zone.  A deposit of a token goes through                       *)
(*                                                                         *)
(*   DEPOSIT_PENDING (only if the stake has to wait for a slash query) ->  *)
(*   TRANSFER_QUEUE -> TRANSFER_IN_PROGRESS -> DETOKENIZATION_QUEUE ->     *)
(*   DETOKENIZATION_IN_PROGRESS -> removed                                 *)
(*                                                                         *)
(* with TRANSFER_FAILED and DETOKENIZATION_FAILED as dead ends.  Tokens    *)
(* move from the staker to the deposit account, by IBC transfer to the     *)
(* delegation account on the host, and by an ICA into native stake.        *)
(***************************************************************************)
EXTENDS Integers, Sequences, FiniteSets, Functions, LegacyDec

CONSTANTS
    Stakers,
    Validators, Denoms, ValidatorOf,    \* a denom is {validator}/{record id}
    InitialBalance,                     \* LSM tokens of each staker and denom
    InitialDelegation,                  \* by validator
    StakeAmounts,
    HostRates,                          \* shares-to-tokens rates a slash may lead to
    RedemptionRate,
    ValidatorSlashQueryThreshold,       \* percent of the zone's delegations
    Queries,                            \* slots for rate queries: each gets a unique id
    MaxSlashes, MaxFaults, MaxManualQueries     \* bounds

ASSUME LSMAssumptions ==
    /\ \A S \in {Stakers, Validators, Denoms, Queries} : IsFiniteSet(S)
    /\ ValidatorOf \in [Denoms -> Validators] /\ "none" \notin Denoms
    /\ InitialBalance \in [Stakers -> [Denoms -> Nat]] 
    /\ InitialDelegation \in [Validators -> Nat]
    /\ StakeAmounts \subseteq Nat \ {0} /\ HostRates \subseteq 0..Precision
    /\ RedemptionRate \in Nat \ {0} /\ ValidatorSlashQueryThreshold \in 0..100
    /\ {MaxSlashes, MaxFaults, MaxManualQueries} \subseteq Nat

VARIABLES
    halted,             \* HostZone.Halted
    totalDelegations,   \* HostZone.TotalDelegations
    validators,         \* HostZone.Validators, as far as LSM stakes use them
    deposits,           \* the LSMTokenDeposit store, by denom
    balances,           \* LSM tokens of the stakers
    depositAccount,     \* LSM tokens of the zone's deposit account on Stride
    delegationAccount,  \* LSM tokens of the delegation account on the host
    staked,             \* tokens the host made native stake, by validator
    hostRate,           \* shares-to-tokens rate on the host
    queries,            \* the rate queries
    transfers,          \* IBC transfers between send and acknowledgement
    channel, icas,      \* delegation ICA channel, and the detokenizations on it in order
    unverified,         \* history: amount staked since a query last let a stake finish
    lost,               \* history: executed detokenizations whose acknowledgement never came
    slashes, faults, manualQueries

tokenVars == <<balances, depositAccount, delegationAccount>>
hostVars  == <<staked, hostRate>>
icaVars   == <<channel, icas, lost>>
boundVars == <<slashes, faults, manualQueries>>
zoneVars  == <<halted, totalDelegations, validators>>
vars == <<zoneVars, deposits, tokenVars, hostVars, queries, transfers, icaVars,
          unverified, boundVars>>

Statuses == {"NONE", "DEPOSIT_PENDING", "TRANSFER_QUEUE", "TRANSFER_IN_PROGRESS",
             "TRANSFER_FAILED", "DETOKENIZATION_QUEUE", "DETOKENIZATION_IN_PROGRESS",
             "DETOKENIZATION_FAILED"}
NoDeposit == [status |-> "NONE"]
NoQuery == [state |-> "none"]
WithStatus(status) == {d \in Denoms : deposits[d].status = status}
WithStatusOf(deposit, status) == [deposit EXCEPT !.status = status]

\* GetUpdatedSlashQueryCheckpoint
SlashQueryCheckpoint(total) == (ValidatorSlashQueryThreshold * total) \div 100

\* CalculateLSMStToken: shares * shares-to-tokens rate / redemption rate, truncated.
LSMStToken(amount, rate) == TruncateInt(Quo(Mul(NewDecFromInt(amount), rate), RedemptionRate))

Init ==
    /\ halted = FALSE
    /\ totalDelegations = SumFunction(InitialDelegation)
    /\ validators = [v \in Validators |->
          [registered |-> TRUE, rate |-> Precision, slashQuery |-> FALSE,
           delegation |-> InitialDelegation[v], changes |-> 0, progress |-> 0,
           checkpoint |-> SlashQueryCheckpoint(totalDelegations)]]
    /\ deposits = [d \in Denoms |-> NoDeposit]
    /\ balances = InitialBalance
    /\ depositAccount = [d \in Denoms |-> 0] /\ delegationAccount = [d \in Denoms |-> 0]
    /\ staked = [v \in Validators |-> 0] /\ hostRate = [v \in Validators |-> Precision]
    /\ queries = [q \in Queries |-> NoQuery]
    /\ transfers = <<>> /\ channel = "open" /\ icas = <<>> /\ lost = <<>>
    /\ unverified = [v \in Validators |-> 0]
    /\ slashes = 0 /\ faults = 0 /\ manualQueries = 0

Fault == faults < MaxFaults /\ faults' = faults + 1
-----------------------------------------------------------------------------
(* MsgLSMLiquidStake *)

\* ValidateLSMLiquidStake.
ValidLSMLiquidStake(d, deposit, vals) ==
    LET validator == vals[ValidatorOf[d]]
    IN  /\ validator.registered /\ ~validator.slashQuery /\ validator.rate # 0
        /\ balances[deposit.staker][d] >= deposit.amount

\* Progress and amount cross a multiple of the checkpoint.
Breaches(validator, amount) ==
    /\ validator.checkpoint # 0
    /\ validator.progress \div validator.checkpoint
         < (validator.progress + amount) \div validator.checkpoint

\* ShouldCheckIfValidatorWasSlashed.  Mutant: the stake itself does not count.
ShouldCheckBefore(validator, amount) ==
    validator.checkpoint # 0 /\ validator.progress >= validator.checkpoint
ShouldCheckIfValidatorWasSlashed(validator, amount) == Breaches(validator, amount)

\* IncrementValidatorSlashQueryProgress
Progressed(validator, amount) ==
    [validator EXCEPT
        !.progress = @ + amount,
        !.checkpoint = IF @ = 0 \/ Breaches(validator, amount)
                       THEN SlashQueryCheckpoint(totalDelegations) ELSE @]

\* FinishLSMLiquidStake, on the validators as they are by then.  The stTokens minted are
\* those of the record.
FinishLSMLiquidStake(d, deposit, vals) ==
    LET v == ValidatorOf[d]
    IN  /\ balances' = [balances EXCEPT ![deposit.staker][d] = @ - deposit.amount]
        /\ depositAccount' = [depositAccount EXCEPT ![d] = @ + deposit.amount]
        /\ deposits' = [deposits EXCEPT ![d] = WithStatusOf(deposit, "TRANSFER_QUEUE")]
        /\ validators' = [vals EXCEPT ![v] = Progressed(vals[v], deposit.amount)]

\* SubmitValidatorSharesToTokensRateICQ: a query of its own, with the stake to finish, or
\* none, as its callback data.
SubmitRateQuery(v, d, deposit) ==
    LET free == {q \in Queries : queries[q] = NoQuery}
        query == [state |-> "sent", validator |-> v, rate |-> 0, denom |-> d, deposit |-> deposit]
    IN  free # {} /\ queries' = [queries EXCEPT ![CHOOSE q \in free : TRUE] = query]

\* The stakes that pass StartLSMLiquidStake.  Mutant: the record of a denom is replaced.
StartReplacing(d, deposit) ==
    /\ ValidLSMLiquidStake(d, deposit, validators)
    /\ ~halted /\ deposit.stToken # 0
StartLSMLiquidStake(d, deposit) ==
    /\ ValidLSMLiquidStake(d, deposit, validators)
    /\ ~halted /\ deposits[d] = NoDeposit /\ deposit.stToken # 0

LSMLiquidStake(staker, d, amount) ==
    LET v == ValidatorOf[d]
        deposit == [status |-> "DEPOSIT_PENDING", staker |-> staker, amount |-> amount,
                    stToken |-> LSMStToken(amount, validators[v].rate)]
    IN  /\ StartLSMLiquidStake(d, deposit)
        /\ \/ /\ ShouldCheckIfValidatorWasSlashed(validators[v], amount)
              /\ SubmitRateQuery(v, d, deposit)
              /\ deposits' = [deposits EXCEPT ![d] = deposit]
              /\ UNCHANGED <<validators, tokenVars, unverified>>
           \/ /\ ~ShouldCheckIfValidatorWasSlashed(validators[v], amount)
              /\ FinishLSMLiquidStake(d, deposit, validators)
              /\ unverified' = [unverified EXCEPT ![v] =
                    IF validators[v].checkpoint = 0 THEN 0 ELSE @ + amount]
              /\ UNCHANGED <<queries, delegationAccount>>
        /\ UNCHANGED <<halted, totalDelegations, hostVars, transfers, icaVars, boundVars>>

\* The staker sends all tokens of a denom to someone who keeps them (bank MsgSend).
SendTokens(from, d) ==
    /\ balances[from][d] > 0
    /\ balances' = [balances EXCEPT ![from][d] = 0]
    /\ UNCHANGED <<zoneVars, deposits, depositAccount, delegationAccount, hostVars, queries,
                   transfers, icaVars, unverified, boundVars>>
-----------------------------------------------------------------------------
(* The slash query *)

\* UpdateValidatorSharesExchRate: a rate query without callback data.
UpdateValidatorSharesExchRate(v) ==
    /\ manualQueries < MaxManualQueries /\ manualQueries' = manualQueries + 1
    /\ SubmitRateQuery(v, "none", NoDeposit)
    /\ UNCHANGED <<zoneVars, deposits, tokenVars, hostVars, transfers, icaVars, unverified,
                   slashes, faults>>

HostSlashes(v) ==
    /\ slashes < MaxSlashes /\ slashes' = slashes + 1
    /\ \E rate \in HostRates : rate < hostRate[v] /\ hostRate' = [hostRate EXCEPT ![v] = rate]
    /\ UNCHANGED <<zoneVars, deposits, tokenVars, staked, queries, transfers, icaVars,
                   unverified, faults, manualQueries>>

HostReadsRate(q) ==
    /\ queries[q].state = "sent"
    /\ queries' = [queries EXCEPT ![q].state = "read",
                                  ![q].rate = hostRate[queries[q].validator]]
    /\ UNCHANGED <<zoneVars, deposits, tokenVars, hostVars, transfers, icaVars, unverified,
                   boundVars>>

FailLSMLiquidStake(d) ==
    /\ deposits' = [deposits EXCEPT ![d] = NoDeposit]
    /\ UNCHANGED <<tokenVars, unverified>>

\* ValidatorSharesToTokensRateCallback with CheckIfValidatorWasSlashed, which stores the
\* rate, LSMSlashQueryCallback and SubmitDelegationICQ, which flags the validator.  A stake
\* is validated again before it finishes.  Without the validator the answer is rejected.
ValidatorSharesToTokensRateCallback(q) ==
    LET query == queries[q]
        v == query.validator
        slashed == validators[v].rate # 0 /\ query.rate # validators[v].rate
        vals == [validators EXCEPT ![v].rate = query.rate,
                                   ![v].slashQuery = @ \/ slashed]
        stake == query.deposit # NoDeposit
        finishes == ~slashed /\ ValidLSMLiquidStake(query.denom, query.deposit, vals)
    IN  /\ query.state = "read" /\ validators[v].registered
        /\ queries' = [queries EXCEPT ![q] = NoQuery]
        /\ \/ /\ ~stake
              /\ validators' = vals
              /\ UNCHANGED <<deposits, tokenVars, unverified>>
           \/ /\ stake /\ ~finishes
              /\ validators' = vals
              /\ FailLSMLiquidStake(query.denom)
           \/ /\ stake /\ finishes
              /\ FinishLSMLiquidStake(query.denom, query.deposit, vals)
              /\ unverified' = [unverified EXCEPT ![v] = 0]
              /\ UNCHANGED delegationAccount
        /\ UNCHANGED <<halted, totalDelegations, hostVars, transfers, icaVars, boundVars>>

\* The answer comes after the timeout: EXECUTE_QUERY_CALLBACK with LSMSlashQueryTimeout
\* for a stake, REJECT_QUERY_RESPONSE otherwise.
RateQueryTimesOut(q) ==
    /\ queries[q] # NoQuery /\ Fault
    /\ queries' = [queries EXCEPT ![q] = NoQuery]
    /\ IF queries[q].deposit # NoDeposit THEN FailLSMLiquidStake(queries[q].denom)
       ELSE UNCHANGED <<deposits, tokenVars, unverified>>
    /\ UNCHANGED <<zoneVars, hostVars, transfers, icaVars, slashes, manualQueries>>

\* The end of the slash query: DelegatorSharesCallback clears the flag (what it does to the
\* delegations is in ValidatorLedger).
DelegatorSharesCallback(v) ==
    /\ validators[v].slashQuery
    /\ validators' = [validators EXCEPT ![v].slashQuery = FALSE]
    /\ UNCHANGED <<halted, totalDelegations, deposits, tokenVars, hostVars, queries,
                   transfers, icaVars, unverified, boundVars>>
-----------------------------------------------------------------------------
(* EndBlocker and the callbacks of what it sends *)

Packet(d, deposit) == [denom |-> d, deposit |-> deposit, state |-> "sent", response |-> 0]
Packets(S) ==     \* in any order
    LET ds == CHOOSE f \in Bijection(1..Cardinality(S), S) : TRUE
    IN  [i \in DOMAIN ds |-> Packet(ds[i], deposits[ds[i]])]

\* DetokenizeLSMDeposit, after the ICA was sent or could not be.
DetokenizeLSMDeposit(deposit, sent) ==
    IF sent THEN WithStatusOf(deposit, "DETOKENIZATION_IN_PROGRESS") ELSE deposit

\* TransferAllLSMDeposits, then DetokenizeAllLSMDeposits, in a zone that is not halted:
\* the transfers of unsentTransfers and the ICAs of unsentIcas cannot be sent.
EndBlockerWith(unsentTransfers, unsentIcas) ==
    LET transferred == WithStatus("TRANSFER_QUEUE") \ unsentTransfers
        queued == IF channel = "open" THEN WithStatus("DETOKENIZATION_QUEUE") ELSE {}
        sent == queued \ unsentIcas
    IN  /\ ~halted
        /\ unsentTransfers \subseteq WithStatus("TRANSFER_QUEUE") /\ unsentIcas \subseteq queued
        /\ faults' = faults + Cardinality(unsentTransfers \union unsentIcas)
        /\ faults' <= MaxFaults
        /\ transfers' = transfers \o Packets(transferred)
        /\ depositAccount' = [d \in Denoms |->
              depositAccount[d] - IF d \in transferred THEN deposits[d].amount ELSE 0]
        /\ icas' = icas \o Packets(sent)
        /\ validators' = [v \in Validators |-> [validators[v] EXCEPT
              !.changes = @ + Cardinality({d \in sent : ValidatorOf[d] = v})]]
        /\ deposits' = [d \in Denoms |->
              CASE d \in transferred -> WithStatusOf(deposits[d], "TRANSFER_IN_PROGRESS")
                [] d \in unsentTransfers -> WithStatusOf(deposits[d], "TRANSFER_FAILED")
                [] d \in queued -> DetokenizeLSMDeposit(deposits[d], d \in sent)
                [] OTHER -> deposits[d]]
        /\ UNCHANGED <<halted, totalDelegations, balances, delegationAccount, hostVars,
                       queries, channel, lost, unverified, slashes, manualQueries>>

EndBlocker == \E S, T \in SUBSET Denoms : EndBlockerWith(S, T)

HostReceivesTransfer(i) ==
    LET packet == transfers[i]
    IN  /\ packet.state = "sent"
        /\ \/ /\ transfers' = [transfers EXCEPT ![i].state = "success"]
              /\ delegationAccount' = [delegationAccount EXCEPT ![packet.denom] =
                                          @ + packet.deposit.amount]
              /\ UNCHANGED faults
           \/ /\ transfers' = [transfers EXCEPT ![i].state = "failure"] /\ Fault
              /\ UNCHANGED delegationAccount
        /\ UNCHANGED <<zoneVars, deposits, balances, depositAccount, hostVars, queries,
                       icaVars, unverified, slashes, manualQueries>>

\* LSMTransferCallback writes the deposit as it was sent.
AfterTransfer(status) ==
    CASE status = "success" -> "DETOKENIZATION_QUEUE"
      [] status = "failure" -> "TRANSFER_FAILED"
      [] status = "timeout" -> "TRANSFER_QUEUE"

Without(packets, i) == SubSeq(packets, 1, i - 1) \o SubSeq(packets, i + 1, Len(packets))

\* The transfer module gives the tokens back to the deposit account.
LSMTransferCallback(i, status) ==
    LET packet == transfers[i]
    IN  /\ transfers' = Without(transfers, i)
        /\ deposits' = [deposits EXCEPT ![packet.denom] =
              WithStatusOf(packet.deposit, AfterTransfer(status))]
        /\ depositAccount' = [depositAccount EXCEPT ![packet.denom] =
              @ + IF status = "success" THEN 0 ELSE packet.deposit.amount]
        /\ UNCHANGED <<zoneVars, balances, delegationAccount, hostVars, queries, icaVars,
                       unverified, slashes, manualQueries>>

TransferAcknowledged(i) ==
    transfers[i].state # "sent" /\ LSMTransferCallback(i, transfers[i].state) /\ UNCHANGED faults
TransferTimedOut(i) ==
    transfers[i].state = "sent" /\ LSMTransferCallback(i, "timeout") /\ Fault

\* The host executes ICAs in order: MsgRedeemTokensForShares.
HostExecutesDetokenization(i) ==
    LET ica == icas[i]
        v == ValidatorOf[ica.denom]
        covered == delegationAccount[ica.denom] >= ica.deposit.amount
        tokens == TruncateInt(Mul(NewDecFromInt(ica.deposit.amount), hostRate[v]))
    IN  /\ channel = "open" /\ ica.state = "sent"
        /\ \A j \in 1..(i - 1) : icas[j].state # "sent"
        /\ \/ /\ covered
              /\ icas' = [icas EXCEPT ![i].state = "success", ![i].response = tokens]
              /\ delegationAccount' = [delegationAccount EXCEPT ![ica.denom] =
                                          @ - ica.deposit.amount]
              /\ staked' = [staked EXCEPT ![v] = @ + tokens]
              /\ UNCHANGED faults
           \/ /\ icas' = [icas EXCEPT ![i].state = "failure"]
              /\ IF covered THEN Fault ELSE UNCHANGED faults
              /\ UNCHANGED <<delegationAccount, staked>>
        /\ UNCHANGED <<zoneVars, deposits, balances, depositAccount, hostRate, queries,
                       transfers, channel, lost, unverified, slashes, manualQueries>>

\* What is left of the record.  Mutant: a failed ICA also removes it.
AfterDetokenizationRemoved(ica, status) ==
    IF status = "timeout" THEN deposits[ica.denom] ELSE NoDeposit
AfterDetokenization(ica, status) ==
    CASE status = "success" -> NoDeposit
      [] status = "failure" -> WithStatusOf(ica.deposit, "DETOKENIZATION_FAILED")
      [] status = "timeout" -> deposits[ica.denom]

\* What DecrementValidatorDelegationChangesInProgress asks; otherwise the callback fails
\* and the acknowledgement stays at the head of the channel.
DetokenizeAccepted(ica) ==
    LET validator == validators[ValidatorOf[ica.denom]]
    IN  validator.registered /\ validator.changes # 0

\* The stake to record: what the response says.  Mutant: what was asked for.
CreditedAmount(ica, status) == IF status = "success" THEN ica.deposit.amount ELSE 0
Credited(ica, status) == IF status = "success" THEN ica.response ELSE 0

DetokenizeCallback(ica, status) ==
    LET v == ValidatorOf[ica.denom]
        tokens == Credited(ica, status)
    IN  /\ DetokenizeAccepted(ica)
        /\ validators' = [validators EXCEPT ![v].changes = @ - 1, ![v].delegation = @ + tokens]
        /\ totalDelegations' = totalDelegations + tokens
        /\ deposits' = [deposits EXCEPT ![ica.denom] = AfterDetokenization(ica, status)]
        /\ icas' = Tail(icas)
        /\ UNCHANGED <<halted, tokenVars, hostVars, queries, transfers, lost, unverified,
                       slashes, manualQueries>>

DetokenizeAcknowledged ==
    /\ channel = "open" /\ icas # <<>> /\ Head(icas).state # "sent"
    /\ DetokenizeCallback(Head(icas), Head(icas).state)
    /\ UNCHANGED <<channel, faults>>

\* A timeout closes the ordered channel; so does one of another ICA on it, as that of
\* CloseDelegationChannel.  The acknowledgements that have not come by then are lost: those
\* of the ICAs the host executed, which are the first ones on the channel.
DetokenizeTimedOut ==
    /\ icas # <<>> /\ Head(icas).state = "sent"
    /\ channel = "open" => Fault
    /\ channel = "closed" => UNCHANGED faults
    /\ channel' = "closed"
    /\ DetokenizeCallback(Head(icas), "timeout")

ChannelCloses ==
    LET executed == Cardinality({i \in DOMAIN icas : icas[i].state # "sent"})
    IN  /\ channel = "open" /\ Fault
        /\ channel' = "closed"
        /\ icas' = SubSeq(icas, executed + 1, Len(icas))
        /\ lost' = lost \o SubSeq(icas, 1, executed)
        /\ UNCHANGED <<zoneVars, deposits, tokenVars, hostVars, queries, transfers,
                       unverified, slashes, manualQueries>>

\* RestoreInterchainAccount of the delegation account.  Mutant: deposits are left alone.
RestoredUnchanged(deposit) == deposit
Restored(deposit) ==
    IF deposit.status = "DETOKENIZATION_IN_PROGRESS"
    THEN WithStatusOf(deposit, "DETOKENIZATION_QUEUE") ELSE deposit

RestoreInterchainAccount ==
    /\ channel = "closed" /\ channel' = "open" /\ icas' = <<>>
    /\ validators' = [v \in Validators |-> [validators[v] EXCEPT !.changes = 0]]
    /\ deposits' = [d \in Denoms |-> Restored(deposits[d])]
    /\ UNCHANGED <<halted, totalDelegations, tokenVars, hostVars, queries, transfers, lost,
                   unverified, boundVars>>
-----------------------------------------------------------------------------
(* The zone *)

\* BeginBlocker halts a zone whose redemption rate is out of its bounds (DepositRecords).
HaltHostZone ==
    /\ ~halted /\ Fault /\ halted' = TRUE
    /\ UNCHANGED <<totalDelegations, validators, deposits, tokenVars, hostVars, queries,
                   transfers, icaVars, unverified, slashes, manualQueries>>

ResumeHostZone ==
    /\ halted /\ halted' = FALSE
    /\ UNCHANGED <<totalDelegations, validators, deposits, tokenVars, hostVars, queries,
                   transfers, icaVars, unverified, boundVars>>

\* RemoveValidatorFromHostZone; the weight may have been set to 0 before.
Removable(v) ==
    /\ validators[v].delegation = 0
    /\ \A d \in Denoms : ValidatorOf[d] = v => deposits[d] = NoDeposit

DeleteValidator(v) ==
    /\ validators[v].registered /\ Removable(v)
    /\ validators' = [validators EXCEPT ![v].registered = FALSE]
    /\ UNCHANGED <<halted, totalDelegations, deposits, tokenVars, hostVars, queries,
                   transfers, icaVars, unverified, boundVars>>
-----------------------------------------------------------------------------
Callbacks ==
    \/ DetokenizeAcknowledged
    \/ \E i \in DOMAIN transfers : TransferAcknowledged(i)
    \/ \E q \in Queries : ValidatorSharesToTokensRateCallback(q)
    \/ \E v \in Validators : DelegatorSharesCallback(v)

HostSteps ==
    \/ \E i \in DOMAIN transfers : HostReceivesTransfer(i)
    \/ \E i \in DOMAIN icas : HostExecutesDetokenization(i)
    \/ \E q \in Queries : HostReadsRate(q)

Next ==
    \/ \E s \in Stakers, d \in Denoms, a \in StakeAmounts : LSMLiquidStake(s, d, a)
    \/ \E s \in Stakers, d \in Denoms : SendTokens(s, d)
    \/ \E v \in Range(ValidatorOf) :     \* no stake would notice the others
          UpdateValidatorSharesExchRate(v) \/ HostSlashes(v) \/ DeleteValidator(v)
    \/ EndBlocker \/ Callbacks \/ HostSteps
    \/ \E q \in Queries : RateQueryTimesOut(q)
    \/ \E i \in DOMAIN transfers : TransferTimedOut(i)
    \/ DetokenizeTimedOut \/ ChannelCloses \/ RestoreInterchainAccount
    \/ HaltHostZone \/ ResumeHostZone

Spec == Init /\ [][Next]_vars

\* Blocks go on and relayers deliver what they can; a halted zone is resumed by governance
\* and anyone may restore a closed account.
Fairness ==
    /\ WF_vars(EndBlocker)
    /\ WF_vars(1 \in DOMAIN transfers /\ HostReceivesTransfer(1))
    /\ WF_vars(1 \in DOMAIN transfers /\ TransferAcknowledged(1))
    /\ WF_vars(\E i \in DOMAIN icas : HostExecutesDetokenization(i))
    /\ WF_vars(DetokenizeAcknowledged)
    /\ \A q \in Queries : /\ WF_vars(HostReadsRate(q))
                          /\ WF_vars(ValidatorSharesToTokensRateCallback(q))
    /\ WF_vars(RestoreInterchainAccount) /\ WF_vars(ResumeHostZone)

FairSpec == Spec /\ Fairness
-----------------------------------------------------------------------------
(* Properties *)

\* A stake waits for a slash query exactly while its record is DEPOSIT_PENDING, and the
\* record is the one the query will finish or remove: FailLSMLiquidStake, which removes by
\* denom, never removes the record of another stake, and none waits for nothing.
PendingMatched ==
    /\ \A q \in Queries : queries[q] # NoQuery /\ queries[q].deposit # NoDeposit =>
          /\ deposits[queries[q].denom] = queries[q].deposit
          /\ queries[q].deposit.status = "DEPOSIT_PENDING"
    /\ \A d \in WithStatus("DEPOSIT_PENDING") :
          Cardinality({q \in Queries : queries[q] # NoQuery /\ queries[q].denom = d}) = 1

Held(d, statuses) == IF deposits[d].status \in statuses THEN deposits[d].amount ELSE 0
CountOf(d, packets, states) ==
    Cardinality({i \in DOMAIN packets : packets[i].denom = d /\ packets[i].state \in states})

\* The status of a deposit says where its tokens are: in the deposit account while the
\* transfer is queued or has failed, in one packet while it is in progress, and in the
\* delegation account until the host has redeemed them, through every timeout, failure and
\* restored channel; also if the acknowledgement of a detokenization is lost with a closed
\* channel, so that a restored account tries to redeem again what was redeemed.
Custody ==
    \A d \in Denoms :
      LET amount == IF deposits[d] = NoDeposit THEN 0 ELSE deposits[d].amount
      IN  /\ depositAccount[d] = Held(d, {"TRANSFER_QUEUE", "TRANSFER_FAILED"})
          /\ CountOf(d, transfers, {"sent", "success", "failure"})
               = IF deposits[d].status = "TRANSFER_IN_PROGRESS" THEN 1 ELSE 0
          /\ delegationAccount[d] =
               Held(d, {"DETOKENIZATION_QUEUE", "DETOKENIZATION_IN_PROGRESS",
                        "DETOKENIZATION_FAILED"})
               + amount * (CountOf(d, transfers, {"success"}) - CountOf(d, icas \o lost, {"success"}))

Staked(v, packets) ==
    SumFunctionOnSet([i \in DOMAIN packets |-> packets[i].response],
                     {i \in DOMAIN packets : ValidatorOf[packets[i].denom] = v})

\* The delegation recorded for a validator is what the host staked but for what the unread
\* and the lost acknowledgements say: nothing is credited twice.  And DetokenizeCallback
\* finds the validator with a change in progress (RemoveValidatorFromHostZone keeps those
\* with deposits), so that no acknowledgement blocks the ordered channel.
DetokenizedCredited ==
    /\ \A v \in Validators :
          validators[v].delegation + Staked(v, icas) + Staked(v, lost)
            = InitialDelegation[v] + staked[v]
    /\ \A i \in DOMAIN icas : DetokenizeAccepted(icas[i])

\* Less than the checkpoint is ever staked with a validator without a slash query
\* (ShouldCheckIfValidatorWasSlashed), whatever stakes wait, fail or finish meanwhile.
SlashesChecked ==
    \A v \in Validators : validators[v].checkpoint # 0 => unverified[v] < validators[v].checkpoint

\* A deposit is eventually detokenized, rejected or left in one of the failed statuses: no
\* halt, timeout, unanswered query or closed channel holds it for ever.
DepositsEventuallySettle ==
    \A d \in Denoms : deposits[d].status # "NONE" ~>
        deposits[d].status \in {"NONE", "TRANSFER_FAILED", "DETOKENIZATION_FAILED"}
=============================================================================
