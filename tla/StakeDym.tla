------------------------------ MODULE StakeDym ------------------------------
(***************************************************************************)
(* Liquid staking of DYM (x/stakedym).  There are no interchain accounts:  *)
(* tokens go to a multisig on the host chain by IBC transfer, an operator  *)
(* delegates, undelegates and sends them back there, and confirms each     *)
(* step on Stride, whose records follow.                                   *)
(*                                                                         *)
(* Days are counted modulo UnbondingFrequency, completion times are        *)
(* counted down in days.  A record's id, the number of the day that        *)
(* created it, is abstracted to a fresh id: the stores never find it taken.*)
(* Archives are not modelled: an archived record is gone.  The messages of *)
(* the SAFE account that overwrite records are left out.                   *)
(***************************************************************************)
EXTENDS LegacyDec, FiniteSets, Functions

CONSTANTS
    Users,
    StakeAmounts, RedeemAmounts,  \* amounts of the users' messages
    MinRedemptionRate, MaxRedemptionRate,  \* outer bounds, scaled by Precision
    InnerBounds,         \* inner bounds <<min, max>> that are ever set
    UnbondingFrequency,  \* days between two undelegations (4 in hooks.go)
    UnbondingPeriod,     \* days (UnbondingPeriodSeconds)
    MaxTokens,           \* bound: no user's stake brings the income above it
    MaxEvents            \* bound: rewards, failures, early confirmations, slashes
                         \* and changes of the inner bounds

ASSUME StakeDymAssumptions ==
    /\ IsFiniteSet(Users)
    /\ {StakeAmounts, RedeemAmounts} \subseteq SUBSET (Nat \ {0})
    /\ {MinRedemptionRate, MaxRedemptionRate} \subseteq Nat \ {0}
    /\ InnerBounds \subseteq (MinRedemptionRate .. MaxRedemptionRate)
                             \X (MinRedemptionRate .. MaxRedemptionRate)
    /\ UnbondingFrequency \in Nat \ {0}
    /\ {UnbondingPeriod, MaxTokens, MaxEvents} \subseteq Nat

VARIABLES
    day,
    zone,               \* the HostZone: rate, delegated balance, halted, inner bounds
    bank,               \* native tokens of the deposit, fee and claim accounts, and
                        \* stTokens of the redemption (escrow) account
    stTokens,           \* stTokens of the users and of the fee collector
    delegationRecords, unbondingRecords, redemptionRecords,  \* the active stores
    transfers,          \* transfers in flight, each with the record it is for
    host,               \* the multisig: its stake, ids of the records it delegated but not
                        \* confirmed, its undelegations, and slashes not yet adjusted
    income, paid,       \* history: tokens that came in (less slashes), tokens paid out
    slashed,            \* history: whether a slash happened
    events

vars == <<day, zone, bank, stTokens, delegationRecords, unbondingRecords,
          redemptionRecords, transfers, host, income, paid, slashed, events>>

recordVars == <<delegationRecords, unbondingRecords, redemptionRecords>>
history == <<income, paid, slashed>>

Event == events < MaxEvents /\ events' = events + 1

Holders == Users \cup {"feeCollector"}

Total(field, records) == SumFunctionOnSet([r \in records |-> r[field]], records)
Natives(records) == Total("native", records)
StTokens(records) == Total("st", records)

StSupply == bank.escrow + SumFunction(stTokens)

\* An id that is not in use.
FreshId(used) == CHOOSE i \in 1 .. Cardinality(used) + 1 : i \notin used
IdsOf(records) == {r.id : r \in records}

WithStatus(status) == {r \in unbondingRecords : r.status = status}
RedemptionsOf(id) == {r \in redemptionRecords : r.unbondingId = id}
-----------------------------------------------------------------------------
(* Redemption rate.                                                        *)

\* Mutant: tokens that are being transferred are missed.
NativeTokensLockedSettled ==
    bank.deposit + zone.delegated
      + Natives({r \in delegationRecords : r.status = "DELEGATION_QUEUE"})
NativeTokensLocked ==
    bank.deposit + zone.delegated + Natives(delegationRecords)

\* It fails only when stTokens exist and no tokens do.
RateUpdatable == StSupply = 0 \/ NativeTokensLocked > 0

UpdatedZone ==
    IF StSupply = 0 THEN zone
    ELSE [zone EXCEPT !.rate = Quo(NewDecFromInt(NativeTokensLocked),
                                   NewDecFromInt(StSupply))]

RateWithin(bounds) == zone.rate >= bounds[1] /\ zone.rate <= bounds[2]

\* CheckRedemptionRateExceedsBounds finds nothing.
RateInBounds ==
    /\ RateWithin(<<MinRedemptionRate, MaxRedemptionRate>>)
    /\ RateWithin(zone.inner)

RefreshRedemptionRate ==
    /\ RateUpdatable
    /\ zone' = UpdatedZone
    /\ UNCHANGED <<day, bank, stTokens, recordVars, transfers, host, history, events>>

\* Every block checks the rate and halts the zone.
BeginBlocker ==
    /\ ~RateInBounds /\ ~zone.halted
    /\ zone' = [zone EXCEPT !.halted = TRUE]
    /\ UNCHANGED <<day, bank, stTokens, recordVars, transfers, host, history, events>>

ResumeHostZone ==
    /\ zone.halted
    /\ zone' = [zone EXCEPT !.halted = FALSE]
    /\ UNCHANGED <<day, bank, stTokens, recordVars, transfers, host, history, events>>

UpdateInnerRedemptionRateBounds(bounds) ==
    /\ bounds # zone.inner
    /\ bounds[1] >= MinRedemptionRate /\ bounds[2] <= MaxRedemptionRate
    /\ zone' = [zone EXCEPT !.inner = bounds]
    /\ Event
    /\ UNCHANGED <<day, bank, stTokens, recordVars, transfers, host, history>>
-----------------------------------------------------------------------------
(* Liquid staking and delegation.                                          *)

StAmount(native) == TruncateInt(Quo(NewDecFromInt(native), zone.rate))

\* The holder's tokens are in the bank record already updated to paidBank.
Minted(holder, native, paidBank) ==
    /\ ~zone.halted
    /\ RateInBounds
    /\ StAmount(native) > 0
    /\ bank' = [paidBank EXCEPT !.deposit = @ + native]
    /\ stTokens' = [stTokens EXCEPT ![holder] = @ + StAmount(native)]

LiquidStake(user, native) ==
    /\ income + native <= MaxTokens
    /\ income' = income + native
    /\ Minted(user, native, bank)
    /\ UNCHANGED <<day, zone, recordVars, transfers, host, paid, slashed, events>>

LiquidStakeAndDistributeFees ==
    /\ bank.fees > 0
    /\ Minted("feeCollector", bank.fees, [bank EXCEPT !.fees = 0])
    /\ UNCHANGED <<day, zone, recordVars, transfers, host, history, events>>

\* Mutant: a transfer in progress does not keep another one from being sent.
TransferrableAlways(z) == ~z.halted /\ bank.deposit > 0
Transferrable(z) ==
    /\ ~z.halted
    /\ \A r \in delegationRecords : r.status # "TRANSFER_IN_PROGRESS"
    /\ bank.deposit > 0

\* PrepareDelegation under a cache context: all of it or nothing.  z is the zone
\* with the new rate, sent whether the transfer can be sent.
PrepareDelegation(z, sent) ==
    IF sent /\ Transferrable(z)
    THEN LET id == FreshId(IdsOf(delegationRecords) \cup IdsOf(transfers))
         IN  /\ delegationRecords' = delegationRecords \cup
                  {[id |-> id, native |-> bank.deposit, status |-> "TRANSFER_IN_PROGRESS"]}
             /\ transfers' = transfers \cup
                  {[id |-> id, native |-> bank.deposit, state |-> "sent"]}
             /\ bank' = [bank EXCEPT !.deposit = 0]
    ELSE UNCHANGED <<delegationRecords, transfers, bank>>

HostReceivesTransfer(t, accepted) ==
    /\ t.state = "sent"
    /\ transfers' = (transfers \ {t}) \cup
         {[t EXCEPT !.state = IF accepted THEN "success" ELSE "failure"]}
    /\ IF accepted THEN UNCHANGED events ELSE Event
    /\ UNCHANGED <<day, zone, bank, stTokens, recordVars, host, history>>

SetStatus(records, id, status) ==
    {IF r.id = id THEN [r EXCEPT !.status = status] ELSE r : r \in records}

\* Mutant: the record of a failed transfer is kept.
FailedTransferKept(t) ==
    /\ delegationRecords' = SetStatus(delegationRecords, t.id, "DELEGATION_QUEUE")
    /\ bank' = [bank EXCEPT !.deposit = @ + t.native]

\* ArchiveFailedTransferRecord, then the transfer module refunds the sender.
FailedTransfer(t) ==
    /\ delegationRecords' = {r \in delegationRecords : r.id # t.id}
    /\ bank' = [bank EXCEPT !.deposit = @ + t.native]

OnAcknowledgementPacket(t) ==
    /\ \/ /\ t.state = "success"
          /\ delegationRecords' = SetStatus(delegationRecords, t.id, "DELEGATION_QUEUE")
          /\ UNCHANGED bank
       \/ t.state = "failure" /\ FailedTransfer(t)
    /\ transfers' = transfers \ {t}
    /\ UNCHANGED <<day, zone, stTokens, unbondingRecords, redemptionRecords, host,
                   history, events>>

OnTimeoutPacket(t) ==
    /\ t.state = "sent"
    /\ Event
    /\ FailedTransfer(t)
    /\ transfers' = transfers \ {t}
    /\ UNCHANGED <<day, zone, stTokens, unbondingRecords, redemptionRecords, host, history>>

HostDelegates(r) ==
    /\ r.status = "DELEGATION_QUEUE"
    /\ r.id \notin host.delegated
    /\ host' = [host EXCEPT !.delegated = @ \cup {r.id}, !.staked = @ + r.native]
    /\ UNCHANGED <<day, zone, bank, stTokens, recordVars, transfers, history, events>>

ConfirmDelegation(r) ==
    /\ r.id \in host.delegated  \* the operator confirms what was done
    /\ r.status = "DELEGATION_QUEUE"
    /\ delegationRecords' = delegationRecords \ {r}
    /\ zone' = [zone EXCEPT !.delegated = @ + r.native]
    /\ host' = [host EXCEPT !.delegated = @ \ {r.id}]
    /\ UNCHANGED <<day, bank, stTokens, unbondingRecords, redemptionRecords, transfers,
                   history, events>>
-----------------------------------------------------------------------------
(* Redemption and undelegation.                                            *)

NativeAmount(st, rate) == TruncateInt(Mul(NewDecFromInt(st), rate))

\* GetAccumulatingUnbondingRecord finds one, and only one.
AccumulatingFound == Cardinality(WithStatus("ACCUMULATING_REDEMPTIONS")) = 1
Accumulating == CHOOSE r \in WithStatus("ACCUMULATING_REDEMPTIONS") : TRUE

Plus(r, st, native) == [r EXCEPT !.st = @ + st, !.native = @ + native]

\* Mutant: a second redemption of a user in the same record replaces the first.
RedemptionsWithReplaced(user, st, native) ==
    {r \in redemptionRecords : ~(r.unbondingId = Accumulating.id /\ r.redeemer = user)}
      \cup {[unbondingId |-> Accumulating.id, redeemer |-> user, st |-> st, native |-> native]}

\* A user has one redemption record in each unbonding record.
RedemptionsWith(user, st, native) ==
    LET mine == {r \in RedemptionsOf(Accumulating.id) : r.redeemer = user}
        new  == [unbondingId |-> Accumulating.id, redeemer |-> user,
                 st |-> st, native |-> native]
    IN  (redemptionRecords \ mine)
          \cup IF mine = {} THEN {new} ELSE {Plus(r, st, native) : r \in mine}

RedeemStake(user, st) ==
    LET native == NativeAmount(st, zone.rate)
    IN  /\ ~zone.halted
        /\ RateInBounds
        /\ AccumulatingFound
        /\ stTokens[user] >= st
        /\ native <= zone.delegated
        /\ unbondingRecords' = (unbondingRecords \ {Accumulating})
                                  \cup {Plus(Accumulating, st, native)}
        /\ redemptionRecords' = RedemptionsWith(user, st, native)
        /\ stTokens' = [stTokens EXCEPT ![user] = @ - st]
        /\ bank' = [bank EXCEPT !.escrow = @ + st]
        /\ UNCHANGED <<day, zone, delegationRecords, transfers, host, history, events>>

AccumulatingRecord(id) == [id |-> id, st |-> 0, native |-> 0, left |-> 0,
                           status |-> "ACCUMULATING_REDEMPTIONS"]

Refreshed(r, rate) == [r EXCEPT !.native = NativeAmount(r.st, rate)]

\* PrepareUndelegation under a cache context; aged are the unbonding records
\* of the new day.  A record without native tokens is archived.
PrepareUndelegation(z, aged) ==
    IF ~z.halted /\ AccumulatingFound
    THEN LET record == Accumulating
             id     == FreshId(IdsOf(unbondingRecords) \cup IdsOf(host.undelegations)
                                 \cup {r.unbondingId : r \in redemptionRecords})
             redemptions == {Refreshed(r, z.rate) : r \in RedemptionsOf(record.id)}
             total  == Natives(redemptions)
             frozen == [record EXCEPT !.status = "UNBONDING_QUEUE", !.native = total]
         IN  /\ redemptionRecords' = (redemptionRecords \ RedemptionsOf(record.id))
                                        \cup redemptions
             /\ unbondingRecords' = (aged \ {record}) \cup {AccumulatingRecord(id)}
                                       \cup IF total = 0 THEN {} ELSE {frozen}
    ELSE unbondingRecords' = aged /\ UNCHANGED redemptionRecords

HostUndelegates(r) ==
    /\ r.status = "UNBONDING_QUEUE"
    /\ r.id \notin IdsOf(host.undelegations)
    /\ r.native <= host.staked
    /\ host' = [host EXCEPT !.staked = @ - r.native, !.undelegations = @ \cup
                  {[id |-> r.id, native |-> r.native, left |-> UnbondingPeriod,
                    status |-> "submitted"]}]
    /\ UNCHANGED <<day, zone, bank, stTokens, recordVars, transfers, history, events>>

\* VerifyImpliedRedemptionRateFromUnbonding, for a positive number of stTokens.
ImpliedRateWithinBounds(r) ==
    LET ratio == Quo(NewDecFromInt(r.native), NewDecFromInt(r.st))
    IN  ratio >= MinRedemptionRate /\ ratio <= MaxRedemptionRate

\* Mutant: the completion time is a day ahead, whatever the unbonding period.
CompletionAtOnce == 1
CompletionTime == UnbondingPeriod

ConfirmUndelegation(r, u) ==
    /\ u.id = r.id /\ u.status = "submitted"  \* the operator confirms what was done
    /\ r.status = "UNBONDING_QUEUE"
    /\ r.native > 0 /\ r.st > 0
    /\ r.native <= zone.delegated
    /\ r.st <= bank.escrow
    /\ ImpliedRateWithinBounds(r)
    /\ unbondingRecords' = (unbondingRecords \ {r}) \cup
         {[r EXCEPT !.status = "UNBONDING_IN_PROGRESS", !.left = CompletionTime]}
    /\ zone' = [zone EXCEPT !.delegated = @ - r.native]
    /\ bank' = [bank EXCEPT !.escrow = @ - r.st]
    /\ host' = [host EXCEPT !.undelegations =
                  (@ \ {u}) \cup {[u EXCEPT !.status = "confirmed"]}]
    /\ UNCHANGED <<day, stTokens, delegationRecords, redemptionRecords, transfers,
                   history, events>>
-----------------------------------------------------------------------------
(* Sweep and claims.                                                       *)

\* The operator sends back what has matured, once the record says so.
HostSweeps(u) ==
    /\ u.status = "confirmed" /\ u.left = 0
    /\ \A r \in WithStatus("UNBONDING_IN_PROGRESS") : r.id # u.id
    /\ host' = [host EXCEPT !.undelegations = @ \ {u}]
    /\ bank' = [bank EXCEPT !.claim = @ + u.native]
    /\ UNCHANGED <<day, zone, stTokens, recordVars, transfers, history, events>>

\* Mutant: the claim account must hold more than the record.
SweptMore(r) == bank.claim > r.native
\* The claim account need only hold this record's tokens, or another's: a sweep
\* that is confirmed before its tokens arrive may pass.
Swept(r) == bank.claim >= r.native

ConfirmUnbondedTokenSweep(r) ==
    /\ r.status = "UNBONDED"
    /\ r.native > 0 /\ r.st > 0
    /\ Swept(r)
    /\ IF r.id \in IdsOf(host.undelegations) THEN Event ELSE UNCHANGED events
    /\ unbondingRecords' = SetStatus(unbondingRecords, r.id, "CLAIMABLE")
    /\ UNCHANGED <<day, zone, bank, stTokens, delegationRecords, redemptionRecords,
                   transfers, host, history>>

MarkFinishedUnbondings ==
    {IF r.status = "UNBONDING_IN_PROGRESS" /\ r.left = 0
     THEN [r EXCEPT !.status = "UNBONDED"] ELSE r : r \in unbondingRecords}

Archived(records, claimable) == {r \in records : r.id \notin IdsOf(claimable)}

\* DistributeClaims pays every redemption of every claimable record, or none.
HourEpoch ==
    LET claimable == WithStatus("CLAIMABLE")
        due == {r \in redemptionRecords : r.unbondingId \in IdsOf(claimable)}
    IN  /\ IF ~zone.halted /\ Natives(due) <= bank.claim
           THEN /\ unbondingRecords' = Archived(MarkFinishedUnbondings, claimable)
                /\ redemptionRecords' = redemptionRecords \ due
                /\ bank' = [bank EXCEPT !.claim = @ - Natives(due)]
                /\ paid' = paid + Natives(due)
           ELSE /\ unbondingRecords' = MarkFinishedUnbondings
                /\ UNCHANGED <<redemptionRecords, bank, paid>>
        /\ UNCHANGED <<day, zone, stTokens, delegationRecords, transfers, host, income,
                       slashed, events>>
-----------------------------------------------------------------------------
(* Days, rewards and slashes.                                              *)

Aged(records) == {[r EXCEPT !.left = IF @ = 0 THEN 0 ELSE @ - 1] : r \in records}

\* A day passes.  If the rate cannot be updated nothing else is done.
DayEpoch(sent) ==
    /\ IF sent THEN UNCHANGED events ELSE Event
    /\ day' = (day + 1) % UnbondingFrequency
    /\ host' = [host EXCEPT !.undelegations = Aged(@)]
    /\ IF RateUpdatable
       THEN /\ zone' = UpdatedZone
            /\ PrepareDelegation(zone', sent)
            /\ IF day' = 0
               THEN PrepareUndelegation(zone', Aged(unbondingRecords))
               ELSE /\ unbondingRecords' = Aged(unbondingRecords)
                    /\ UNCHANGED redemptionRecords
       ELSE /\ unbondingRecords' = Aged(unbondingRecords)
            /\ UNCHANGED <<zone, delegationRecords, redemptionRecords, transfers, bank>>
    /\ UNCHANGED <<stTokens, history>>

\* Staking rewards arrive from the host: one token each for deposits and fees.
RewardsArrive ==
    /\ host.staked > 0
    /\ Event
    /\ income' = income + 2
    /\ bank' = [bank EXCEPT !.deposit = @ + 1, !.fees = @ + 1]
    /\ UNCHANGED <<day, zone, stTokens, recordVars, transfers, host, paid, slashed>>

HostSlashed ==
    /\ ~slashed  \* bound: one slash
    /\ host.staked > 0
    /\ Event
    /\ host' = [host EXCEPT !.staked = @ - 1, !.slash = @ + 1]
    /\ slashed' = TRUE
    /\ UNCHANGED <<day, zone, bank, stTokens, recordVars, transfers, income, paid>>

\* The SAFE account enters the slash.
AdjustDelegatedBalance ==
    /\ host.slash > 0
    /\ zone.delegated >= host.slash
    /\ zone' = [zone EXCEPT !.delegated = @ - host.slash]
    /\ host' = [host EXCEPT !.slash = 0]
    /\ income' = income - host.slash
    /\ UNCHANGED <<day, bank, stTokens, recordVars, transfers, paid, slashed, events>>
-----------------------------------------------------------------------------
Init ==
    /\ day = 0
    /\ zone = [rate |-> Precision, delegated |-> 0, halted |-> FALSE,
                inner |-> <<MinRedemptionRate, MaxRedemptionRate>>]
    /\ bank = [deposit |-> 0, fees |-> 0, escrow |-> 0, claim |-> 0]
    /\ stTokens = [h \in Holders |-> 0]
    /\ delegationRecords = {} /\ redemptionRecords = {} /\ transfers = {}
    /\ unbondingRecords = {AccumulatingRecord(1)}
    /\ host = [staked |-> 0, delegated |-> {}, undelegations |-> {}, slash |-> 0]
    /\ income = 0 /\ paid = 0 /\ slashed = FALSE /\ events = 0

Next ==
    \/ \E u \in Users, a \in StakeAmounts : LiquidStake(u, a)
    \/ \E u \in Users, a \in RedeemAmounts : RedeemStake(u, a)
    \/ \E sent \in BOOLEAN : DayEpoch(sent)
    \/ HourEpoch
    \/ LiquidStakeAndDistributeFees
    \/ BeginBlocker
    \/ ResumeHostZone
    \/ RefreshRedemptionRate
    \/ \E b \in InnerBounds : UpdateInnerRedemptionRateBounds(b)
    \/ \E t \in transfers : \/ \E accepted \in BOOLEAN : HostReceivesTransfer(t, accepted)
                            \/ OnAcknowledgementPacket(t)
                            \/ OnTimeoutPacket(t)
    \/ \E r \in delegationRecords : HostDelegates(r) \/ ConfirmDelegation(r)
    \/ \E r \in unbondingRecords : HostUndelegates(r) \/ ConfirmUnbondedTokenSweep(r)
    \/ \E r \in unbondingRecords, u \in host.undelegations : ConfirmUndelegation(r, u)
    \/ \E u \in host.undelegations : HostSweeps(u)
    \/ RewardsArrive
    \/ HostSlashed
    \/ AdjustDelegatedBalance

Spec == Init /\ [][Next]_vars

\* Epochs keep starting, packets are relayed, and the operator does its work and
\* confirms it.  A confirmation is only promised for tokens that did arrive.
Fairness ==
    /\ WF_vars(DayEpoch(TRUE)) /\ WF_vars(HourEpoch)
    /\ WF_vars(LiquidStakeAndDistributeFees) /\ WF_vars(BeginBlocker)
    /\ WF_vars(\E t \in transfers : HostReceivesTransfer(t, TRUE))
    /\ WF_vars(\E t \in transfers : OnAcknowledgementPacket(t))
    /\ WF_vars(\E r \in delegationRecords : HostDelegates(r))
    /\ WF_vars(\E r \in delegationRecords : ConfirmDelegation(r))
    /\ WF_vars(\E r \in unbondingRecords : HostUndelegates(r))
    /\ WF_vars(\E r \in unbondingRecords, u \in host.undelegations : ConfirmUndelegation(r, u))
    /\ WF_vars(\E u \in host.undelegations : HostSweeps(u))
    /\ WF_vars(\E r \in unbondingRecords : /\ r.id \notin IdsOf(host.undelegations)
                                           /\ ConfirmUnbondedTokenSweep(r))

FairSpec == Spec /\ Fairness
-----------------------------------------------------------------------------
Undelegating(r) == r.status \in {"UNBONDING_IN_PROGRESS", "UNBONDED", "CLAIMABLE"}
UndelegationsIn(status) == {u \in host.undelegations : u.status = status}

\* There is at most one transfer to the host at any time, and a record waits for
\* a transfer exactly when one with its amount is in flight: no timeout or refused
\* packet leaves a record behind.
TransfersMatched ==
    /\ Cardinality(transfers) <= 1
    /\ {<<r.id, r.native>> : r \in {d \in delegationRecords : d.status = "TRANSFER_IN_PROGRESS"}}
         = {<<t.id, t.native>> : t \in transfers}

\* Every token that came in is in the deposit or fee account, in a delegation
\* record, delegated, in an unbonding record that was confirmed, or paid out: a
\* retry after a failed transfer counts nothing twice.  And the claim account and
\* the undelegations on the host cover exactly the redemptions that wait for them,
\* also when a sweep was confirmed before its tokens arrived and was paid with the
\* tokens of another record.
NothingLost ==
    LET undelegating == {r \in unbondingRecords : Undelegating(r)}
    IN  /\ income = bank.deposit + bank.fees + Natives(delegationRecords) + zone.delegated
                      + Natives(undelegating) + paid
        /\ bank.claim + Natives(UndelegationsIn("confirmed")) = Natives(undelegating)

\* The delegated balance on Stride differs from the multisig's stake only by what
\* the operator has done and not yet confirmed, and by slashes not yet entered; and
\* no record is marked UNBONDED while its tokens are still unbonding on the host.
HostTracked ==
    /\ zone.delegated + Natives({r \in delegationRecords : r.id \in host.delegated})
         = host.staked + Natives(UndelegationsIn("submitted")) + host.slash
    /\ \A r \in WithStatus("UNBONDED") \cup WithStatus("CLAIMABLE"), u \in host.undelegations :
          r.id = u.id => u.left = 0

\* The redemptions of an unbonding record add up to the record, in stTokens and in
\* native tokens, before and after PrepareUndelegation refreshes them; the escrow
\* account holds the stTokens of the records not yet undelegated; and no redemption
\* outlives its record.
RedemptionBooksAgree ==
    /\ \A r \in unbondingRecords :
          /\ r.native = Natives(RedemptionsOf(r.id))
          /\ r.st = StTokens(RedemptionsOf(r.id))
    /\ bank.escrow = StTokens({r \in unbondingRecords : ~Undelegating(r)})
    /\ \A d \in redemptionRecords : d.unbondingId \in IdsOf(unbondingRecords)

\* Without slashing a new rate takes from the holders no more than the rounding of Quo, on
\* their stTokens and on those already redeemed at the rounded rate (at most a unit of its
\* last digit for each token that came in): neither minting, freezing and confirming
\* redemptions, nor failed transfers dilute them.
RedemptionRateNeverFalls ==
    [][slashed \/ (zone.rate - zone'.rate) * StSupply <= StSupply + income]_vars

\* Every redemption is paid, unless there is a slash or the zone is halted.
RedemptionsEventuallyPaid ==
    [](~slashed /\ ~zone.halted) =>
        \A u \in Users : (\E r \in redemptionRecords : r.redeemer = u)
                            ~> (\A r \in redemptionRecords : r.redeemer # u)
=============================================================================
