# A TLA+ verification of Stride

Stride is a Cosmos SDK chain for liquid staking. A user deposits a native token of
another chain (a *host zone*) and receives an stToken; the native token is moved to the
host zone over IBC and delegated there by interchain accounts (ICAs) that Stride
controls. An stToken is redeemed by undelegating on the host zone, waiting for the
unbonding period, sweeping the tokens to a redemption account and paying them out.

Everything that matters happens in several steps on two chains, and every step between
them can fail, time out or be acknowledged late. The modules here model that control
flow, check that the records Stride keeps agree with the tokens the two chains hold, and
prove some of it for every size of the system.

`PROJECT.json` lists the components, the runs, one mutation of the model per property
that makes the property fail, the source lines every definition models, the hazards that
guided the choice of properties, and the theorems.

## The system and the modules

| part of the system | module | what happens there |
|---|---|---|
| stakeibc and records: deposits, delegation, redemption rate, halting | `DepositRecords` | a token from `MsgLiquidStake` until it is delegated |
| stakeibc and records: redemptions | `UnbondingRecords` | an stToken from `MsgRedeemStake` until the claim is paid |
| stakeibc: validator selection | `ValidatorSelection` | targets, unbonding cascade, rebalancing |
| stakeibc: validator ledger | `ValidatorLedger` | recorded against real delegations; slash and calibration queries |
| stakeibc and records: LSM tokens | `LSMTokenDeposits` | tokenized shares, from `MsgLSMLiquidStake` to detokenization |
| interchainquery | `InterchainQuery`, and `QueryService` as its specification | queries, proofs, timeouts, retries |
| stakedym | `StakeDym` | liquid staking through a multisig and an operator |
| icaoracle | `IcaOracle` | metrics pushed to contracts on other chains |

`IcaBatches` is shared by deposits and redemptions (the ways an amount is cut into ICA
batches), `LegacyDec` is the fixed-point arithmetic of cosmossdk.io/math with its
rounding, with a precision of 100 in the runs, so that rounding matters on small amounts.
`MC*` modules give small instances; `*Proofs` modules hold the theorems.

How the parts interact. `interchainquery` carries the slash queries that `ValidatorLedger`
and `LSMTokenDeposits` depend on: those two take a query as a slot that is read on the host
at some moment and answered later, retried or dropped, which are the outcomes
`QueryService` allows and `InterchainQuery` is proved to have. `icacallbacks` delivers the
outcome of an ICA to the module that sent it; this is part of each callback action, and a
callback that fails leaves its packet at the head of the ordered channel, as in the code.
The delegation channel is shared by delegations, undelegations, sweeps, redelegations and
detokenizations. Each module has the packets of its own component on that channel and lets
it close and be restored at any time, which is what the other components can do to it.
The epochs module is an action that may happen at any moment.

### DepositRecords

State: the deposit record store, one transfer and a set of delegate ICAs per record, the
delegation channel (open, closed, in its handshake), the reinvestment ICA, the host zone's
`Halted`, `RedemptionRate` and `TotalDelegations`, and the three balances that tell where
the tokens are. Actions are the message and callback handlers: `LiquidStake`;
`StrideEpochStart` (the deposit steps of `BeforeEpochStart` in their order) and `StrideEpochWithErrors` where a transfer or an ICA cannot be sent;
the transfer and delegate callbacks; `BeginBlocker` with the safety bounds; reinvestment;
closing and restoring; `RemoveValidator`. The epoch handler is one action, since it runs in
one block. The batches of a record are executed and answered in the order of the channel;
between records no order is kept, which allows more than the ordered channel does.

`DelegateCallback` returns an error when a validator of the batch is no longer in the zone.
The packet is then answered neither by an acknowledgement nor by a timeout: the batch is in
`orphaned` until a restore forgets the packets of the old channel.

Record identifiers that nothing refers to are reused. A record's epoch number is only ever
compared with the current epoch, so that it is a Boolean.

### UnbondingRecords

State: host zone unbonding records and user redemption records by day, escrowed stTokens,
the undelegate and sweep packets in channel order, the claim ICAs, and on the host the
stake, the unbonding entries by time left, and the balances. Actions: `RedeemStake`, the
day epoch (a new record, the refresh of native amounts, the unbonding with its retry queue
and its batches), the stride epoch (sweep, rate), the undelegate callback with its cascade
over records, the sweep callback, claims, cleanup, both restores. Users redeem for
`MaxDays` days; later records stay empty.

### ValidatorSelection

Pure code with loops: `GetTargetValAmtsForHostZone`, the sort by unbonding priority, the
capacities and the rounding buffer for slashed validators, `GetUnbondingICAMessages`, and
the two-pointer loop of `GetRebalanceICAMessages`. The zone and the request are chosen in
the initial state, each turn of a loop is a step, and the properties are the reference
definitions the result is compared with.

### ValidatorLedger

State: the validators of the zone (delegation, rate, weight, changes in progress, slash
query flag) beside the shares and rates on the host; ICAs in channel order, of all four
kinds; rate queries with unique ids, delegation and calibration queries with shared ids. An
answer keeps the value that was read, so that anything can happen between reading and
using it. Validators can be added, reweighted and deleted.

### LSMTokenDeposits

State: the deposit store by denom, the tokens of stakers and of both accounts, progress
and checkpoint of the slash query, rate queries with the stake that waits for them,
transfers, detokenizations. `LSMLiquidStake` is the transaction, the callback of the query
its second half. `unverified` and `lost` are history variables, used in properties and never
in guards.

### InterchainQuery and QueryService

State: the query store, the counter of unique ids, the heights of the light client and of
the host, and how each request concluded. Relayers answer any stored query, with a proof at
any height the light client can verify, as often as they like. A callback may return an error
(`CallbackFails`): the transaction is reverted, the query stays in the store, and its event is
not emitted again, since `RequestSent` is set. `refused` remembers this. `QueryService` says what the
users of the module rely on, with neither heights, ids nor relayers. The refinement mapping
takes `open` to the requests in the store.

### StakeDym

State: the zone, the bank balances of its accounts, the three record stores, transfers, and
the multisig's stake and undelegations. The operator's work on the host and its
confirmations on Stride are separate actions and happen in any order, also a sweep that is
confirmed before its tokens arrive. Records that are archived disappear.

### IcaOracle

State: oracles, metric store and queue index, channels with their handshakes, packets, and the
light clients that have expired, with which no packet or handshake message can be processed. A
submission that fails for this reason is logged (`icaoracle.go:114`) and the metric counts as
sent all the same.
`EndBlocker` submits the whole queue and ends the block: what was registered in it goes on to
its handshake.

## Runs

| run | specification | states | what it shows |
|---|---|---|---|
| `deposit_orderly` | `FairSpec` | 27,081 | tokens are in one place and counted once; counters are exact; every deposit is staked |
| `deposit_lost` | `Spec` | 142,708 | with lost acknowledgements and removed validators delegations are never overstated and the rate does not fall |
| `unbonding` | `FairSpec` | 99,708 | the redemption, unbonding and escrow ledgers agree; nothing is undelegated, swept or paid twice; records do not go back; every redemption becomes claimable |
| `selection` | `Spec` | 501,496 | targets are proportional; unbondings take exactly the amount; rebalancing reaches the targets with redelegations the host accepts |
| `ledger_exact` | `Spec` | 1,842,527 | the recorded delegation is the host's whenever nothing is in flight |
| `ledger_membership` | `Spec` | 2,072,196 | with calibrations and a changing validator set it drifts by no more than the calibration threshold |
| `ledger_live` | `FairSpec` | 50,524 | every slash is recorded |
| `lsm` | `FairSpec` | 224,958 | a waiting stake and its query match; the status says where tokens are; nothing is credited twice; checkpoints are not skipped; deposits settle |
| `icq` | `FairSpec` | 241,925 | answers are newer than what Stride knew; `QueryService` is implemented; queries conclude unless their callback failed |
| `stakedym` | `FairSpec` | 147,613 | transfers match records; tokens and redemptions add up; the rate does not fall; redemptions are paid |
| `icaoracle` | `FairSpec` | 152,704 | queue and store agree; callbacks are found; no metric without an oracle; queued metrics are resolved unless the client expires |
| `icaoracle_restore` | `Spec` | violation | metrics that wait while a channel is restored are never sent |

The comment above each property says which code it is about. No run is a copy of another
with larger numbers: the two deposit runs have opposite assumptions about relayers, the
three ledger runs have different sets of operations.

### Bounds

Bounds are constants named in the modules and given in the `.cfg` files.

* Faults (`MaxFaults`, `MaxEvents`, `MaxDelays`) are one or two per run. Two let one fault
  hit the recovery from another, such as a timeout after a failed batch of the same record,
  which is where the counters get complicated.
* Batches: two per submission, so that outcomes mix. The theorems hold for any number.
* Deposits: four identifiers suffice for 4 or 5 tokens in stakes of 2, since an empty record
  is created per epoch and soon removed. The upper safety bound of 150 in `deposit_lost` is
  crossed by rewards, so that `BeginBlocker` halts the zone.
* Redemptions: two users and two days give records that are retried together with newer
  ones. Redemptions are of 3 stTokens at rates of 1 and 1.5: a refresh turns 3 native tokens
  into 4, which are undelegated in two batches, and the implied rate of 4/3 is rounded to 1.33,
  so that the stTokens burnt for a batch are rounded too. The initial stake of 10 exceeds all
  that is redeemed (see *Where code and comments differ*).
* Selection: all zones of three validators with weights 0, 1, 3 and delegations 0, 1, 5,
  slashed or not, with or without a slash query, and amounts 1, 4, 7. A safety divisor of 4
  makes the rounding buffer nonzero.
* Ledger: three ICAs, two slashes and a fault; one rate query at a time when the question is
  exactness, two in `ledger_live` so that answers come out of order. Precision thresholds are
  scaled to delegations of 8.
* LSM: two tokens, one of which crosses the checkpoint (half of the zone's delegations).
* Queries: two of four requests, covering all policies and a shared id, and twelve heights.
  `CHECK_DEADLOCK FALSE`, as the last height ends the run.
* stakedym: undelegation every second day instead of every fourth and an unbonding period of
  two days, which lets a record unbond while the next one accumulates; the outer upper bound
  of 1.4 is crossed when a reward has lifted the rate to 1.25 and the rounding of a redemption
  lifts it to 1.5. The second pair of inner bounds, 1.1 to 1.4, leaves out the initial rate, so
  that a change of bounds halts the zone by itself. One event (a reward, a slash, a failed
  transfer, an early confirmation or a change of bounds) happens per behaviour.
* icaoracle: three channels, so that a restored channel can close again.

No symmetry is used: sets of users and validators have at most three elements, and the
temporal properties would not allow it.

### Fairness

Liveness rests on what the environment of the code provides, stated in each module's
`Fairness`: blocks and epochs go on; relayers relay what can be relayed, and the packets of a
closed channel time out; a closed account is restored, which `MsgRestoreInterchainAccount`
and `MsgRestoreOracleICA` let anyone do; queries are answered. In addition
`LSMTokenDeposits` assumes that a halted zone is resumed, `ValidatorLedger` that rates keep
being queried and that relayers answer a query again after an answer was rejected, although its
event is emitted once (the proof of a later height is theirs to send), and `StakeDym` that the operator does its work and confirms it. No user,
fault, governance message or parameter change is ever assumed to happen, and no strong
fairness is used. Faults are finitely many because they are bounded. What has no recovery in the
code is excepted in the property itself: a query whose callback failed (`QueriesConclude`), a
client that is not recovered (`QueuedMetricsResolved`), a removed validator
(`DepositsEventuallyStaked` is checked without removals).

`AcksBeforeClose`, `AcksBeforeMaturity` and `OldPackets` are the assumptions about relayers
that some properties need: that an ICA does not time out while an executed one on the same
channel awaits its acknowledgement; that undelegations are acknowledged or time out within
the unbonding period; and that the packets of a closed channel time out before the account
is restored. The code cannot enforce them. `ValidatorLedger` has the first built in (its
channel closes only when no executed ICA awaits its acknowledgement). `deposit_lost` and
`lsm` are without them, and the theorems on claims, on stakedym and on LSM tokens need none.

After a restore, the deposit, redemption, ledger and LSM models relay no timeout of the old
channel: what was not answered by then is never answered. The comment at `msg_server.go:577`
makes the same assumption ("any ICAs along the original channel will never get relayed"); a
timeout that did arrive later would find a counter that was reset.

## Proofs

The proofs are checked by TLAPS with Z3, Zenon and LS4. They hold for every value of the
constants that satisfies the named assumptions of the module (`DepositAssumptions`,
`UnbondingAssumptions`, `QueryAssumptions`, `IcaOracleAssumptions`, `StakeDymAssumptions`,
`LSMAssumptions`, `MaxBatchesAssumption`, `PrecisionAssumption`), the bounds included, which are arbitrary natural numbers.

**`DepositRecordsProofs`: `TxsExact`.** Under `OrderlyRelaying`, which by `DepositAssumptions`
excludes the removal of validators with a batch in flight, `DelegationTxsInProgress` of a record
is the number of its ICAs in flight. The invariant `IInv` adds to the counter that a record with ICAs in flight
has one of the two delegation statuses, that one with a transfer is in
`TRANSFER_IN_PROGRESS`, and that its pending ICAs are pieces of one submission whose tokens
the record still holds (`CutAt`, with a function that says where the submission was cut).
The last is needed because `DelegateCallback` subtracts a batch's amount from the record and
removes the record when it reaches zero: without it a record could be removed with another
batch in flight. An executed ICA is never left on a channel that is not open, which is what
`AcksBeforeClose` provides.

**`DepositRecordsProofs`: `TypesAlwaysOK`, `NeverOverstated`, `AccountsAlwaysBacked`,
`RateNeverFalls`.** `GInv` needs no hypothesis on relaying: types, the shape of a record before
its delegation, orphaned batches or not, `TotalDelegations` plus what is staked but unacknowledged at most the stake, and
`Locked` (what the redemption rate counts: undelegated deposits, delegations and the transfers
of records) not negative. It gives the first two theorems. `Ledger` restates `AccountsBacked`
as sums over records of what each has queued, landed and staked but unacknowledged. Each action changes
one record, so that each sum changes by that record's difference (`OneRecord`); the two epochs
change many at once and are treated as such (`EpochLedger`). It needs `OrderlyRelaying`, as an
acknowledgement that is lost leaves the record to be delegated again. `RateNeverFalls` says
that without slashing the rate falls by no more than one unit of its last digit. The
invariant `RateBacked` bounds supply times rate by `Locked`. A stake keeps it because the
stTokens minted are worth no more than the tokens paid, which with the round-half-even of
`Quo` is true below a rate of two (`StakeRounding`). Hence the hypothesis
`MaxSafetyThreshold < 2 * Precision`: above it `LiquidStake` is refused, and the default
threshold is 1.5. The assumption that `MinSafetyThreshold` is positive is what
`x/stakeibc/types/params.go` validates.

**`UnbondingRecordsProofs`: `RedemptionsPaidOnce`.** A redemption is paid at most once and in
full, with any relayer behaviour, lost acknowledgements included. `PInv` says that a claim in
flight keeps `ClaimIsPending` set and belongs to an earlier day, and that after a payment
only the acknowledgement may follow (or never come). Two facts about the rest of the system
are needed so that nothing else changes a redemption that is claimed: today's record is not
yet in unbonding (`OpenDay`), and the packets in flight concern earlier days
(`PacketsOfThePast`).

**`UnbondingRecordsProofs`: `TxsAlwaysExact`, `StatusNeverRegresses`.**
`UndelegationTxsInProgress` of a record is the number of its undelegations in flight, and a
record that was unbonded or swept never goes back. `UInv` adds to `PInv` the agreement of
records and packets (`Consistent`): a record with an undelegation in flight is not swept and
its unbonding time is still to come, so that no sweep can start; a swept one is in
`EXIT_TRANSFER_IN_PROGRESS`, in one sweep at a time; and the counter is a cardinality of
packets. The hypothesis `AcksBeforeMaturity` is needed: an acknowledgement that comes after
the unbonding period finds a record that may be swept or claimable already, and sets it
back (see below).

**`InterchainQueryProofs`: `AnswersFresh`, `ImplementsService`.** A callback never receives a
host state older than what Stride had processed when the query was stored: what a query
records as known is below its submission height, because the light client is ahead of all
that Stride has proved, and the proof height is not below the submission height.
`ImplementsService` is the refinement: the initial states map to initial states and each
action to `Submit`, `Conclude` or a stutter. It needs that stored queries differ in id and in
request, and that ids are sound: a unique id comes from the counter, below its present
value.

**`IcaOracleProofs`: `QueueAlwaysMatches`, `CallbacksAlwaysFound`,
`MetricsAlwaysHaveOracles`.** The three invariants with `TypeOK` and `RemovedOracles` (an
oracle that is not in the store has the fields of a new one) are inductive together. A block
submits any number of metrics in any order, which is dealt with once, in the lemma
`BlockICAs`.

**`StakeDymProofs`: `TransfersAlwaysMatched`.** There is at most one transfer to the host, and
the delegation records that wait are exactly those of transfers in flight. `TInv` states the
match in both directions and adds that the stores are finite, so that a new record gets an id
that is not in use, and hold one record per id, so that a confirmation ends one record.

**`StakeDymProofs`: `NothingEverLost`, `HostAlwaysTracked`, `RedemptionsAlwaysAddUp`.** `DInv` is
`TInv` with the shape of the four stores (`Stores`: one record accumulates, a record that is
being undelegated has its undelegation on the host, a redemption's record is its unbonding's)
and three equations: all income is in one place of the books, the claim account covers the
swept records, and the delegated balance is the stake on the host up to what is unconfirmed.
They are inductive only together. `RedemptionsAlwaysAddUp` has the hypothesis `[]Dustless`, no
redemption is worth less than one native token at the current rate: `PrepareUndelegation`
archives a record whose refreshed native amount is zero (`x/stakedym/keeper/unbonding.go:142`)
and leaves its redemptions and its escrowed stTokens behind. `RedeemStake` does not check this;
the minimum of 100,000 stTokens in `MsgRedeemStake` (`x/stakedym/types/msgs.go:119`) makes it true
at every rate above 0.00001. The property is `RedemptionBooksAgree`.

**`SumTheorems`.** Sums over finite sets (`SumFunctionOnSet`) with an element added, removed or
changed, over disjoint unions, pointwise sums and equal functions. Induction over a finite set
is done with the library's theorem on minimal elements of a well-founded relation, which
takes a set and no operator.

**`LSMTokenDepositsProofs`: `PendingAlwaysMatched`.** A stake that waits for a slash query has
the one `DEPOSIT_PENDING` record of its denom, and its query ends that record and no other,
with any faults and lost acknowledgements. `LInv` also follows the packets: each transfer is of
a record in `TRANSFER_IN_PROGRESS` and each detokenization of one in
`DETOKENIZATION_IN_PROGRESS`, at most one of each kind per denom. This is needed because the
callbacks write the record of their denom, or remove it, without a look at its status: only
the discipline of the statuses keeps them from the record of a later stake.

**`LSMTokenDepositsProofs`: `AlwaysInCustody`.** The status of a deposit says where its tokens
are. `CustodyInv` restates the counts of packets as whether there is one (`Placed`), since `LInv`
allows one per denom, and adds what a closed channel needs: the host executes ICAs in order,
so that the lost acknowledgements are those of a prefix (`InOrder`), and a denom whose
successful acknowledgement was lost has no other success in flight (`LostOK`, `Placed`). The
host redeems tokens only while the account holds them, which is why a detokenization sent again
after a restore fails and is not counted a second time. The theorem also rests on `HostRateOK`, that
the host's rates are natural numbers.

**`LSMCreditProofs`: `SlashesAlwaysChecked`, `AlwaysCredited`.** `SlashInv` says that what was
staked without a query is at most the progress since the last multiple of the checkpoint
(`Checked`), from which `SlashesChecked` follows. A stake that crosses a multiple waits for a
query, one that does not adds the same amount to both sides (`SameQuotient`), and a new
checkpoint is stored only with an answer. `CreditInv` has the ledger equation itself
(`Balanced`), a sum over the packets of the channel; that the changes in progress of a
validator are at least its detokenizations in flight (`Counted`); and that a removed validator
has no deposits (`Kept`). The last two are what makes `DetokenizeCallback` succeed. `Balanced`
needs `CustodyInv`: only a success has a response.

Only model-checked:

* all liveness properties, which need fairness;
* `RedemptionsAddUp`, `UnbondedTokensTracked` and `SweepsCovered` of `UnbondingRecords`. An
  acknowledgement is spread over the records of its batch by a cascade (`UnbondedFrom`) whose sum
  must be the amount of the batch, and each share is turned into stTokens at a rounded implied
  rate. They add up over packets, records and users at once, and would be a proof of the size of all
  those of this component;
* `RedemptionRateNeverFalls` of `StakeDym`. When nearly all stTokens are redeemed at a rate that
  was rounded up, the others bear the rounding of all, so that the rate of the remaining ones can fall
  by several units of its last digit. Redemptions are frozen at one rate and confirmed at another, and
  no inductive form of the bound was found;
* the properties of `ValidatorLedger`. They hold for the messages of their runs and not for
  every value of the constants: the section below has the cases where they fail;
* the properties of `ValidatorSelection`, which are about recursive algorithms.

## Where code and comments differ

One disagreement is kept as a run. `icaoracle_restore`: a comment in `icaoracle.go` says that
a metric in progress is queued again once a closed channel is restored. `RestoreOracleICA`
does queue the metrics, but the end of that same block marks them in progress again without
sending anything, as the new channel is still in its handshake, and nothing queues them
afterwards.

The others limit what the passing runs state. Each can be reproduced by changing the
configuration named here, or follows from the lines given.

* *Restored deposits* (`x/stakeibc/keeper/msg_server.go:588`). The restore resets the counter
  only of records in `DELEGATION_IN_PROGRESS`. One with a failed batch is back in
  `DELEGATION_QUEUE`; if its other batch is never relayed it keeps a counter above zero and
  is not delegated again. `DepositRecords_orderly.cfg` with `OldPackets = "dropped"` violates
  `TxsInProgressExact` and `DepositsEventuallyStaked`.
* *Late undelegation acknowledgements* (`icacallbacks_undelegate.go:250`). "If the record was
  already completed by a previous callback, continue" is decided by the status
  `EXIT_TRANSFER_QUEUE`; a record that was completed and swept is set back to it.
  `UnbondingRecords.cfg` with `AcksBeforeMaturity = FALSE` violates `NoStatusRegress` and
  `SweepsCovered`.
* *Redeeming everything* (`unbonding.go:456`). `RedeemStake` refuses only amounts above the
  stake, but when nothing would remain there are no targets and each daily unbonding fails.
  `UnbondingRecords.cfg` with `InitialStake = 6` violates `RedemptionsEventuallyClaimable`.
* *Rounding buffer* (`unbonding.go:290`). The comment at line 266 says that what a drained,
  slashed validator keeps is unbonded from the next one; when all the others are at their
  targets there is no capacity for it and the unbonding is refused (weight 0, slashed,
  delegation 2, beside weight 1, delegation 2; unbond 2). `UnbondingCovered` excepts zones
  with a slashed validator.
* *Calibration* (`icqcallbacks_callibrate_delegation.go:76`) does not look for ICAs in flight,
  whose tokens are then counted twice, up to the threshold. `ValidatorLedger_membership.cfg`
  violates `LedgerExact`; it satisfies `LedgerDriftBounded`.
* *Equal and opposite changes* (`icqcallbacks_delegator_shares.go:141`). A delegation and an
  undelegation of the same size during a query leave the delegation as it was at submission,
  and an outdated answer is taken. `LedgerExact` fails in `ledger_exact` once
  `MCMessages` contains an undelegation of 2.
* *Deleted validators* (`validator.go:99`). A validator can be removed while its first
  delegation or redelegation is in flight; the callback then fails, for the acknowledgement and
  for the timeout, and blocks the ordered channel until it is closed
  (`MsgCloseDelegationChannel`) and restored. `ValidatorLedger_membership.cfg` violates
  `ChangesExact`. In `deposit_lost` the batch is delegated again after the restore if it was
  executed, and a record with another, failed batch keeps its counter as above.
* *Contentless answers* (`x/interchainquery/keeper/msg_server.go:196`). An empty answer deletes
  the query without its callback. For a validator that was slashed before it was added and
  has no delegation, `SlashQueryInProgress` then stays set. `LedgerExact` and
  `LedgerDriftBounded` say nothing of validators with that flag, and
  `SlashesEventuallyRecorded` is checked without additions.
* *Failing query callbacks* (`x/interchainquery/keeper/msg_server.go:211`). Line 192 deletes the query
  "so it cannot process again", but an error of the callback reverts the deletion with the rest of
  the transaction. The query stays with `RequestSent` set: it can still be answered, and no event
  asks for an answer. A query with a shared id is sent anew when it is submitted again.
* *Failed metric submissions* (`x/icaoracle/keeper/icaoracle.go:114`). An error of
  `SubmitMetricUpdate` is logged and the metric is set to in progress. On an open channel, as with
  an expired client, nothing sends it again until the channel closes and is restored, or the
  oracle is removed.
* *Stale price of a waiting LSM stake* (`icqcallbacks_validator_exchange_rate.go:121`). The
  answer is compared with the rate stored now, not with the one the waiting stake was priced
  at; another query may have recorded a slash in between.
* *Resubmitted detokenizations* (`lsm.go:474`). The status is updated after the ICA is
  submitted, not before as the comment at line 433 says, so that a submission which fails is
  repeated in every block.
* *Historical answers* (`x/interchainquery/keeper/keeper.go:71`). The submission height is the
  light client's, which may lag behind the host, so that an answer may be older than the
  question. What holds, and is proved, is `AnswersReflectKnowledge`.
* *Claims whose acknowledgement is lost* (`msg_server.go:571`). Restoring the redemption account
  resets no claim, so that it stays pending: paid if the packet was executed, stuck if not.
  This is why no property says that claims end. That such a claim is not paid twice is shown by the
  theorem `RedemptionsPaidOnce`; the `unbonding` run has claims without lost acknowledgements.

## Not modelled

* `staketia`: it winds down, without new stakes; its confirmations, sweeps and claims are
  the ones `StakeDym` models. Its redemptions spill over into stakeibc
  (`HandleRedemptionSpillover`), which would take the ledgers of both modules in one model.
* Trade routes, reward conversion and community pool staking of stakeibc: chains of balance
  queries and transfers over three chains that keep no record between the steps.
* Registering host zones and accounts, parameters, rate limits: the models start from a
  registered zone. Fees and the reward collector appear only through what is reinvested.
* `autopilot`, `airdrop`, `claim`, `auction`, `strdburner`, `mint`: handlers that finish in one
  transaction, for which the unit tests enumerate the same cases a model would.
* `icqoracle`: price queries through `interchainquery`, whose lifecycle is that of
  `InterchainQuery`; what it adds is the decoding of an Osmosis pool.
* `epochs`: any schedule of epochs is allowed.
* Wiring, command line, queries, genesis, generated code, upgrades.

Within the modelled parts: one host zone at a time (zones share no records); several ICAs
for rewards at once (one reinvestment is in flight); slashing in the deposit and redemption
models (it is in `ValidatorLedger` and `LSMTokenDeposits`); the overwrite messages and the
archives of stakedym; and overflow, as amounts are 256-bit integers in the code, which no supply
comes near.

The map covers about 6,300 lines in 69 files, which is a small part of the repository by
count: 374,000 lines of its Go code are tables of airdrop allocations in `app/upgrades`, and
137,000 are generated from protobuf definitions.
The hand-written code of the modules under `x` has about 43,000 lines, and the keepers of
stakeibc, records, interchainquery, stakedym and icaoracle, whose control flow the modules
model, 14,000.
