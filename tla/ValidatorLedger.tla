-------------------------- MODULE ValidatorLedger --------------------------
(***************************************************************************)
(* The delegations x/stakeibc keeps for the validators of one host zone,   *)
(* beside the delegations the host zone really has.  Interchain accounts   *)
(* (ICAs) change both, in two steps each; a slash changes the host alone,  *)
(* and is found by a pair of interchain queries (ICQs):                    *)
(*                                                                         *)
(*   shares-to-tokens rate query -> the rate changed -> delegator shares   *)
(*   query -> tokens = shares * rate -> the slash is recorded.             *)
(*                                                                         *)
(* An answer describes the host as it was when it was read, so that it can *)
(* overlap ICAs, other answers and further slashes.                        *)
(*                                                                         *)
(* An ICA carries one message here (it is atomic on the host).  A channel  *)
(* closes only when no executed ICA awaits its acknowledgement.            *)
(***************************************************************************)
EXTENDS Integers, Sequences, FiniteSets, SequencesExt, LegacyDec

CONSTANTS
    Validators,
    Registered,         \* the validators of the zone at first
    Weights,            \* weights MsgChangeValidatorWeights sets
    InitialDelegation, InitialWeight,
    HostRates,          \* shares-to-tokens rates the host may have at first
    Messages,           \* what ICAs do: [kind, delta], the tokens of each validator
    RateQueries,        \* slots for rate queries: each gets a unique id
    PrecisionThreshold, CalibrationThreshold,   \* 1000 and 5000 in the code
    MaxIcas, MaxSlashes, MaxFaults, MaxCalibrations     \* bounds

ASSUME LedgerAssumptions ==
    /\ IsFiniteSet(Validators) /\ Registered \subseteq Validators
    /\ Weights \subseteq Nat /\ {InitialDelegation, InitialWeight} \subseteq Nat
    /\ HostRates \subseteq 1..Precision
    /\ Messages \subseteq [kind : {"delegate", "undelegate", "redelegate", "detokenize"},
                           delta : [Validators -> Int]]
    /\ {PrecisionThreshold, CalibrationThreshold} \subseteq Nat
    /\ {MaxIcas, MaxSlashes, MaxFaults, MaxCalibrations} \subseteq Nat

VARIABLES
    validators,         \* HostZone.Validators
    totalDelegations,   \* HostZone.TotalDelegations
    host,               \* shares of the delegation account and rate, by validator
    channel, icas,      \* delegation ICA channel, and the packets on it in order
    rateQueries, delegationQueries, calibrationQueries,
    icaCount, slashes, faults, calibrations

ledgerVars == <<validators, totalDelegations>>
icaVars    == <<channel, icas, icaCount>>
queryVars  == <<rateQueries, delegationQueries, calibrationQueries, calibrations>>
vars == <<ledgerVars, host, icaVars, queryVars, slashes, faults>>

\* AddValidatorToHostZone: the rate of a new validator is one.
Validator(weight, delegation) ==
    [registered |-> TRUE, weight |-> weight, delegation |-> delegation,
     rate |-> Precision, changes |-> 0, slashQuery |-> FALSE]
NoValidator == [Validator(0, 0) EXCEPT !.registered = FALSE]

NoQuery == [state |-> "none"]
Touched(ica) == {v \in Validators : ica.delta[v] # 0}
TokensFromShares(shares, rate) == TruncateInt(Mul(NewDecFromInt(shares), rate))
HostTokens(v) == TokensFromShares(host[v].shares, host[v].rate)
Total(f) == FoldSet(LAMBDA v, sum : sum + f[v], 0, Validators)

Init ==
    /\ validators = [v \in Validators |-> IF v \in Registered
                        THEN Validator(InitialWeight, InitialDelegation) ELSE NoValidator]
    /\ totalDelegations = Cardinality(Registered) * InitialDelegation
    /\ host \in [Validators -> [shares : {InitialDelegation, 0}, rate : HostRates]]
    /\ \A v \in Registered : host[v] = [shares |-> InitialDelegation, rate |-> Precision]
    /\ \A v \in Validators \ Registered : host[v].shares = 0
    /\ channel = "open" /\ icas = <<>>
    /\ rateQueries = [q \in RateQueries |-> NoQuery]
    /\ delegationQueries = [v \in Validators |-> NoQuery]
    /\ calibrationQueries = [v \in Validators |-> NoQuery]
    /\ icaCount = 0 /\ slashes = 0 /\ faults = 0 /\ calibrations = 0

Fault == faults < MaxFaults /\ faults' = faults + 1
-----------------------------------------------------------------------------
(* ICAs on the ordered delegation channel *)

\* What the submitting code asks of the validators.  Validators with a slash query in
\* progress get no delegation and are left out of unbondings and rebalancings.
Submittable(m) ==
    /\ \A v \in Touched(m) :
          /\ validators[v].registered
          /\ m.kind # "detokenize" => ~validators[v].slashQuery
          /\ m.kind \in {"delegate", "redelegate"} /\ m.delta[v] > 0 => validators[v].weight > 0
          /\ validators[v].delegation + m.delta[v] >= 0

SubmitIca(m) ==
    /\ channel = "open" /\ icaCount < MaxIcas
    /\ Submittable(m)
    /\ icas' = Append(icas, [kind |-> m.kind, delta |-> m.delta, state |-> "sent"])
    /\ validators' = [v \in Validators |->
          IF v \in Touched(m) THEN [validators[v] EXCEPT !.changes = @ + 1] ELSE validators[v]]
    /\ icaCount' = icaCount + 1
    /\ UNCHANGED <<totalDelegations, host, channel, queryVars, slashes, faults>>

\* The host executes packets in order; shares change at the validator's rate.
HostExecutes ==
    \E i \in DOMAIN icas :
      LET ica == icas[i]
          covered == \A v \in Touched(ica) : HostTokens(v) + ica.delta[v] >= 0
      IN  /\ channel = "open" /\ ica.state = "sent"
          /\ \A j \in 1..(i - 1) : icas[j].state # "sent"
          /\ \/ /\ covered
                /\ icas' = [icas EXCEPT ![i].state = "success"]
                /\ host' = [v \in Validators |-> [host[v] EXCEPT !.shares =
                              @ + TruncateInt(Quo(NewDecFromInt(ica.delta[v]), host[v].rate))]]
                /\ UNCHANGED faults
             \/ /\ icas' = [icas EXCEPT ![i].state = "failure"]
                /\ IF covered THEN Fault ELSE UNCHANGED faults
                /\ UNCHANGED host
          /\ UNCHANGED <<ledgerVars, channel, icaCount, queryVars, slashes>>

\* AddDelegationToValidator refuses to take more than there is; RebalanceCallback does
\* not look.
DelegationChangeAllowed(ica) ==
    ica.kind = "redelegate" \/ \A v \in Touched(ica) :
        /\ validators[v].delegation + ica.delta[v] >= 0
        /\ totalDelegations + ica.delta[v] >= 0

\* DelegateCallback, UndelegateCallback, RebalanceCallback and DetokenizeCallback, as far
\* as the validators go.  When a callback returns an error the acknowledgement is rejected.
CallbackAccepts(ica, status) ==
    /\ \A v \in Touched(ica) : validators[v].registered /\ validators[v].changes # 0
    /\ status = "success" => DelegationChangeAllowed(ica)

\* The validators after the callback.
AfterIca(ica, status) ==
    [v \in Validators |->
        IF v \in Touched(ica)
        THEN [validators[v] EXCEPT !.changes = @ - 1,
                !.delegation = IF status = "success" THEN @ + ica.delta[v] ELSE @]
        ELSE validators[v]]

\* The total after it; a redelegation leaves it alone.
Added(ica, status) ==
    IF status = "success" /\ ica.kind # "redelegate" THEN Total(ica.delta) ELSE 0

Callback(ica, status) ==
    /\ CallbackAccepts(ica, status)
    /\ validators' = AfterIca(ica, status)
    /\ totalDelegations' = totalDelegations + Added(ica, status)

IcaAcknowledged ==
    /\ channel = "open" /\ icas # <<>> /\ Head(icas).state # "sent"
    /\ Callback(Head(icas), Head(icas).state)
    /\ icas' = Tail(icas)
    /\ UNCHANGED <<host, channel, icaCount, queryVars, slashes, faults>>

\* A timeout closes the channel; the packets behind it can still time out.
IcaTimedOut ==
    /\ icas # <<>> /\ Head(icas).state = "sent"
    /\ \/ channel = "open" /\ Fault
       \/ channel = "closed" /\ UNCHANGED faults
    /\ channel' = "closed"
    /\ Callback(Head(icas), "timeout")
    /\ icas' = Tail(icas)
    /\ UNCHANGED <<host, icaCount, queryVars, slashes>>

\* MsgRestoreInterchainAccount resets the changes in progress of every validator; the
\* packets of the old channel are never relayed.  Mutant: they are not reset.
RestoredUnchanged == validators
Restored == [v \in Validators |-> [validators[v] EXCEPT !.changes = 0]]

RestoreInterchainAccount ==
    /\ channel = "closed" /\ channel' = "open"
    /\ validators' = Restored
    /\ icas' = <<>>
    /\ UNCHANGED <<totalDelegations, host, icaCount, queryVars, slashes, faults>>
-----------------------------------------------------------------------------
(* The host, and the admin messages *)

HostSlashes(v) ==
    /\ slashes < MaxSlashes /\ slashes' = slashes + 1
    /\ host' = [host EXCEPT ![v].rate = @ \div 2]
    /\ UNCHANGED <<ledgerVars, icaVars, queryVars, faults>>

\* A rate query is submitted with a unique id: several may be in flight.
SubmitRateQuery(v) ==
    \E q \in RateQueries :
        /\ rateQueries[q] = NoQuery
        /\ rateQueries' = [rateQueries EXCEPT ![q] = [state |-> "sent", validator |-> v]]

UpdateValidatorSharesExchRate(v) ==
    /\ validators[v].registered /\ SubmitRateQuery(v)
    /\ UNCHANGED <<ledgerVars, host, icaVars, delegationQueries, calibrationQueries,
                   calibrations, slashes, faults>>

AddValidators(v, weight) ==
    /\ ~validators[v].registered
    /\ validators' = [validators EXCEPT ![v] = Validator(weight, 0)]
    /\ SubmitRateQuery(v)
    /\ UNCHANGED <<totalDelegations, host, icaVars, delegationQueries, calibrationQueries,
                   calibrations, slashes, faults>>

\* Refused while an LSM token deposit of the validator exists, which it does until its
\* detokenization is acknowledged.
DeleteValidator(v) ==
    /\ validators[v].registered
    /\ \A i \in DOMAIN icas : icas[i].kind = "detokenize" => v \notin Touched(icas[i])
    /\ validators[v].delegation = 0 /\ validators[v].weight = 0
    /\ validators' = [validators EXCEPT ![v] = NoValidator]
    /\ UNCHANGED <<totalDelegations, host, icaVars, queryVars, slashes, faults>>

ChangeValidatorWeight(v, weight) ==
    /\ validators[v].registered /\ validators[v].weight # weight
    /\ validators' = [validators EXCEPT ![v].weight = weight]
    /\ UNCHANGED <<totalDelegations, host, icaVars, queryVars, slashes, faults>>

CalibrateDelegation(v) ==
    /\ validators[v].registered
    /\ calibrations < MaxCalibrations /\ calibrations' = calibrations + 1
    /\ calibrationQueries' = [calibrationQueries EXCEPT ![v] = [state |-> "sent"]]
    /\ UNCHANGED <<ledgerVars, host, icaVars, rateQueries, delegationQueries, slashes, faults>>
-----------------------------------------------------------------------------
(* Query responses.  A relayer reads the host after the query was submitted, and the      *)
(* response reaches Stride later.                                                         *)

HostReadsRate(q) ==
    /\ rateQueries[q].state = "sent"
    /\ rateQueries' = [rateQueries EXCEPT ![q] =
          [state |-> "read", validator |-> @.validator, rate |-> host[@.validator].rate]]
    /\ UNCHANGED <<ledgerVars, host, icaVars, delegationQueries, calibrationQueries,
                   calibrations, slashes, faults>>

\* SubmitDelegationICQ does nothing while a query is in progress.
Flagged(validator, slashed) == [validator EXCEPT !.slashQuery = @ \/ slashed]

\* ValidatorSharesToTokensRateCallback stores the rate, whatever it is; a change is taken
\* for a slash, to be measured by a delegator shares query.
ValidatorSharesToTokensRateCallback(q) ==
    /\ rateQueries[q].state = "read"
    /\ LET v == rateQueries[q].validator
           slashed == validators[v].rate # rateQueries[q].rate
       IN  /\ validators[v].registered
           /\ validators' = [validators EXCEPT ![v] =
                 Flagged([validators[v] EXCEPT !.rate = rateQueries[q].rate], slashed)]
           /\ delegationQueries' =
                 IF slashed /\ ~validators[v].slashQuery
                 THEN [delegationQueries EXCEPT ![v] =
                         [state |-> "sent", initial |-> validators[v].delegation]]
                 ELSE delegationQueries
    /\ rateQueries' = [rateQueries EXCEPT ![q] = NoQuery]
    /\ UNCHANGED <<totalDelegations, host, icaVars, calibrationQueries, calibrations,
                   slashes, faults>>

\* The callbacks of a validator that is gone return an error: the response is rejected and
\* the query remains, to be answered again.
RateResponseRejected(q) ==
    /\ rateQueries[q].state = "read" /\ ~validators[rateQueries[q].validator].registered
    /\ rateQueries' = [rateQueries EXCEPT ![q] = [state |-> "sent", validator |-> @.validator]]
    /\ UNCHANGED <<ledgerVars, host, icaVars, delegationQueries, calibrationQueries,
                   calibrations, slashes, faults>>

\* TimeoutPolicy_REJECT_QUERY_RESPONSE.
RateQueryTimesOut(q) ==
    /\ rateQueries[q].state = "read" /\ Fault
    /\ rateQueries' = [rateQueries EXCEPT ![q] = NoQuery]
    /\ UNCHANGED <<ledgerVars, host, icaVars, delegationQueries, calibrationQueries,
                   calibrations, slashes>>

HostReadsDelegation(v) ==
    /\ delegationQueries[v].state = "sent"
    /\ delegationQueries' = [delegationQueries EXCEPT ![v] =
          [state |-> "read", initial |-> @.initial, shares |-> host[v].shares]]
    /\ UNCHANGED <<ledgerVars, host, icaVars, rateQueries, calibrationQueries,
                   calibrations, slashes, faults>>

\* CheckDelegationChangedDuringQuery.  Mutant: only the delegation is compared.
OverlappedByAck(v, initial) == validators[v].delegation # initial
Overlapped(v, initial) == validators[v].delegation # initial \/ validators[v].changes > 0

\* SlashValidatorOnHostZone and the small corrections of CheckForSlash: the delegation
\* becomes what the query found, and a slash takes its share of the weight.
Corrected(v, tokens) ==
    LET old == validators[v].delegation
        adjustment == Quo(NewDecFromInt(tokens), NewDecFromInt(old))
        weight == IF tokens < old
                  THEN TruncateInt(Mul(NewDecFromInt(validators[v].weight), adjustment))
                  ELSE validators[v].weight
    IN  [validators[v] EXCEPT !.delegation = tokens, !.weight = weight, !.slashQuery = FALSE]

CorrectedTotal(v, tokens) == totalDelegations + tokens - validators[v].delegation

\* A response without content (the account has no delegation) deletes the query and ends
\* before the callback.
DelegatorSharesCallback(v) ==
    LET query == delegationQueries[v]
        tokens == TokensFromShares(query.shares, validators[v].rate)
        found == query.shares # 0 /\ validators[v].registered
        overlapped == Overlapped(v, query.initial)
        excessive == tokens - validators[v].delegation > PrecisionThreshold
        Query(next) == delegationQueries' = [delegationQueries EXCEPT ![v] = next]
    IN  /\ query.state = "read"
        /\ \/ /\ query.shares = 0
              /\ Query(NoQuery) /\ UNCHANGED ledgerVars
           \/ /\ found /\ overlapped
              /\ Query([state |-> "sent", initial |-> validators[v].delegation])
              /\ UNCHANGED ledgerVars
           \/ /\ found /\ ~overlapped /\ ~excessive
              /\ Query(NoQuery)
              /\ validators' = [validators EXCEPT ![v] = Corrected(v, tokens)]
              /\ totalDelegations' = CorrectedTotal(v, tokens)
           \/ \* an error: the response is rejected, and the query remains
              /\ query.shares # 0 /\ ~(found /\ overlapped) /\ ~(found /\ ~excessive)
              /\ Query([state |-> "sent", initial |-> query.initial])
              /\ UNCHANGED ledgerVars
        /\ UNCHANGED <<host, icaVars, rateQueries, calibrationQueries, calibrations,
                       slashes, faults>>

\* TimeoutPolicy_RETRY_QUERY_REQUEST: with the callback data of the first request.  Mutant:
\* the query is dropped.
RetriedNever(query) == NoQuery
Retried(query) == [state |-> "sent", initial |-> query.initial]

DelegationQueryTimesOut(v) ==
    /\ delegationQueries[v].state = "read" /\ delegationQueries[v].shares # 0 /\ Fault
    /\ delegationQueries' = [delegationQueries EXCEPT ![v] = Retried(delegationQueries[v])]
    /\ UNCHANGED <<ledgerVars, host, icaVars, rateQueries, calibrationQueries,
                   calibrations, slashes>>

HostReadsCalibration(v) ==
    /\ calibrationQueries[v].state = "sent"
    /\ calibrationQueries' = [calibrationQueries EXCEPT ![v] =
          [state |-> "read", shares |-> host[v].shares]]
    /\ UNCHANGED <<ledgerVars, host, icaVars, rateQueries, delegationQueries,
                   calibrations, slashes, faults>>

\* What CalibrateDelegationCallback accepts.  Mutant: any change.
WithinThresholdAlways(change) == TRUE
WithinThreshold(change) == change <= CalibrationThreshold /\ -change <= CalibrationThreshold

CalibrateDelegationCallback(v) ==
    LET query == calibrationQueries[v]
        tokens == TokensFromShares(query.shares, validators[v].rate)
        change == validators[v].delegation - tokens
    IN  /\ query.state = "read"
        /\ IF validators[v].registered /\ query.shares # 0 /\ WithinThreshold(change)
           THEN /\ validators' = [validators EXCEPT ![v].delegation = tokens]
                /\ totalDelegations' = totalDelegations - change
           ELSE UNCHANGED ledgerVars
        /\ calibrationQueries' = [calibrationQueries EXCEPT ![v] =
              IF validators[v].registered \/ query.shares = 0 THEN NoQuery ELSE [state |-> "sent"]]
        /\ UNCHANGED <<host, icaVars, rateQueries, delegationQueries, calibrations,
                       slashes, faults>>

CalibrationQueryTimesOut(v) ==
    /\ calibrationQueries[v].state = "read" /\ calibrationQueries[v].shares # 0 /\ Fault
    /\ calibrationQueries' = [calibrationQueries EXCEPT ![v] = [state |-> "sent"]]
    /\ UNCHANGED <<ledgerVars, host, icaVars, rateQueries, delegationQueries,
                   calibrations, slashes>>
-----------------------------------------------------------------------------
IcaStep == HostExecutes \/ IcaAcknowledged

QueryStep(v) ==
    \/ HostReadsDelegation(v) \/ DelegatorSharesCallback(v)
    \/ HostReadsCalibration(v) \/ CalibrateDelegationCallback(v)

Next ==
    \/ \E m \in Messages : SubmitIca(m)
    \/ IcaStep \/ IcaTimedOut \/ RestoreInterchainAccount
    \/ \E v \in Validators :
          \/ HostSlashes(v) \/ UpdateValidatorSharesExchRate(v) \/ CalibrateDelegation(v)
          \/ DeleteValidator(v)
          \/ \E weight \in Weights : AddValidators(v, weight) \/ ChangeValidatorWeight(v, weight)
          \/ QueryStep(v) \/ DelegationQueryTimesOut(v) \/ CalibrationQueryTimesOut(v)
    \/ \E q \in RateQueries :
          \/ HostReadsRate(q) \/ ValidatorSharesToTokensRateCallback(q)
          \/ RateResponseRejected(q) \/ RateQueryTimesOut(q)

Spec == Init /\ [][Next]_vars

RateQueryStep(q) ==
    HostReadsRate(q) \/ ValidatorSharesToTokensRateCallback(q) \/ RateResponseRejected(q)

\* Relayers deliver packets and query responses, a closed channel is restored, and the
\* operators keep asking for the rate of every validator.
Fairness ==
    /\ WF_vars(IcaStep) /\ WF_vars(RestoreInterchainAccount)
    /\ \A q \in RateQueries : WF_vars(RateQueryStep(q))
    /\ \A v \in Validators :
          WF_vars(QueryStep(v)) /\ WF_vars(UpdateValidatorSharesExchRate(v))

FairSpec == Spec /\ Fairness
-----------------------------------------------------------------------------
(* Properties *)

InFlight(v) == {i \in DOMAIN icas : v \in Touched(icas[i])}

\* HostZone.TotalDelegations is the sum of the validators' delegations, whichever callbacks
\* and corrections are interleaved: the redemption rate is computed from the one,
\* unbondings and rebalancings from the other.
TotalIsSum == totalDelegations = Total([v \in Validators |-> validators[v].delegation])

\* DelegationChangesInProgress counts the ICAs in flight that touch the validator, over
\* failures, timeouts and restores; and what the host executed the callbacks accept, as an
\* acknowledgement that is rejected would block the ordered channel for good.
ChangesExact ==
    channel = "open" =>
        /\ \A v \in Validators : validators[v].changes = Cardinality(InFlight(v))
        /\ icas # <<>> /\ Head(icas).state # "sent"
              => CallbackAccepts(Head(icas), Head(icas).state)

\* The ledger agrees with the host: a validator with no ICA in flight, no slash query in
\* progress, and the rate the host has, is recorded with exactly the tokens delegated to
\* it.  "The number of tokens returned from the query must be consistent with the tokens
\* stored in our internal record keeping during this callback".
LedgerExact ==
    TotalIsSum /\ \A v \in Validators :
        (/\ validators[v].registered /\ InFlight(v) = {} /\ ~validators[v].slashQuery
         /\ validators[v].rate = host[v].rate)
        => validators[v].delegation = HostTokens(v)

\* The same when calibrations, which do not look for overlapping ICAs, are allowed: each
\* moves the ledger by at most CalibrationThreshold.
LedgerDriftBounded ==
    TotalIsSum /\ \A v \in Validators :
        (/\ validators[v].registered /\ InFlight(v) = {} /\ ~validators[v].slashQuery
         /\ validators[v].rate = host[v].rate)
        => LET drift == validators[v].delegation - HostTokens(v)
               bound == calibrations * CalibrationThreshold
           IN  drift <= bound /\ -drift <= bound

\* However the slash queries overlap ICAs, time out or are answered out of order, every
\* slash ends up recorded, and the validator takes part in delegations again.
SlashesEventuallyRecorded ==
    \A v \in Validators :
        <>[](/\ validators[v].delegation = HostTokens(v)
             /\ validators[v].rate = host[v].rate /\ ~validators[v].slashQuery)
=============================================================================
