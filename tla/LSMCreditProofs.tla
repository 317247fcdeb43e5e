-------------------------- MODULE LSMCreditProofs --------------------------
(***************************************************************************)
(* What LSM liquid stakes do to the counters of a validator, for any       *)
(* stakers, validators, tokens, slashes and faults:                        *)
(*  - no stakes worth a checkpoint pass without a slash query;             *)
(*  - the recorded delegation is what the host staked, but for unread and  *)
(*    lost acknowledgements, and no acknowledgement is refused.            *)
(* Both rest on the invariants of LSMTokenDepositsProofs.                  *)
(***************************************************************************)
EXTENDS LSMTokenDepositsProofs, SumTheorems

(* Slash queries: what is staked without one *)

\* A validator is a record with its counters.
Fields == {"registered", "rate", "slashQuery", "delegation", "changes", "progress", "checkpoint"}
ValidatorOK(validator) ==
    /\ Fields \subseteq DOMAIN validator
    /\ validator.delegation \in Nat /\ validator.changes \in Nat
    /\ validator.progress \in Nat /\ validator.checkpoint \in Nat
ValidatorsOK(vals) ==
    /\ vals = [v \in Validators |-> vals[v]]
    /\ \A v \in Validators : ValidatorOK(vals[v])

ZoneOK ==
    /\ totalDelegations \in Nat
    /\ ValidatorsOK(validators)
    /\ unverified \in [Validators -> Nat]

\* What was staked without a query was staked since the last multiple of the checkpoint.
Checked(v) ==
    validators[v].checkpoint # 0 =>
       unverified[v] <= validators[v].progress % validators[v].checkpoint

\* The query of a stake is about the validator of its denom.
QueryValidator(query) ==
    /\ "validator" \in DOMAIN query /\ query.validator \in Validators
    /\ query.deposit # NoDeposit => query.validator = ValidatorOf[query.denom]
QueriesValid == \A q \in Queries : queries[q] = NoQuery \/ QueryValidator(queries[q])

\* The inductive invariant for SlashesChecked.
SlashInv == ZoneOK /\ QueriesValid /\ \A v \in Validators : Checked(v)

\* The fields of a validator that count stakes, and those that count detokenizations.
SameProgress(new, old) == new.progress = old.progress /\ new.checkpoint = old.checkpoint
SameLedger(new, old) ==
    /\ new.delegation = old.delegation /\ new.changes = old.changes
    /\ new.registered = old.registered

LEMMA SameQuotient ==
    ASSUME NEW c \in Nat \ {0}, NEW p \in Nat, NEW a \in Nat,
           ~(p \div c < (p + a) \div c)
    PROVE  (p + a) % c = (p % c) + a
<1>1. PICK q \in Nat : q = p \div c
  OBVIOUS
<1>2. PICK r \in Nat : r = p % c
  OBVIOUS
<1>3. p = c * q + r /\ r < c
  BY <1>1, <1>2
<1>4. PICK s \in Nat : s = (p + a) \div c
  OBVIOUS
<1>5. PICK t \in Nat : t = (p + a) % c
  OBVIOUS
<1>6. p + a = c * s + t /\ t < c
  BY <1>4, <1>5
<1>7. s <= q
  BY <1>1, <1>4
<1>8. PICK k \in Nat : q = s + k
  BY <1>7
<1>9. c * q = c * s + c * k
  BY <1>8
<1>10. c * k + r + a = t
  BY <1>3, <1>6, <1>9
<1>11. k = 0
  <2>1. SUFFICES ASSUME k # 0 PROVE FALSE
    BY Zenon
  <2>2. PICK j \in Nat : k = j + 1
    BY <2>1
  <2>3. c * k = c * j + c /\ c * j \in Nat
    BY <2>2
  <2> QED BY <1>6, <1>10, <2>3
<1> QED BY <1>2, <1>5, <1>10, <1>11

LEMMA CheckpointNat ==
    ASSUME NEW total \in Nat
    PROVE  SlashQueryCheckpoint(total) \in Nat
<1>1. PICK n \in Nat : n = ValidatorSlashQueryThreshold * total
  BY LSMAssumptions
<1>2. n \div 100 \in Nat
  OBVIOUS
<1> QED BY Zenon, <1>1, <1>2 DEF SlashQueryCheckpoint

\* What IncrementValidatorSlashQueryProgress does to a validator.
LEMMA ProgressedOK ==
    ASSUME NEW validator, ValidatorOK(validator), NEW a \in Nat, totalDelegations \in Nat,
           NEW new, new = Progressed(validator, a)
    PROVE  /\ ValidatorOK(new) /\ SameLedger(new, validator)
           /\ new.progress = validator.progress + a
           /\ \/ validator.checkpoint = 0 \/ Breaches(validator, a)
              \/ new.checkpoint = validator.checkpoint
<1>1. SlashQueryCheckpoint(totalDelegations) \in Nat
  BY Zenon, CheckpointNat
<1> QED BY <1>1 DEF Progressed, ValidatorOK, SameLedger, Fields

\* Steps that leave stakes alone.
LEMMA OtherSlash ==
    ASSUME ZoneOK, \A v \in Validators : Checked(v), totalDelegations' \in Nat,
           ValidatorsOK(validators'), unverified' = unverified,
           \A v \in Validators : SameProgress(validators'[v], validators[v])
    PROVE  ZoneOK' /\ \A v \in Validators : Checked(v)'
<1>1. ZoneOK'
  BY Zenon DEF ZoneOK, ValidatorsOK
<1>2. ASSUME NEW v \in Validators
      PROVE  Checked(v)'
  BY DEF Checked, SameProgress
<1> QED BY <1>1, <1>2

\* A stake that finishes: nothing is unverified after a query, and without one the progress
\* does not reach the next multiple of the checkpoint.
LEMMA FinishSlash ==
    ASSUME ZoneOK, \A v \in Validators : Checked(v), NEW v \in Validators, NEW a \in Nat,
           NEW vals, ValidatorsOK(vals),
           \A u \in Validators : SameProgress(vals[u], validators[u]),
           validators' = [vals EXCEPT ![v] = Progressed(vals[v], a)],
           totalDelegations' = totalDelegations,
           \/ unverified' = [unverified EXCEPT ![v] = 0]
           \/ /\ ~Breaches(validators[v], a)
              /\ unverified' = [unverified EXCEPT ![v] =
                                   IF validators[v].checkpoint = 0 THEN 0 ELSE @ + a]
    PROVE  /\ ZoneOK' /\ \A u \in Validators : Checked(u)'
           /\ \A u \in Validators : SameLedger(validators'[u], vals[u])
<1>1. PICK new : new = Progressed(vals[v], a)
  BY Zenon
<1>2. /\ ValidatorOK(new) /\ SameLedger(new, vals[v])
      /\ new.progress = vals[v].progress + a
      /\ \/ vals[v].checkpoint = 0 \/ Breaches(vals[v], a)
         \/ new.checkpoint = vals[v].checkpoint
  BY <1>1, ProgressedOK DEF ZoneOK, ValidatorsOK
<1>3. /\ validators' = [u \in Validators |-> validators'[u]]
      /\ validators'[v] = new
      /\ \A u \in Validators \ {v} : validators'[u] = vals[u]
  BY <1>1 DEF ValidatorsOK
<1>4. ValidatorsOK(validators') /\ \A u \in Validators : SameLedger(validators'[u], vals[u])
  BY <1>2, <1>3 DEF ValidatorsOK, SameLedger
<1>5. unverified[v] \in Nat /\ unverified = [u \in Validators |-> unverified[u]]
  BY DEF ZoneOK
<1>6. unverified' \in [Validators -> Nat]
  BY <1>5 DEF ZoneOK
<1>7. ZoneOK'
  BY Zenon, <1>4, <1>6 DEF ZoneOK, ValidatorsOK
<1>8. ASSUME NEW u \in Validators, u # v
      PROVE  Checked(u)'
  <2>1. unverified'[u] = unverified[u]
    BY Zenon, <1>5, <1>8
  <2>2. Checked(u) /\ SameProgress(validators'[u], validators[u])
    BY Zenon, <1>3, <1>8
  <2> QED BY <2>1, <2>2 DEF Checked, SameProgress
<1>9. Checked(v)'
  <2>1. PICK c \in Nat : c = new.checkpoint
    BY Zenon, <1>2 DEF ValidatorOK
  <2>2. PICK p \in Nat : p = validators[v].progress
    BY DEF ZoneOK, ValidatorsOK, ValidatorOK
  <2>3. new.progress = p + a /\ p + a \in Nat
    BY <1>2, <2>2 DEF SameProgress
  <2>4. PICK w \in Nat : w = unverified[v]
    BY Zenon, <1>5
  <2>5. SUFFICES ASSUME c # 0 PROVE unverified'[v] <= (p + a) % c
    BY Zenon, <1>3, <2>1, <2>3 DEF Checked
  <2>6. (p + a) % c \in Nat
    BY <2>3, <2>5
  <2>7. CASE unverified'[v] = 0
    BY <2>6, <2>7
  <2>8. CASE unverified'[v] # 0
    <3>1. /\ ~Breaches(validators[v], a) /\ validators[v].checkpoint # 0
          /\ unverified'[v] = w + a
      BY Zenon, <1>5, <2>4, <2>8
    <3>2. ~Breaches(vals[v], a)
      BY Zenon, <3>1 DEF Breaches, SameProgress
    <3>3. c = validators[v].checkpoint
      BY Zenon, <1>2, <2>1, <3>1, <3>2 DEF SameProgress
    <3>4. ~(p \div c < (p + a) \div c)
      BY <2>2, <3>1, <3>3 DEF Breaches
    <3>5. (p + a) % c = (p % c) + a
      BY Zenon, <2>5, <3>4, SameQuotient
    <3>6. w <= p % c
      BY Zenon, <2>2, <2>4, <3>1, <3>3 DEF Checked
    <3>7. p % c \in Nat
      BY <2>5
    <3> QED BY <3>1, <3>5, <3>6, <3>7
  <2> QED BY <2>7, <2>8
<1> QED BY <1>4, <1>7, <1>8, <1>9

LEMMA SubmitValid ==
    ASSUME LInv, QueriesValid, NEW v \in Validators, NEW d, NEW deposit,
           deposit # NoDeposit => v = ValidatorOf[d], SubmitRateQuery(v, d, deposit)
    PROVE  QueriesValid'
<1>1. PICK q \in Queries :
         queries' = [queries EXCEPT ![q] = [state |-> "sent", validator |-> v, rate |-> 0,
                                            denom |-> d, deposit |-> deposit]]
  BY Zenon DEF SubmitRateQuery
<1> QED BY Zenon, <1>1 DEF LInv, StoreOK, QueriesValid, QueryValidator

LEMMA DroppedValid ==
    ASSUME LInv, QueriesValid, NEW q \in Queries, queries' = [queries EXCEPT ![q] = NoQuery]
    PROVE  QueriesValid'
BY DEF LInv, StoreOK, QueriesValid, QueryValidator

LEMMA ReadValid ==
    ASSUME LInv, QueriesValid, NEW q \in Queries, HostReadsRate(q)
    PROVE  QueriesValid'
<1>1. PICK rate :
         queries' = [queries EXCEPT ![q].state = "read", ![q].rate = rate]
  BY Zenon DEF HostReadsRate
<1>2. queries[q] # NoQuery
  BY DEF HostReadsRate, NoQuery
<1>3. {"state", "rate", "denom", "deposit", "validator"} \subseteq DOMAIN queries[q]
  BY <1>2 DEF LInv, QueriesOK, QueryOK, QueriesValid, QueryValidator
<1> QED BY <1>1, <1>2, <1>3 DEF LInv, StoreOK, QueriesValid, QueryValidator

\* A step that changes no stake, no query and no validator.
LEMMA IdleSlash ==
    ASSUME SlashInv, UNCHANGED <<totalDelegations, validators, unverified, queries>>
    PROVE  SlashInv'
BY DEF SlashInv, ZoneOK, QueriesValid, Checked

LEMMA LSMLiquidStakeSlash ==
    ASSUME LInv, SlashInv, NEW staker, NEW d \in Denoms, NEW a \in StakeAmounts,
           LSMLiquidStake(staker, d, a)
    PROVE  /\ SlashInv'
           /\ ValidatorsOK(validators')
           /\ \A u \in Validators : SameLedger(validators'[u], validators[u])
<1>1. PICK v \in Validators : v = ValidatorOf[d]
  BY LSMAssumptions
<1>2. PICK deposit : deposit = [status |-> "DEPOSIT_PENDING", staker |-> staker, amount |-> a,
                                stToken |-> LSMStToken(a, validators[v].rate)]
  BY Zenon
<1>3. a \in Nat /\ deposit.amount = a
  BY <1>2, LSMAssumptions
<1>4. totalDelegations' = totalDelegations
  BY DEF LSMLiquidStake
<1>5. CASE /\ SubmitRateQuery(v, d, deposit)
           /\ UNCHANGED <<validators, unverified>>
  <2>1. QueriesValid'
    BY <1>1, <1>5, SubmitValid DEF SlashInv
  <2>2. ZoneOK' /\ \A u \in Validators : Checked(u)'
    BY <1>4, <1>5 DEF SlashInv, ZoneOK, Checked
  <2> QED BY <1>5, <2>1, <2>2 DEF SlashInv, ZoneOK, SameLedger
<1>6. CASE /\ ~Breaches(validators[v], a)
           /\ validators' = [validators EXCEPT ![v] = Progressed(validators[v], a)]
           /\ unverified' = [unverified EXCEPT ![v] =
                                IF validators[v].checkpoint = 0 THEN 0 ELSE @ + a]
           /\ UNCHANGED queries
  <2>1. QueriesValid'
    BY <1>6 DEF SlashInv, QueriesValid
  <2>2. \A u \in Validators : SameProgress(validators[u], validators[u])
    BY Zenon DEF SameProgress
  <2>3. ValidatorsOK(validators)
    BY Zenon DEF SlashInv, ZoneOK
  <2>4. /\ ZoneOK' /\ \A u \in Validators : Checked(u)'
        /\ \A u \in Validators : SameLedger(validators'[u], validators[u])
    BY Zenon, <1>3, <1>4, <1>6, <2>2, <2>3, FinishSlash DEF SlashInv
  <2> QED BY Zenon, <2>1, <2>4 DEF SlashInv, ZoneOK
<1> QED BY <1>1, <1>2, <1>3, <1>5, <1>6 DEF LSMLiquidStake, ShouldCheckIfValidatorWasSlashed,
                                            FinishLSMLiquidStake

LEMMA RateCallbackSlash ==
    ASSUME LInv, CustodyInv, SlashInv, NEW q \in Queries, ValidatorSharesToTokensRateCallback(q)
    PROVE  /\ SlashInv'
           /\ \A u \in Validators : SameLedger(validators'[u], validators[u])
<1>1. queries[q] # NoQuery
  <2>1. queries[q].state = "read"
    BY Zenon DEF ValidatorSharesToTokensRateCallback
  <2>2. NoQuery.state # "read"
    BY DEF NoQuery
  <2> QED BY Zenon, <2>1, <2>2
<1>2. PICK v \in Validators : v = queries[q].validator
  BY Zenon, <1>1 DEF SlashInv, QueriesValid, QueryValidator
<1>3. PICK rate, flag, vals :
         /\ vals = [validators EXCEPT ![v].rate = rate, ![v].slashQuery = flag]
         /\ \/ validators' = vals /\ unverified' = unverified
            \/ /\ queries[q].deposit # NoDeposit
               /\ FinishLSMLiquidStake(queries[q].denom, queries[q].deposit, vals)
               /\ unverified' = [unverified EXCEPT ![v] = 0]
  BY Zenon, <1>2 DEF ValidatorSharesToTokensRateCallback, FailLSMLiquidStake
<1>4. queries' = [queries EXCEPT ![q] = NoQuery] /\ totalDelegations' = totalDelegations
  BY Zenon DEF ValidatorSharesToTokensRateCallback
<1>5. QueriesValid'
  BY Zenon, <1>4, DroppedValid DEF SlashInv
<1>6. /\ ValidatorsOK(vals)
      /\ \A u \in Validators : /\ SameProgress(vals[u], validators[u])
                               /\ SameLedger(vals[u], validators[u])
  BY <1>3 DEF SlashInv, ZoneOK, ValidatorsOK, ValidatorOK, Fields, SameProgress, SameLedger
<1>7. CASE validators' = vals /\ unverified' = unverified
  <2>1. ZoneOK' /\ \A u \in Validators : Checked(u)'
    BY <1>4, <1>6, <1>7, OtherSlash DEF SlashInv, ZoneOK
  <2> QED BY <1>5, <1>6, <1>7, <2>1 DEF SlashInv
<1>8. CASE /\ queries[q].deposit # NoDeposit
           /\ FinishLSMLiquidStake(queries[q].denom, queries[q].deposit, vals)
           /\ unverified' = [unverified EXCEPT ![v] = 0]
  <2>1. v = ValidatorOf[queries[q].denom]
    BY Zenon, <1>1, <1>2, <1>8 DEF SlashInv, QueriesValid, QueryValidator
  <2>2. PICK a \in Nat : a = queries[q].deposit.amount
    BY Zenon, <1>1, <1>8, QueryOfStake, RecordPresent
  <2>3. validators' = [vals EXCEPT ![v] = Progressed(vals[v], a)]
    BY <1>8, <2>1, <2>2 DEF FinishLSMLiquidStake
  <2>4. /\ ZoneOK' /\ \A u \in Validators : Checked(u)'
        /\ \A u \in Validators : SameLedger(validators'[u], vals[u])
    BY Zenon, <1>4, <1>6, <1>8, <2>3, FinishSlash DEF SlashInv
  <2> QED BY Zenon, <1>5, <1>6, <2>4 DEF SlashInv, SameLedger
<1> QED BY Zenon, <1>3, <1>7, <1>8

\* Steps that change validators, but not their progress.
LEMMA ValidatorSlash ==
    ASSUME SlashInv, totalDelegations' \in Nat, ValidatorsOK(validators'),
           \A v \in Validators : SameProgress(validators'[v], validators[v]),
           UNCHANGED <<unverified, queries>>
    PROVE  SlashInv'
<1>1. ZoneOK' /\ \A v \in Validators : Checked(v)'
  BY OtherSlash DEF SlashInv
<1> QED BY Zenon, <1>1 DEF SlashInv, QueriesValid

\* What the steps that send, credit or reset detokenizations do to the validators.
LEMMA EndBlockerValidators ==
    ASSUME SlashInv, NEW S, NEW T, EndBlockerWith(S, T)
    PROVE  /\ ValidatorsOK(validators')
           /\ \A v \in Validators : SameProgress(validators'[v], validators[v])
           /\ \A v \in Validators :
                 /\ validators'[v].delegation = validators[v].delegation
                 /\ validators'[v].registered = validators[v].registered
                 /\ validators'[v].changes =
                       validators[v].changes
                       + Cardinality({d \in (IF channel = "open"
                                             THEN WithStatus("DETOKENIZATION_QUEUE")
                                             ELSE {}) \ T : ValidatorOf[d] = v})
<1> DEFINE sent == (IF channel = "open" THEN WithStatus("DETOKENIZATION_QUEUE") ELSE {}) \ T
           number(v) == Cardinality({d \in sent : ValidatorOf[d] = v})
<1>1. validators' = [v \in Validators |-> [validators[v] EXCEPT !.changes = @ + number(v)]]
  BY DEF EndBlockerWith
<1>2. ASSUME NEW v \in Validators
      PROVE  number(v) \in Nat
  <2>1. IsFiniteSet(Denoms) /\ {d \in sent : ValidatorOf[d] = v} \subseteq Denoms
    BY LSMAssumptions DEF WithStatus
  <2>2. IsFiniteSet({d \in sent : ValidatorOf[d] = v})
    BY Zenon, <2>1, FS_Subset
  <2> QED BY <2>2, FS_CardinalityType
<1> HIDE DEF number
<1>3. \A v \in Validators : ValidatorOK(validators[v])
  BY DEF SlashInv, ZoneOK, ValidatorsOK
<1>4. ASSUME NEW v \in Validators
      PROVE  /\ ValidatorOK(validators'[v]) /\ SameProgress(validators'[v], validators[v])
             /\ validators'[v].delegation = validators[v].delegation
             /\ validators'[v].registered = validators[v].registered
             /\ validators'[v].changes = validators[v].changes + number(v)
  BY <1>1, <1>2, <1>3 DEF ValidatorOK, SameProgress, Fields
<1>5. ValidatorsOK(validators')
  BY Zenon, <1>1, <1>4 DEF ValidatorsOK
<1> QED BY Zenon, <1>4, <1>5 DEF number

LEMMA DetokenizeCallbackValidators ==
    ASSUME LInv, CustodyInv, SlashInv, icas # <<>>, NEW status,
           DetokenizeCallback(Head(icas), status)
    PROVE  /\ totalDelegations' \in Nat /\ ValidatorsOK(validators')
           /\ \A v \in Validators :
                 /\ SameProgress(validators'[v], validators[v])
                 /\ validators'[v].registered = validators[v].registered
                 /\ v = ValidatorOf[Head(icas).denom] =>
                       /\ validators'[v].changes = validators[v].changes - 1
                       /\ validators[v].changes # 0
                       /\ validators'[v].delegation =
                             validators[v].delegation + Credited(Head(icas), status)
                 /\ v # ValidatorOf[Head(icas).denom] => validators'[v] = validators[v]
<1>1. PICK X : icas \in Seq(X)
  BY Zenon DEF LInv, InFlight
<1>2. 1 \in DOMAIN icas /\ Head(icas) = icas[1]
  BY <1>1
<1>3. PICK d \in Denoms : d = Head(icas).denom
  BY <1>2, PacketStatus
<1>4. PICK v \in Validators : v = ValidatorOf[d]
  BY Zenon, LSMAssumptions
<1>5. PICK tokens \in Nat : tokens = Credited(Head(icas), status)
  BY Zenon, <1>2 DEF Credited, CustodyInv, Carried
<1>6. /\ validators[v].changes # 0
      /\ validators' = [validators EXCEPT ![v].changes = @ - 1, ![v].delegation = @ + tokens]
      /\ totalDelegations' = totalDelegations + tokens
  BY <1>3, <1>4, <1>5 DEF DetokenizeCallback, DetokenizeAccepted
<1>7. /\ validators = [u \in Validators |-> validators[u]]
      /\ \A u \in Validators : ValidatorOK(validators[u])
      /\ totalDelegations \in Nat
  BY DEF SlashInv, ZoneOK, ValidatorsOK
<1>8. /\ \A u \in Validators \ {v} : validators'[u] = validators[u]
      /\ validators' = [u \in Validators |-> validators'[u]]
  BY <1>6, <1>7
<1>9. /\ ValidatorOK(validators'[v]) /\ SameProgress(validators'[v], validators[v])
      /\ validators'[v].registered = validators[v].registered
      /\ validators'[v].changes = validators[v].changes - 1
      /\ validators'[v].delegation = validators[v].delegation + tokens
  <2>1. PICK old : old = validators[v]
    BY Zenon
  <2>2. ValidatorOK(old) /\ old.changes # 0
    BY <1>6, <1>7, <2>1
  <2>3. PICK new : new = [old EXCEPT !.changes = @ - 1, !.delegation = @ + tokens]
    OBVIOUS
  <2>4. validators'[v] = new
    BY <1>6, <1>7, <2>1, <2>3
  <2>5. /\ DOMAIN new = DOMAIN old
        /\ new.changes = old.changes - 1 /\ new.delegation = old.delegation + tokens
        /\ new.progress = old.progress /\ new.checkpoint = old.checkpoint
        /\ new.registered = old.registered
    BY Zenon, <2>2, <2>3 DEF ValidatorOK, Fields
  <2>6. old.changes - 1 \in Nat /\ old.delegation + tokens \in Nat
    BY <2>2 DEF ValidatorOK
  <2> QED BY <2>1, <2>2, <2>4, <2>5, <2>6, Zenon DEF ValidatorOK, SameProgress
<1>10. ValidatorsOK(validators')
  BY Zenon, <1>7, <1>8, <1>9 DEF ValidatorsOK
<1>11. totalDelegations' \in Nat
  BY <1>6, <1>7
<1>12. ASSUME NEW u \in Validators, u # v
       PROVE  validators'[u] = validators[u] /\ SameProgress(validators'[u], validators[u])
  BY Zenon, <1>8, <1>12 DEF SameProgress
<1>13. v = ValidatorOf[Head(icas).denom]
  BY <1>3, <1>4
<1> QED BY <1>5, <1>6, <1>9, <1>10, <1>11, <1>12, <1>13, Zenon

LEMMA RestoreValidators ==
    ASSUME SlashInv, RestoreInterchainAccount
    PROVE  /\ ValidatorsOK(validators')
           /\ \A v \in Validators :
                 /\ SameProgress(validators'[v], validators[v])
                 /\ validators'[v].delegation = validators[v].delegation
                 /\ validators'[v].registered = validators[v].registered
                 /\ validators'[v].changes = 0
<1>1. validators' = [v \in Validators |-> [validators[v] EXCEPT !.changes = 0]]
  BY Zenon DEF RestoreInterchainAccount
<1>2. \A v \in Validators : ValidatorOK(validators[v])
  BY DEF SlashInv, ZoneOK, ValidatorsOK
<1> QED BY <1>1, <1>2 DEF ValidatorsOK, ValidatorOK, SameProgress, Fields

LEMMA DelegatorSharesValidators ==
    ASSUME SlashInv, NEW v \in Validators, DelegatorSharesCallback(v)
    PROVE  /\ ValidatorsOK(validators')
           /\ \A u \in Validators : /\ SameProgress(validators'[u], validators[u])
                                    /\ SameLedger(validators'[u], validators[u])
<1>1. validators' = [validators EXCEPT ![v].slashQuery = FALSE]
  BY Zenon DEF DelegatorSharesCallback
<1>2. ValidatorsOK(validators)
  BY DEF SlashInv, ZoneOK
<1> QED BY Zenon, <1>1, <1>2 DEF ValidatorsOK, ValidatorOK, SameProgress, SameLedger, Fields

LEMMA DeleteValidators ==
    ASSUME SlashInv, NEW v \in Validators, DeleteValidator(v)
    PROVE  /\ ValidatorsOK(validators')
           /\ \A u \in Validators :
                 /\ SameProgress(validators'[u], validators[u])
                 /\ validators'[u].delegation = validators[u].delegation
                 /\ validators'[u].changes = validators[u].changes
                 /\ u # v => validators'[u].registered = validators[u].registered
<1>1. validators' = [validators EXCEPT ![v].registered = FALSE]
  BY DEF DeleteValidator
<1>2. ValidatorsOK(validators)
  BY DEF SlashInv, ZoneOK
<1> QED BY Zenon, <1>1, <1>2 DEF ValidatorsOK, ValidatorOK, SameProgress, Fields

LEMMA InitSlash == Init => SlashInv
<1> SUFFICES ASSUME Init PROVE SlashInv
  BY Zenon
<1>1. totalDelegations \in Nat
  <2>1. IsFiniteSet(Validators) /\ DOMAIN InitialDelegation = Validators
    BY Zenon, LSMAssumptions
  <2>2. \A v \in Validators : InitialDelegation[v] \in Nat
    BY Zenon, LSMAssumptions
  <2>3. SumFunctionOnSet(InitialDelegation, Validators) \in Nat
    BY Zenon, <2>1, <2>2, SumNat
  <2> QED BY <2>1, <2>3 DEF Init, SumFunction
<1>2. SlashQueryCheckpoint(totalDelegations) \in Nat
  BY <1>1, CheckpointNat
<1>3. \A v \in Validators : InitialDelegation[v] \in Nat
  BY LSMAssumptions
<1>4. PICK checkpoint \in Nat : checkpoint = SlashQueryCheckpoint(totalDelegations)
  BY Zenon, <1>2
<1>5. validators = [v \in Validators |->
          [registered |-> TRUE, rate |-> Precision, slashQuery |-> FALSE,
           delegation |-> InitialDelegation[v], changes |-> 0, progress |-> 0,
           checkpoint |-> checkpoint]]
  BY <1>4 DEF Init
<1>6. ValidatorsOK(validators) /\ unverified \in [Validators -> Nat]
  BY <1>3, <1>5 DEF Init, ValidatorsOK, ValidatorOK, Fields
<1>7. ASSUME NEW v \in Validators
      PROVE  Checked(v)
  <2>1. unverified[v] = 0 /\ validators[v].progress = 0 /\ validators[v].checkpoint = checkpoint
    BY <1>5 DEF Init
  <2>2. checkpoint # 0 => 0 % checkpoint \in Nat
    OBVIOUS
  <2> QED BY <2>1, <2>2 DEF Checked
<1>8. QueriesValid
  BY Zenon DEF Init, QueriesValid
<1> QED BY <1>1, <1>6, <1>7, <1>8 DEF SlashInv, ZoneOK

LEMMA NextSlash == LInv /\ CustodyInv /\ SlashInv /\ [Next]_vars => SlashInv'
<1> SUFFICES ASSUME LInv, CustodyInv, SlashInv, [Next]_vars PROVE SlashInv'
  BY Zenon
<1> USE DEF zoneVars
<1>1. ASSUME NEW s \in Stakers, NEW d \in Denoms, NEW a \in StakeAmounts, LSMLiquidStake(s, d, a)
      PROVE  SlashInv'
  BY Zenon, <1>1, LSMLiquidStakeSlash
<1>2. ASSUME NEW s \in Stakers, NEW d \in Denoms, SendTokens(s, d)
      PROVE  SlashInv'
  BY Zenon, <1>2, IdleSlash DEF SendTokens
<1>3. ASSUME NEW v \in Range(ValidatorOf),
             UpdateValidatorSharesExchRate(v) \/ HostSlashes(v) \/ DeleteValidator(v)
      PROVE  SlashInv'
  <2>1. v \in Validators
    BY Zenon, LSMAssumptions DEF Range
  <2>2. CASE UpdateValidatorSharesExchRate(v)
    <3>1. QueriesValid'
      BY Zenon, <2>1, <2>2, SubmitValid DEF UpdateValidatorSharesExchRate, SlashInv
    <3>2. UNCHANGED <<totalDelegations, validators, unverified>>
      BY <2>2 DEF UpdateValidatorSharesExchRate
    <3> QED BY <3>1, <3>2 DEF SlashInv, ZoneOK, Checked
  <2>3. CASE HostSlashes(v)
    BY <2>3, IdleSlash DEF HostSlashes
  <2>4. CASE DeleteValidator(v)
    BY Zenon, <2>1, <2>4, DeleteValidators, ValidatorSlash DEF DeleteValidator, SlashInv, ZoneOK
  <2> QED BY Zenon, <1>3, <2>2, <2>3, <2>4
<1>4. ASSUME NEW S, NEW T, EndBlockerWith(S, T)
      PROVE  SlashInv'
  BY Zenon, <1>4, EndBlockerValidators, ValidatorSlash DEF EndBlockerWith, SlashInv, ZoneOK
<1>5. CASE Callbacks
  <2>1. CASE DetokenizeAcknowledged
    BY Zenon, <2>1, DetokenizeCallbackValidators, ValidatorSlash
       DEF DetokenizeAcknowledged, DetokenizeCallback
  <2>2. ASSUME NEW i \in DOMAIN transfers, TransferAcknowledged(i)
        PROVE  SlashInv'
    BY <2>2, IdleSlash DEF TransferAcknowledged, LSMTransferCallback
  <2>3. ASSUME NEW q \in Queries, ValidatorSharesToTokensRateCallback(q)
        PROVE  SlashInv'
    BY Zenon, <2>3, RateCallbackSlash
  <2>4. ASSUME NEW v \in Validators, DelegatorSharesCallback(v)
        PROVE  SlashInv'
    BY Zenon, <2>4, DelegatorSharesValidators, ValidatorSlash DEF DelegatorSharesCallback, SlashInv, ZoneOK
  <2> QED BY <1>5, <2>1, <2>2, <2>3, <2>4 DEF Callbacks
<1>6. CASE HostSteps
  <2>1. ASSUME NEW q \in Queries, HostReadsRate(q)
        PROVE  SlashInv'
    <3>1. QueriesValid'
      BY <2>1, ReadValid DEF SlashInv
    <3>2. UNCHANGED <<totalDelegations, validators, unverified>>
      BY Zenon, <2>1 DEF HostReadsRate
    <3> QED BY Zenon, <3>1, <3>2 DEF SlashInv, ZoneOK, Checked
  <2>2. ASSUME NEW i, HostReceivesTransfer(i) \/ HostExecutesDetokenization(i)
        PROVE  SlashInv'
    BY Zenon, <2>2, IdleSlash DEF HostReceivesTransfer, HostExecutesDetokenization
  <2> QED BY <1>6, <2>1, <2>2 DEF HostSteps
<1>7. ASSUME NEW q \in Queries, RateQueryTimesOut(q)
      PROVE  SlashInv'
  <2>1. QueriesValid'
    BY Zenon, <1>7, DroppedValid DEF RateQueryTimesOut, SlashInv
  <2>2. UNCHANGED <<totalDelegations, validators, unverified>>
    BY Zenon, <1>7 DEF RateQueryTimesOut, FailLSMLiquidStake
  <2> QED BY <2>1, <2>2 DEF SlashInv, ZoneOK, Checked
<1>8. ASSUME NEW i \in DOMAIN transfers, TransferTimedOut(i)
      PROVE  SlashInv'
  BY <1>8, IdleSlash DEF TransferTimedOut, LSMTransferCallback
<1>9. CASE DetokenizeTimedOut
  BY Zenon, <1>9, DetokenizeCallbackValidators, ValidatorSlash DEF DetokenizeTimedOut, DetokenizeCallback
<1>10. CASE ChannelCloses
  BY <1>10, IdleSlash DEF ChannelCloses
<1>11. CASE RestoreInterchainAccount
  BY Zenon, <1>11, RestoreValidators, ValidatorSlash DEF RestoreInterchainAccount, SlashInv, ZoneOK
<1>12. CASE HaltHostZone \/ ResumeHostZone
  BY <1>12, IdleSlash DEF HaltHostZone, ResumeHostZone
<1>13. CASE UNCHANGED vars
  BY Zenon, <1>13, IdleSlash DEF vars
<1> QED
  BY Zenon, <1>1, <1>2, <1>3, <1>4, <1>5, <1>6, <1>7, <1>8, <1>9, <1>10, <1>11, <1>12, <1>13
  DEF Next, EndBlocker

LEMMA SlashInvHolds == SlashInv => SlashesChecked
<1> SUFFICES ASSUME SlashInv, NEW v \in Validators, validators[v].checkpoint # 0
             PROVE  unverified[v] < validators[v].checkpoint
  BY Zenon DEF SlashesChecked
<1>1. PICK c \in Nat \ {0} : c = validators[v].checkpoint
  BY Zenon DEF SlashInv, ZoneOK, ValidatorsOK, ValidatorOK
<1>2. PICK p \in Nat : p = validators[v].progress
  BY Zenon DEF SlashInv, ZoneOK, ValidatorsOK, ValidatorOK
<1>3. unverified[v] \in Nat /\ unverified[v] <= p % c
  BY Zenon, <1>1, <1>2 DEF SlashInv, ZoneOK, Checked
<1>4. p % c \in Nat /\ p % c < c
  OBVIOUS
<1> QED BY <1>1, <1>3, <1>4

\* SlashesChecked is an invariant: ShouldCheckIfValidatorWasSlashed lets no stakes worth a
\* checkpoint pass without a slash query, however stakes with and without one interleave.
THEOREM SlashesAlwaysChecked == Spec => []SlashesChecked
<1>1. Init => LInv /\ HostRateOK /\ CustodyInv /\ SlashInv
  BY Zenon, InitLInv, InitHostRate, InitCustody, InitSlash
<1>2. LInv /\ HostRateOK /\ CustodyInv /\ SlashInv /\ [Next]_vars
         => (LInv /\ HostRateOK /\ CustodyInv /\ SlashInv)'
  BY NextLInv, NextHostRate, NextCustody, NextSlash
<1>3. SlashInv => SlashesChecked
  BY Zenon, SlashInvHolds
<1> QED BY <1>1, <1>2, <1>3, PTL DEF Spec
-----------------------------------------------------------------------------
(* Detokenized stake: what is credited, and what is still to be *)

\* Staked over some of the packets only.
Answers(s) == \A i \in DOMAIN s : s[i].response \in Nat
Of(v, s, D) == {i \in D : ValidatorOf[s[i].denom] = v}
StakedOver(v, s, D) == SumFunctionOnSet([i \in DOMAIN s |-> s[i].response], Of(v, s, D))

LEMMA StakedAll ==
    ASSUME NEW s, NEW v
    PROVE  Staked(v, s) = StakedOver(v, s, DOMAIN s)
BY Zenon DEF Staked, StakedOver, Of

LEMMA OfFinite ==
    ASSUME NEW X, NEW s \in Seq(X), NEW D \in SUBSET DOMAIN s, NEW v
    PROVE  IsFiniteSet(Of(v, s, D)) /\ Of(v, s, D) \subseteq DOMAIN s
<1>1. DOMAIN s = 1 .. Len(s) /\ Len(s) \in Int
  OBVIOUS
<1>2. IsFiniteSet(1 .. Len(s))
  BY <1>1, FS_Interval
<1>3. Of(v, s, D) \in SUBSET DOMAIN s
  BY DEF Of
<1> QED BY <1>1, <1>2, <1>3, FS_Subset

LEMMA StakedNat ==
    ASSUME NEW X, NEW s \in Seq(X), NEW D \in SUBSET DOMAIN s, NEW v, Answers(s)
    PROVE  StakedOver(v, s, D) \in Nat
<1> DEFINE f == [i \in DOMAIN s |-> s[i].response]
<1>1. IsFiniteSet(Of(v, s, D)) /\ \A i \in Of(v, s, D) : f[i] \in Nat
  BY Zenon, OfFinite DEF Answers
<1>2. SumFunctionOnSet(f, Of(v, s, D)) \in Nat
  BY <1>1, SumNat
<1> QED BY Zenon, <1>2 DEF StakedOver

\* What the picked packets say is what they said where they were.
LEMMA StakedPicked ==
    ASSUME NEW s, NEW t, NEW D, Picked(t, s, D), Answers(s), NEW v
    PROVE  Staked(v, t) = StakedOver(v, s, D) /\ Answers(t)
<1>1. PICK X : t \in Seq(X)
  BY DEF Picked
<1>2. PICK m \in [DOMAIN t -> D] :
         /\ \A n \in DOMAIN t : t[n] = s[m[n]]
         /\ \A n, k \in DOMAIN t : m[n] = m[k] => n = k
         /\ \A e \in D : \E n \in DOMAIN t : m[n] = e
  BY Zenon DEF Picked
<1>3. D \subseteq DOMAIN s
  BY DEF Picked
<1>4. \A n \in DOMAIN t : m[n] \in D /\ m[n] \in DOMAIN s
  BY Zenon, <1>2, <1>3
<1> DEFINE f == [i \in DOMAIN t |-> t[i].response]
           g == [i \in DOMAIN s |-> s[i].response]
           S == Of(v, t, DOMAIN t)
           T == Of(v, s, D)
<1>5. Answers(t)
  BY Zenon, <1>2, <1>4 DEF Answers
<1>6. IsFiniteSet(S)
  BY <1>1, OfFinite
<1>7. OneToOne(m, S, T)
  BY <1>2, <1>4 DEF OneToOne, Of
<1>8. \A x \in S : f[x] \in Int /\ g[m[x]] = f[x]
  BY <1>2, <1>4, <1>5 DEF Of, Answers
<1> HIDE DEF f, g, S, T
<1>9. SumFunctionOnSet(g, T) = SumFunctionOnSet(f, S)
  BY <1>6, <1>7, <1>8, SumImage
<1> QED BY <1>5, <1>9, StakedAll DEF StakedOver, f, g, S, T

LEMMA StakedSplit ==
    ASSUME NEW X, NEW s \in Seq(X), NEW D \in SUBSET DOMAIN s, NEW E, E = DOMAIN s \ D,
           Answers(s), NEW v
    PROVE  Staked(v, s) = StakedOver(v, s, D) + StakedOver(v, s, E)
<1> DEFINE f == [i \in DOMAIN s |-> s[i].response]
           S == Of(v, s, D)
           T == Of(v, s, E)
           U == Of(v, s, DOMAIN s)
<1>1. IsFiniteSet(S) /\ IsFiniteSet(T)
  BY Zenon, OfFinite
<1>2. U = S \cup T /\ S \cap T = {}
  BY Zenon DEF Of
<1>3. \A i \in U : f[i] \in Int
  BY DEF Of, Answers
<1> HIDE DEF f, S, T, U
<1>4. SumFunctionOnSet(f, U) = SumFunctionOnSet(f, S) + SumFunctionOnSet(f, T)
  BY <1>1, <1>2, <1>3, SumUnion
<1> QED BY Zenon, <1>4, StakedAll DEF StakedOver, f, S, T, U

\* Packets without a response stake nothing.
LEMMA StakedNothing ==
    ASSUME NEW X, NEW s \in Seq(X), \A i \in DOMAIN s : s[i].response = 0, NEW v
    PROVE  Staked(v, s) = 0
<1> DEFINE f == [i \in DOMAIN s |-> s[i].response]
           S == Of(v, s, DOMAIN s)
<1>1. IsFiniteSet(S)
  BY Zenon, OfFinite
<1>2. \A i \in S : f[i] = 0
  BY Zenon DEF Of
<1> HIDE DEF f, S
<1>3. SumFunctionOnSet(f, S) = 0
  BY <1>1, <1>2, SumZero
<1> QED BY Zenon, <1>3, StakedAll DEF StakedOver, f, S

LEMMA StakedOne ==
    ASSUME NEW s, NEW i \in DOMAIN s, s[i].response \in Nat, NEW v
    PROVE  StakedOver(v, s, {i}) = IF ValidatorOf[s[i].denom] = v THEN s[i].response ELSE 0
<1> DEFINE f == [n \in DOMAIN s |-> s[n].response]
<1>1. CASE ValidatorOf[s[i].denom] = v
  <2>1. Of(v, s, {i}) = {i} /\ f[i] \in Int
    BY <1>1 DEF Of
  <2>2. SumFunctionOnSet(f, {i}) = f[i]
    BY <2>1, SumSingleton
  <2> QED BY Zenon, <1>1, <2>1, <2>2 DEF StakedOver
<1>2. CASE ValidatorOf[s[i].denom] # v
  <2>1. Of(v, s, {i}) = {}
    BY Zenon, <1>2 DEF Of
  <2> QED BY Zenon, <1>2, <2>1, SumEmpty DEF StakedOver
<1> QED BY Zenon, <1>1, <1>2

\* The host answers packet i.
LEMMA StakedAnswer ==
    ASSUME NEW X, NEW s \in Seq(X), Answers(s), NEW i \in DOMAIN s, NEW t, NEW result,
           NEW response \in Nat, ExecutedAt(t, s, i, result, response), NEW v
    PROVE  Staked(v, t) = Staked(v, s) +
              (IF ValidatorOf[s[i].denom] = v THEN response - s[i].response ELSE 0)
<1> DEFINE f == [n \in DOMAIN s |-> s[n].response]
           g == [n \in DOMAIN t |-> t[n].response]
           T == Of(v, s, DOMAIN s)
           U == Of(v, t, DOMAIN t)
<1>1. /\ DOMAIN t = DOMAIN s /\ \A n \in DOMAIN s \ {i} : t[n] = s[n]
      /\ t[i].denom = s[i].denom /\ t[i].response = response
  BY Zenon DEF ExecutedAt
<1>2. U = T
  BY <1>1 DEF Of
<1>3. IsFiniteSet(T)
  BY OfFinite
<1>4. \A n \in T : f[n] \in Int /\ g[n] \in Int
  BY <1>1 DEF Of, Answers
<1>5. \A n \in T \ {i} : f[n] = g[n]
  BY Zenon, <1>1 DEF Of
<1>6. At(f, T, i) = IF ValidatorOf[s[i].denom] = v THEN s[i].response ELSE 0
  BY Zenon DEF At, Of
<1>7. At(g, T, i) = IF ValidatorOf[s[i].denom] = v THEN response ELSE 0
  BY <1>1 DEF At, Of
<1>8. StakedOver(v, s, DOMAIN s) \in Nat /\ s[i].response \in Nat
  BY StakedNat DEF Answers
<1> HIDE DEF f, g, T, U
<1>9. SumFunctionOnSet(g, T) = SumFunctionOnSet(f, T) - At(f, T, i) + At(g, T, i)
  BY <1>3, <1>4, <1>5, SumChange
<1>10. Staked(v, t) = SumFunctionOnSet(g, T) /\ Staked(v, s) = SumFunctionOnSet(f, T)
  BY <1>2, StakedAll DEF StakedOver, f, g, T, U
<1>11. SumFunctionOnSet(f, T) \in Nat
  BY Zenon, <1>8 DEF StakedOver, f, T
<1> QED BY <1>6, <1>7, <1>8, <1>9, <1>10, <1>11

\* A validator's delegation, and what is still to be added to it.
Balanced(v) ==
    validators[v].delegation + Staked(v, icas) + Staked(v, lost) = InitialDelegation[v] + staked[v]

\* Its changes in progress count at least its detokenizations on the channel.
Awaited(v) == {d \in Denoms : ValidatorOf[d] = v /\ Has(d, icas)}
Counted(v) == validators[v].changes >= Cardinality(Awaited(v))

\* A removed validator has no deposits.
Kept(v) ==
    ~validators[v].registered => \A d \in Denoms : ValidatorOf[d] = v => deposits[d] = NoDeposit

\* The inductive invariant for DetokenizedCredited.
CreditInv ==
    /\ staked \in [Validators -> Nat]
    /\ \A v \in Validators : Balanced(v) /\ Counted(v) /\ Kept(v)

LEMMA AwaitedFinite ==
    ASSUME NEW v
    PROVE  IsFiniteSet(Awaited(v)) /\ Cardinality(Awaited(v)) \in Nat
<1>1. IsFiniteSet(Denoms) /\ Awaited(v) \in SUBSET Denoms
  BY LSMAssumptions DEF Awaited
<1> QED BY Zenon, <1>1, FS_Subset, FS_CardinalityType

\* Steps that leave the packets of the channel and the ledger alone, and give no removed
\* validator a deposit.
LEMMA OtherCredit ==
    ASSUME CreditInv, UNCHANGED <<icas, lost, staked>>,
           \A v \in Validators : SameLedger(validators'[v], validators[v]),
           \A d \in Denoms : \/ deposits[d] = NoDeposit => deposits'[d] = NoDeposit
                             \/ validators[ValidatorOf[d]].registered
    PROVE  CreditInv'
<1>1. ASSUME NEW v \in Validators
      PROVE  (Balanced(v) /\ Counted(v) /\ Kept(v))'
  <2>1. Balanced(v) /\ Counted(v) /\ Kept(v) /\ SameLedger(validators'[v], validators[v])
    BY Zenon DEF CreditInv
  <2>2. Balanced(v)'
    BY Zenon, <2>1 DEF Balanced, SameLedger, Staked
  <2>3. Awaited(v)' = Awaited(v)
    BY Zenon DEF Awaited, Has
  <2>4. Counted(v)'
    BY <2>1, <2>3 DEF Counted, SameLedger
  <2>5. Kept(v)'
    BY <2>1, Zenon DEF Kept, SameLedger
  <2> QED BY Zenon, <2>2, <2>4, <2>5
<1>2. staked' \in [Validators -> Nat]
  BY Zenon DEF CreditInv
<1> QED BY Zenon, <1>1, <1>2 DEF CreditInv

LEMMA SameValidators ==
    ASSUME validators' = validators
    PROVE  \A v \in Validators : SameLedger(validators'[v], validators[v])
BY DEF SameLedger

LEMMA LSMLiquidStakeCredit ==
    ASSUME LInv, SlashInv, CreditInv, NEW staker, NEW d \in Denoms, NEW a \in StakeAmounts,
           LSMLiquidStake(staker, d, a)
    PROVE  CreditInv'
<1>1. \A v \in Validators : SameLedger(validators'[v], validators[v])
  BY Zenon, LSMLiquidStakeSlash
<1>2. UNCHANGED <<icas, lost, staked>> /\ validators[ValidatorOf[d]].registered
  BY DEF LSMLiquidStake, StartLSMLiquidStake, ValidLSMLiquidStake, icaVars, hostVars
<1>3. \A e \in Denoms \ {d} : deposits'[e] = deposits[e]
  BY Zenon DEF LSMLiquidStake, FinishLSMLiquidStake, LInv, StoreOK
<1> QED BY <1>1, <1>2, <1>3, OtherCredit

LEMMA RateCallbackCredit ==
    ASSUME LInv, CustodyInv, SlashInv, CreditInv, NEW q \in Queries,
           ValidatorSharesToTokensRateCallback(q)
    PROVE  CreditInv'
<1>1. \A v \in Validators : SameLedger(validators'[v], validators[v])
  BY RateCallbackSlash
<1>2. UNCHANGED <<icas, lost, staked>> /\ validators[queries[q].validator].registered
  BY Zenon DEF ValidatorSharesToTokensRateCallback, icaVars, hostVars
<1>3. queries[q] # NoQuery
  <2>1. queries[q].state = "read"
    BY Zenon DEF ValidatorSharesToTokensRateCallback
  <2>2. NoQuery.state # "read"
    BY DEF NoQuery
  <2> QED BY Zenon, <2>1, <2>2
<1>4. \/ deposits' = deposits
      \/ /\ queries[q].deposit # NoDeposit
         /\ \E record : deposits' = [deposits EXCEPT ![queries[q].denom] = record]
  BY Zenon DEF ValidatorSharesToTokensRateCallback, FailLSMLiquidStake, FinishLSMLiquidStake
<1>5. ASSUME NEW d \in Denoms, deposits'[d] # deposits[d]
      PROVE  validators[ValidatorOf[d]].registered
  <2>1. queries[q].deposit # NoDeposit /\ d = queries[q].denom
    BY <1>4, <1>5 DEF LInv, StoreOK
  <2>2. queries[q].validator = ValidatorOf[d]
    BY Zenon, <1>3, <2>1 DEF SlashInv, QueriesValid, QueryValidator
  <2> QED BY Zenon, <1>2, <2>2
<1> QED BY Zenon, <1>1, <1>2, <1>5, OtherCredit

\* A stake whose query times out.
LEMMA TimeoutCredit ==
    ASSUME LInv, CreditInv, NEW q \in Queries, RateQueryTimesOut(q)
    PROVE  CreditInv'
<1>1. UNCHANGED <<icas, lost, staked, validators>>
  BY Zenon DEF RateQueryTimesOut, icaVars, hostVars, zoneVars
<1>2. \A d \in Denoms : deposits[d] = NoDeposit => deposits'[d] = NoDeposit
  BY Zenon DEF RateQueryTimesOut, FailLSMLiquidStake, LInv, StoreOK
<1> QED BY <1>1, <1>2, OtherCredit, SameValidators

LEMMA TransferCallbackCredit ==
    ASSUME LInv, CreditInv, NEW i \in DOMAIN transfers, NEW status, LSMTransferCallback(i, status)
    PROVE  CreditInv'
<1>1. UNCHANGED <<icas, lost, staked, validators>>
  BY Zenon DEF LSMTransferCallback, icaVars, hostVars, zoneVars
<1>2. PICK d \in Denoms : d = transfers[i].denom
  BY PacketStatus
<1>3. deposits[d].status = "TRANSFER_IN_PROGRESS"
  BY <1>2, PacketStatus
<1>4. \A e \in Denoms \ {d} : deposits'[e] = deposits[e]
  BY <1>2 DEF LSMTransferCallback, LInv, StoreOK
<1>5. deposits[d] # NoDeposit
  BY <1>3 DEF NoDeposit
<1> QED BY Zenon, <1>1, <1>4, <1>5, OtherCredit, SameValidators

LEMMA DeleteCredit ==
    ASSUME SlashInv, CreditInv, NEW v \in Validators, DeleteValidator(v)
    PROVE  CreditInv'
<1>1. UNCHANGED <<icas, lost, staked, deposits>> /\ Removable(v)
  BY Zenon DEF DeleteValidator, icaVars, hostVars
<1>2. ASSUME NEW u \in Validators
      PROVE  (Balanced(u) /\ Counted(u) /\ Kept(u))'
  <2>1. /\ validators'[u].delegation = validators[u].delegation
        /\ validators'[u].changes = validators[u].changes
        /\ u # v => validators'[u].registered = validators[u].registered
    BY Zenon, DeleteValidators
  <2>2. Balanced(u) /\ Counted(u) /\ Kept(u)
    BY Zenon DEF CreditInv
  <2>3. Balanced(u)'
    BY Zenon, <1>1, <2>1, <2>2 DEF Balanced, Staked
  <2>4. Awaited(u)' = Awaited(u)
    BY <1>1 DEF Awaited, Has
  <2>5. Counted(u)'
    BY Zenon, <2>1, <2>2, <2>4 DEF Counted
  <2>6. Kept(u)'
    BY Zenon, <1>1, <2>1, <2>2 DEF Kept, Removable
  <2> QED BY Zenon, <2>3, <2>5, <2>6
<1>3. staked' \in [Validators -> Nat]
  BY <1>1 DEF CreditInv
<1> QED BY Zenon, <1>2, <1>3 DEF CreditInv

\* The responses are amounts.
LEMMA AnswersOK ==
    ASSUME LInv, CustodyInv
    PROVE  Answers(icas) /\ Answers(lost)
BY Zenon DEF CustodyInv, Carried, LostOK, Answers

\* The ICAs sent at the end of a block have no response yet, and are counted.
LEMMA EndBlockerCredit ==
    ASSUME LInv, CustodyInv, SlashInv, CreditInv, NEW S, NEW T, EndBlockerWith(S, T)
    PROVE  CreditInv'
<1> DEFINE queued == IF channel = "open" THEN WithStatus("DETOKENIZATION_QUEUE") ELSE {}
           sent == queued \ T
           number(v) == Cardinality({d \in sent : ValidatorOf[d] = v})
<1>1. icas' = icas \o Packets(sent) /\ UNCHANGED <<lost, staked>>
  BY DEF EndBlockerWith, hostVars
<1>2. \A v \in Validators :
         /\ validators'[v].delegation = validators[v].delegation
         /\ validators'[v].registered = validators[v].registered
         /\ validators'[v].changes = validators[v].changes + number(v)
  BY EndBlockerValidators
<1>3. sent \in SUBSET Denoms
  BY Zenon DEF WithStatus
<1>4. ASSUME NEW d \in Denoms, deposits[d] = NoDeposit
      PROVE  deposits'[d] = NoDeposit
  <2>1. NoDeposit.status \notin {"TRANSFER_QUEUE", "DETOKENIZATION_QUEUE"}
    BY DEF NoDeposit
  <2>2. d \notin WithStatus("TRANSFER_QUEUE") /\ d \notin queued
    BY Zenon, <1>4, <2>1 DEF WithStatus
  <2>3. d \notin S /\ d \notin WithStatus("TRANSFER_QUEUE") \ S
    BY Zenon, <2>2 DEF EndBlockerWith
  <2> QED BY Zenon, <1>4, <2>2, <2>3 DEF EndBlockerWith
<1> HIDE DEF sent, queued
<1>5. PICK X : icas \in Seq(X)
  BY Zenon DEF LInv, InFlight
<1>6. PICK Y : Packets(sent) \in Seq(Y)
  BY <1>3, PacketsOfSet
<1>7. PICK A : Joined(icas', icas, Packets(sent), A)
  BY Zenon, <1>1, <1>5, <1>6, ConcatJoined
<1>8. PICK Z : icas' \in Seq(Z)
  BY Zenon, <1>7 DEF Joined
<1>9. \A i \in DOMAIN Packets(sent) : Packets(sent)[i].response = 0
  BY <1>3, PacketsOfSet DEF Packet
<1>10. Answers(icas')
  <2>1. Carried(icas', deposits')
    BY Zenon, EndBlockerCustody DEF CustodyInv
  <2> QED BY Zenon, <2>1 DEF Carried, Answers
<1>11. /\ Picked(icas, icas', A) /\ Picked(Packets(sent), icas', DOMAIN icas' \ A)
       /\ A \in SUBSET DOMAIN icas'
  BY Zenon, <1>7 DEF Joined, Picked
<1>12. ASSUME NEW v \in Validators
       PROVE  Staked(v, icas') = Staked(v, icas)
  <2>1. Staked(v, icas) = StakedOver(v, icas', A)
    BY <1>10, <1>11, StakedPicked
  <2>2. Staked(v, Packets(sent)) = StakedOver(v, icas', DOMAIN icas' \ A)
    BY <1>10, <1>11, StakedPicked
  <2>3. Staked(v, Packets(sent)) = 0
    BY Zenon, <1>6, <1>9, StakedNothing
  <2>4. Staked(v, icas') = StakedOver(v, icas', A) + StakedOver(v, icas', DOMAIN icas' \ A)
    BY <1>8, <1>10, <1>11, StakedSplit
  <2>5. StakedOver(v, icas', A) \in Nat
    BY Zenon, <1>8, <1>10, <1>11, StakedNat
  <2> QED BY <2>1, <2>2, <2>3, <2>4, <2>5
<1>13. ASSUME NEW v \in Validators
       PROVE  (Balanced(v) /\ Counted(v) /\ Kept(v))'
  <2>1. Balanced(v) /\ Counted(v) /\ Kept(v)
    BY Zenon DEF CreditInv
  <2>2. Balanced(v)'
    BY Zenon, <1>1, <1>2, <1>12, <2>1 DEF Balanced, Staked
  <2>3. Kept(v)'
    BY Zenon, <1>2, <1>4, <2>1 DEF Kept
  <2>4. Counted(v)'
    <3> DEFINE new == {d \in sent : ValidatorOf[d] = v}
    <3>1. Awaited(v)' = Awaited(v) \cup new
      <4>1. \A d : Has(d, icas') <=> Has(d, icas) \/ d \in sent
        BY Zenon, <1>1, <1>3, <1>5, SentHas
      <4> QED BY <1>3, <4>1 DEF Awaited
    <3>2. IsFiniteSet(new) /\ Cardinality(new) \in Nat
      <4>1. IsFiniteSet(Denoms) /\ new \in SUBSET Denoms
        BY Zenon, <1>3, LSMAssumptions
      <4> QED BY <4>1, FS_Subset, FS_CardinalityType
    <3>3. IsFiniteSet(Awaited(v)) /\ Cardinality(Awaited(v)) \in Nat
      BY AwaitedFinite
    <3> HIDE DEF new
    <3>4. /\ Cardinality(Awaited(v) \cup new) =
                Cardinality(Awaited(v)) + Cardinality(new) - Cardinality(Awaited(v) \cap new)
          /\ Cardinality(Awaited(v) \cap new) \in Nat
      <4>1. Awaited(v) \cap new \in SUBSET new
        BY Zenon
      <4>2. IsFiniteSet(Awaited(v) \cap new)
        BY Zenon, <3>2, <4>1, FS_Subset
      <4> QED BY <3>2, <3>3, <4>2, FS_Union, FS_CardinalityType
    <3>5. validators'[v].changes = validators[v].changes + Cardinality(new)
      BY Zenon, <1>2 DEF new
    <3>6. validators[v].changes \in Nat
      BY Zenon DEF SlashInv, ZoneOK, ValidatorsOK, ValidatorOK
    <3> QED BY <2>1, <3>1, <3>2, <3>3, <3>4, <3>5, <3>6 DEF Counted
  <2> QED BY Zenon, <2>2, <2>3, <2>4
<1>14. staked' \in [Validators -> Nat]
  BY Zenon, <1>1 DEF CreditInv
<1> QED BY Zenon, <1>13, <1>14 DEF CreditInv

\* A detokenization on the host: what it stakes is what its response says.
LEMMA HostExecutesCredit ==
    ASSUME LInv, HostRateOK, CustodyInv, SlashInv, CreditInv, NEW i \in DOMAIN icas,
           HostExecutesDetokenization(i)
    PROVE  CreditInv'
<1>1. PICK d \in Denoms : d = icas[i].denom
  BY Zenon, PacketStatus
<1>2. PICK u \in Validators : u = ValidatorOf[d]
  BY Zenon, LSMAssumptions
<1>3. PICK tokens \in Nat :
         tokens = TruncateInt(Mul(NewDecFromInt(icas[i].deposit.amount), hostRate[u]))
  <2>1. deposits[d].status # "NONE"
    BY <1>1, PacketStatus
  <2>2. icas[i].deposit.amount \in Nat /\ hostRate[u] \in Nat
    BY Zenon, <1>1, <2>1, RecordPresent DEF CustodyInv, Carried, HostRateOK
  <2> QED BY Zenon, <2>2, TokensNat
<1>4. icas[i].response = 0 /\ icas[i].state = "sent"
  BY DEF HostExecutesDetokenization, CustodyInv, Carried
<1>5. PICK result \in {"success", "failure"}, response \in Nat :
         /\ \/ icas' = [icas EXCEPT ![i].state = result] /\ response = icas[i].response
            \/ icas' = [icas EXCEPT ![i].state = result, ![i].response = response]
         /\ \/ response = 0 /\ staked' = staked
            \/ staked' = [staked EXCEPT ![u] = @ + response]
  <2>1. \/ /\ icas' = [icas EXCEPT ![i].state = "success", ![i].response = tokens]
           /\ staked' = [staked EXCEPT ![u] = @ + tokens]
        \/ icas' = [icas EXCEPT ![i].state = "failure"] /\ staked' = staked
    BY <1>1, <1>2, <1>3, Zenon DEF HostExecutesDetokenization
  <2>2. CASE /\ icas' = [icas EXCEPT ![i].state = "success", ![i].response = tokens]
             /\ staked' = [staked EXCEPT ![u] = @ + tokens]
    BY <2>2, Zenon
  <2>3. CASE icas' = [icas EXCEPT ![i].state = "failure"] /\ staked' = staked
    <3>1. 0 \in Nat /\ 0 = icas[i].response
      BY Zenon, <1>4
    <3> QED BY <2>3, <3>1, Zenon
  <2> QED BY Zenon, <2>1, <2>2, <2>3
<1>6. InFlight(icas, deposits, "DETOKENIZATION_IN_PROGRESS")
  BY Zenon DEF LInv
<1>7. ExecutedAt(icas', icas, i, result, response)
  BY Zenon, <1>5, <1>6, ExecutedPacket
<1>8. UNCHANGED <<validators, deposits, lost>>
  BY DEF HostExecutesDetokenization, zoneVars
<1>9. PICK X : icas \in Seq(X)
  BY Zenon, <1>6 DEF InFlight
<1>10. /\ staked' \in [Validators -> Nat]
       /\ \A v \in Validators : staked'[v] = staked[v] + (IF v = u THEN response ELSE 0)
  BY <1>5 DEF CreditInv
<1>11. ASSUME NEW v \in Validators
       PROVE  (Balanced(v) /\ Counted(v) /\ Kept(v))'
  <2>1. Balanced(v) /\ Counted(v) /\ Kept(v)
    BY Zenon DEF CreditInv
  <2>2. Staked(v, icas') = Staked(v, icas) + (IF v = u THEN response ELSE 0)
    <3>1. Staked(v, icas') = Staked(v, icas) +
             (IF ValidatorOf[icas[i].denom] = v THEN response - icas[i].response ELSE 0)
      <4>1. Answers(icas)
        BY Zenon, AnswersOK
      <4> QED BY <1>7, <1>9, <4>1, StakedAnswer
    <3>2. response - 0 = response
      OBVIOUS
    <3>3. ValidatorOf[icas[i].denom] = u /\ icas[i].response = 0
      BY Zenon, <1>1, <1>2, <1>4
    <3> QED BY Zenon, <3>1, <3>2, <3>3
  <2>3. /\ Staked(v, icas) \in Nat /\ Staked(v, lost) \in Nat /\ staked[v] \in Nat
        /\ validators[v].delegation \in Nat /\ InitialDelegation[v] \in Nat
    <3>1. PICK Y : lost \in Seq(Y)
      BY Zenon DEF CustodyInv, LostOK
    <3>2. StakedOver(v, icas, DOMAIN icas) \in Nat /\ StakedOver(v, lost, DOMAIN lost) \in Nat
      BY <1>9, <3>1, AnswersOK, StakedNat
    <3> QED BY Zenon, <3>2, StakedAll, LSMAssumptions
            DEF CreditInv, SlashInv, ZoneOK, ValidatorsOK, ValidatorOK
  <2>4. Staked(v, lost') = Staked(v, lost)
    BY Zenon, <1>8
  <2>5. Balanced(v)'
    <3>1. PICK r \in Nat : r = IF v = u THEN response ELSE 0
      OBVIOUS
    <3>2. Staked(v, icas') = Staked(v, icas) + r /\ staked'[v] = staked[v] + r
      BY Zenon, <1>10, <2>2, <3>1
    <3>3. validators[v].delegation + Staked(v, icas) + Staked(v, lost) =
             InitialDelegation[v] + staked[v]
      BY Zenon, <2>1 DEF Balanced
    <3>4. validators[v].delegation + (Staked(v, icas) + r) + Staked(v, lost) =
             InitialDelegation[v] + (staked[v] + r)
      BY <2>3, <3>3
    <3> QED BY Zenon, <1>8, <2>4, <3>2, <3>4 DEF Balanced
  <2>6. Awaited(v)' = Awaited(v)
    BY Zenon, <1>7 DEF Awaited, Has, ExecutedAt
  <2>7. Counted(v)' /\ Kept(v)'
    BY Zenon, <1>8, <2>1, <2>6 DEF Counted, Kept
  <2> QED BY <2>5, <2>7
<1> QED BY Zenon, <1>10, <1>11 DEF CreditInv

\* A callback credits its response, which is no longer on the channel.
LEMMA DetokenizeCallbackCredit ==
    ASSUME LInv, CustodyInv, SlashInv, CreditInv, icas # <<>>, NEW status,
           DetokenizeCallback(Head(icas), status),
           \/ status = Head(icas).state /\ Head(icas).state # "sent"
           \/ status = "timeout" /\ Head(icas).state = "sent"
    PROVE  CreditInv'
<1>1. PICK X : icas \in Seq(X)
  BY Zenon DEF LInv, InFlight
<1>2. 1 \in DOMAIN icas /\ Head(icas) = icas[1] /\ Tail(icas) = SubSeq(icas, 1 + 1, Len(icas))
  BY <1>1
<1>3. PICK d \in Denoms : d = icas[1].denom
  BY <1>2, PacketStatus
<1>4. PICK u \in Validators : u = ValidatorOf[d]
  BY Zenon, LSMAssumptions
<1>5. icas' = Tail(icas) /\ UNCHANGED <<lost, staked>>
  BY Zenon DEF DetokenizeCallback, hostVars
<1>6. Credited(Head(icas), status) = icas[1].response /\ icas[1].response \in Nat
  BY Zenon, <1>2 DEF Credited, CustodyInv, Carried
<1>7. \A v \in Validators :
         /\ validators'[v].registered = validators[v].registered
         /\ v = u => /\ validators'[v].changes = validators[v].changes - 1
                     /\ validators'[v].delegation = validators[v].delegation + icas[1].response
         /\ v # u => validators'[v] = validators[v]
  <2>1. u = ValidatorOf[Head(icas).denom]
    BY Zenon, <1>2, <1>3, <1>4
  <2>2. ASSUME NEW v \in Validators
        PROVE  /\ validators'[v].registered = validators[v].registered
               /\ v = u => /\ validators'[v].changes = validators[v].changes - 1
                           /\ validators'[v].delegation =
                                 validators[v].delegation + Credited(Head(icas), status)
               /\ v # u => validators'[v] = validators[v]
    BY Zenon, <2>1, DetokenizeCallbackValidators
  <2> QED BY Zenon, <1>6, <2>2
<1> DEFINE B == {n \in DOMAIN icas : n > 1}
<1>8. Picked(icas', icas, B)
  <2>1. 1 \in Nat
    OBVIOUS
  <2>2. Picked(SubSeq(icas, 1 + 1, Len(icas)), icas, {n \in DOMAIN icas : n > 1})
    BY Zenon, <1>1, <2>1, SuffixPicked
  <2> QED BY Zenon, <1>2, <1>5, <2>2
<1>9. B \in SUBSET DOMAIN icas /\ {1} = DOMAIN icas \ B /\ B = DOMAIN icas \ {1}
  BY <1>1, <1>2
<1> HIDE DEF B
<1>10. ASSUME NEW v \in Validators
       PROVE  /\ Staked(v, icas) = Staked(v, icas') + (IF v = u THEN icas[1].response ELSE 0)
              /\ Staked(v, icas') \in Nat
  <2>1. Staked(v, icas') = StakedOver(v, icas, B)
    BY Zenon, <1>8, AnswersOK, StakedPicked
  <2>2. Staked(v, icas) = StakedOver(v, icas, B) + StakedOver(v, icas, {1})
    BY <1>1, <1>9, AnswersOK, StakedSplit
  <2>3. StakedOver(v, icas, {1}) = IF ValidatorOf[icas[1].denom] = v THEN icas[1].response ELSE 0
    BY Zenon, <1>2, <1>6, StakedOne
  <2>4. StakedOver(v, icas, B) \in Nat
    BY Zenon, <1>1, <1>9, AnswersOK, StakedNat
  <2> QED BY <1>3, <1>4, <2>1, <2>2, <2>3, <2>4
<1>11. \A e : Has(e, icas') <=> Has(e, icas) /\ e # d
  <2>1. \A e : Has(e, icas') <=> \E n \in B : icas[n].denom = e
    <3>1. Says(icas', icas, B)
      BY Zenon, <1>8, PickedHas
    <3> QED BY Zenon, <3>1 DEF Says
  <2>2. \A i, j \in DOMAIN icas : icas[i].denom = icas[j].denom => i = j
    BY DEF LInv, InFlight
  <2> QED BY Zenon, <1>2, <1>3, <1>9, <2>1, <2>2 DEF Has
<1>12. ASSUME NEW v \in Validators
       PROVE  (Balanced(v) /\ Counted(v) /\ Kept(v))'
  <2>1. Balanced(v) /\ Counted(v) /\ Kept(v)
    BY DEF CreditInv
  <2>2. Balanced(v)'
    <3>1. /\ Staked(v, lost') = Staked(v, lost) /\ Staked(v, lost) \in Nat
          /\ validators[v].delegation \in Nat
      <4>1. PICK Y : lost \in Seq(Y)
        BY Zenon DEF CustodyInv, LostOK
      <4>2. StakedOver(v, lost, DOMAIN lost) \in Nat
        BY Zenon, <4>1, AnswersOK, StakedNat
      <4> QED BY Zenon, <1>5, <4>2, StakedAll DEF SlashInv, ZoneOK, ValidatorsOK, ValidatorOK
    <3>2. PICK r \in Nat : r = IF v = u THEN icas[1].response ELSE 0
      BY Zenon, <1>6
    <3>3. Staked(v, icas) = Staked(v, icas') + r /\ Staked(v, icas') \in Nat
      BY Zenon, <1>10, <3>2
    <3>4. validators'[v].delegation = validators[v].delegation + r
      <4>1. \A x \in Nat : x + 0 = x
        OBVIOUS
      <4> QED BY Zenon, <1>7, <3>1, <3>2, <4>1
    <3>5. InitialDelegation[v] \in Nat /\ staked[v] \in Nat
      BY Zenon, LSMAssumptions DEF CreditInv
    <3>6. validators[v].delegation + (Staked(v, icas') + r) + Staked(v, lost) =
             InitialDelegation[v] + staked[v]
      BY Zenon, <2>1, <3>3 DEF Balanced
    <3>7. (validators[v].delegation + r) + Staked(v, icas') + Staked(v, lost) =
             InitialDelegation[v] + staked[v]
      BY <3>1, <3>3, <3>5, <3>6
    <3> QED BY Zenon, <1>5, <3>1, <3>4, <3>7 DEF Balanced
  <2>3. Counted(v)'
    <3>1. Awaited(v)' = IF v = u THEN Awaited(v) \ {d} ELSE Awaited(v)
      BY <1>4, <1>11 DEF Awaited
    <3>2. v = u => d \in Awaited(v)
      BY <1>2, <1>3, <1>4 DEF Awaited, Has
    <3>3. IsFiniteSet(Awaited(v)) /\ Cardinality(Awaited(v)) \in Nat
      BY Zenon, AwaitedFinite
    <3>4. v = u => Cardinality(Awaited(v)') = Cardinality(Awaited(v)) - 1
      BY Zenon, <3>1, <3>2, <3>3, FS_RemoveElement
    <3>5. validators[v].changes \in Nat
      BY Zenon DEF SlashInv, ZoneOK, ValidatorsOK, ValidatorOK
    <3> QED BY <1>7, <2>1, <3>1, <3>3, <3>4, <3>5 DEF Counted
  <2>4. Kept(v)'
    <3>1. deposits[d] # NoDeposit
      BY <1>2, <1>3, PacketStatus DEF NoDeposit
    <3>2. \A e \in Denoms \ {d} : deposits'[e] = deposits[e]
      BY <1>2, <1>3 DEF DetokenizeCallback, LInv, StoreOK
    <3> QED BY Zenon, <1>7, <2>1, <3>1, <3>2 DEF Kept
  <2> QED BY <2>2, <2>3, <2>4
<1>13. staked' \in [Validators -> Nat]
  BY Zenon, <1>5 DEF CreditInv
<1> QED BY <1>12, <1>13 DEF CreditInv

\* The responses of a closed channel are lost, but not forgotten here.
LEMMA ChannelClosesCredit ==
    ASSUME LInv, CustodyInv, SlashInv, CreditInv, ChannelCloses
    PROVE  CreditInv'
<1>1. PICK k : k = Cardinality({n \in DOMAIN icas : icas[n].state # "sent"})
  OBVIOUS
<1>2. PICK X : icas \in Seq(X)
  BY Zenon DEF LInv, InFlight
<1>3. k \in 0 .. Len(icas)
  BY Zenon, <1>1, <1>2, ExecutedFirst DEF CustodyInv, InOrder
<1>4. /\ icas' = SubSeq(icas, k + 1, Len(icas)) /\ lost' = lost \o SubSeq(icas, 1, k)
      /\ UNCHANGED <<validators, deposits, staked>>
  BY <1>1 DEF ChannelCloses, zoneVars, hostVars
<1> DEFINE first == SubSeq(icas, 1, k)
           A == {n \in DOMAIN icas : ~(n > k)}
           B == {n \in DOMAIN icas : n > k}
<1>5. Picked(icas', icas, B)
  <2>1. k \in Nat
    BY <1>2, <1>3
  <2> QED BY <1>2, <1>4, <2>1, SuffixPicked
<1>6. Picked(first, icas, A)
  BY <1>2, <1>3, PrefixPicked
<1>7. A \in SUBSET DOMAIN icas /\ B = DOMAIN icas \ A
  BY Zenon
<1>8. lost' = lost \o first
  BY Zenon, <1>4
<1> HIDE DEF first, A, B
<1>9. PICK P : Joined(lost', lost, first, P)
  <2>1. \E Y : first \in Seq(Y)
    BY Zenon, <1>6 DEF Picked
  <2>2. \E Y : lost \in Seq(Y)
    BY DEF CustodyInv, LostOK
  <2> QED BY <1>8, <2>1, <2>2, ConcatJoined
<1>10. Answers(lost')
  BY Zenon, ChannelClosesCustody DEF CustodyInv, LostOK, Answers
<1>11. /\ Picked(lost, lost', P) /\ Picked(first, lost', DOMAIN lost' \ P)
       /\ P \in SUBSET DOMAIN lost' /\ \E Y : lost' \in Seq(Y)
  BY Zenon, <1>9 DEF Joined, Picked
<1>12. ASSUME NEW v \in Validators
       PROVE  Staked(v, icas') + Staked(v, lost') = Staked(v, icas) + Staked(v, lost)
  <2>1. Staked(v, icas') = StakedOver(v, icas, B) /\ Staked(v, first) = StakedOver(v, icas, A)
    BY <1>5, <1>6, AnswersOK, StakedPicked
  <2>2. Staked(v, icas) = StakedOver(v, icas, A) + StakedOver(v, icas, B)
    BY Zenon, <1>2, <1>7, AnswersOK, StakedSplit
  <2>3. /\ Staked(v, lost) = StakedOver(v, lost', P)
        /\ Staked(v, first) = StakedOver(v, lost', DOMAIN lost' \ P)
    BY Zenon, <1>10, <1>11, StakedPicked
  <2>4. Staked(v, lost') = StakedOver(v, lost', P) + StakedOver(v, lost', DOMAIN lost' \ P)
    BY <1>10, <1>11, StakedSplit
  <2>5. StakedOver(v, icas, A) \in Nat /\ StakedOver(v, icas, B) \in Nat
    <3>1. B \in SUBSET DOMAIN icas
      BY Zenon, <1>7
    <3> QED BY <1>2, <1>7, <3>1, AnswersOK, StakedNat
  <2>6. StakedOver(v, lost', P) \in Nat
    BY <1>10, <1>11, StakedNat
  <2> QED BY <2>1, <2>2, <2>3, <2>4, <2>5, <2>6
<1>13. ASSUME NEW v \in Validators
       PROVE  (Balanced(v) /\ Counted(v) /\ Kept(v))'
  <2>1. Balanced(v) /\ Counted(v) /\ Kept(v)
    BY DEF CreditInv
  <2>2. Balanced(v)'
    <3>1. /\ Staked(v, icas) \in Nat /\ Staked(v, lost) \in Nat
          /\ validators[v].delegation \in Nat
      <4>1. PICK Y : lost \in Seq(Y)
        BY DEF CustodyInv, LostOK
      <4>2. StakedOver(v, lost, DOMAIN lost) \in Nat /\ StakedOver(v, icas, DOMAIN icas) \in Nat
        BY <1>2, <4>1, AnswersOK, StakedNat
      <4> QED BY Zenon, <4>2, StakedAll DEF SlashInv, ZoneOK, ValidatorsOK, ValidatorOK
    <3>2. Staked(v, icas') \in Nat /\ Staked(v, lost') \in Nat
      <4>1. Staked(v, icas') = StakedOver(v, icas, B) /\ B \in SUBSET DOMAIN icas
        BY <1>5, <1>7, AnswersOK, StakedPicked
      <4>2. Staked(v, lost') = StakedOver(v, lost', DOMAIN lost')
        BY StakedAll
      <4>3. StakedOver(v, icas, B) \in Nat
        BY Zenon, <1>2, <4>1, AnswersOK, StakedNat
      <4>4. DOMAIN lost' \in SUBSET DOMAIN lost'
        BY Zenon
      <4>5. StakedOver(v, lost', DOMAIN lost') \in Nat
        BY Zenon, <1>10, <1>11, <4>4, StakedNat
      <4> QED BY <4>1, <4>2, <4>3, <4>5, Zenon
    <3>3. validators' = validators /\ staked' = staked
      BY Zenon, <1>4
    <3>4. Staked(v, icas') + Staked(v, lost') = Staked(v, icas) + Staked(v, lost)
      BY Zenon, <1>12
    <3> QED BY <2>1, <3>1, <3>2, <3>3, <3>4 DEF Balanced
  <2>3. Counted(v)'
    <3>1. \A e : Has(e, icas') => Has(e, icas)
      <4>1. Says(icas', icas, B)
        BY Zenon, <1>5, PickedHas
      <4>2. B \subseteq DOMAIN icas
        BY Zenon, <1>5 DEF Picked
      <4> QED BY Zenon, <4>1, <4>2 DEF Says, Has
    <3>2. Awaited(v)' \in SUBSET Awaited(v)
      BY Zenon, <3>1 DEF Awaited
    <3>3. /\ Cardinality(Awaited(v)') <= Cardinality(Awaited(v))
          /\ Cardinality(Awaited(v)') \in Nat /\ Cardinality(Awaited(v)) \in Nat
      BY <3>2, AwaitedFinite, FS_Subset, FS_CardinalityType
    <3>4. validators[v].changes \in Nat
      BY Zenon DEF SlashInv, ZoneOK, ValidatorsOK, ValidatorOK
    <3> QED BY <1>4, <2>1, <3>3, <3>4 DEF Counted
  <2>4. Kept(v)'
    BY <1>4, <2>1 DEF Kept
  <2> QED BY Zenon, <2>2, <2>3, <2>4
<1>14. staked' \in [Validators -> Nat]
  BY Zenon, <1>4 DEF CreditInv
<1> QED BY Zenon, <1>13, <1>14 DEF CreditInv

\* A restored account: nothing was executed on the closed channel.
LEMMA RestoreCredit ==
    ASSUME LInv, CustodyInv, SlashInv, CreditInv, RestoreInterchainAccount
    PROVE  CreditInv'
<1>1. /\ channel = "closed" /\ icas' = <<>> /\ UNCHANGED <<lost, staked>>
      /\ deposits' = [d \in Denoms |-> Restored(deposits[d])]
  BY DEF RestoreInterchainAccount, hostVars
<1>2. PICK X : icas \in Seq(X)
  BY DEF LInv, InFlight
<1>3. \A i \in DOMAIN icas : icas[i].response = 0
  BY Zenon, <1>1 DEF CustodyInv, InOrder, AllSent, Carried
<1>4. \A v : Staked(v, icas) = 0
  BY <1>2, <1>3, StakedNothing
<1>5. \A v : Staked(v, icas') = 0
  <2>1. <<>> \in Seq({}) /\ \A i \in DOMAIN <<>> : <<>>[i].response = 0
    OBVIOUS
  <2>2. \A v : Staked(v, <<>>) = 0
    BY Zenon, <2>1, StakedNothing
  <2> QED BY Zenon, <1>1, <2>2
<1>6. ASSUME NEW v \in Validators
      PROVE  (Balanced(v) /\ Counted(v) /\ Kept(v))'
  <2>1. Balanced(v) /\ Counted(v) /\ Kept(v)
    BY DEF CreditInv
  <2>2. /\ validators'[v].delegation = validators[v].delegation
        /\ validators'[v].registered = validators[v].registered
        /\ validators'[v].changes = 0
    BY RestoreValidators
  <2>3. Staked(v, lost') = Staked(v, lost)
    BY Zenon, <1>1
  <2>4. Balanced(v)'
    BY Zenon, <1>1, <1>4, <1>5, <2>1, <2>2, <2>3 DEF Balanced
  <2>17. DOMAIN icas' = {}
    BY <1>1
  <2>5. Awaited(v)' = {}
    BY Zenon, <2>17 DEF Awaited, Has
  <2>6. Counted(v)'
    <3>1. Cardinality(Awaited(v)') = 0
      BY Zenon, <2>5, FS_EmptySet
    <3>2. 0 >= 0
      OBVIOUS
    <3> QED BY Zenon, <2>2, <3>1, <3>2 DEF Counted
  <2>7. \A d \in Denoms : deposits[d] = NoDeposit => deposits'[d] = NoDeposit
    <3>1. NoDeposit.status # "DETOKENIZATION_IN_PROGRESS"
      BY DEF NoDeposit
    <3>2. Restored(NoDeposit) = NoDeposit
      BY Zenon, <3>1 DEF Restored
    <3> QED BY Zenon, <1>1, <3>2
  <2>8. Kept(v)'
    BY Zenon, <2>1, <2>2, <2>7 DEF Kept
  <2> QED BY <2>4, <2>6, <2>8
<1>7. staked' \in [Validators -> Nat]
  BY <1>1 DEF CreditInv
<1> QED BY <1>6, <1>7 DEF CreditInv

LEMMA InitCredit == Init => CreditInv
<1> SUFFICES ASSUME Init PROVE CreditInv
  OBVIOUS
<1>1. icas = <<>> /\ lost = <<>> /\ staked = [v \in Validators |-> 0]
  BY DEF Init
<1>2. \A v : Staked(v, <<>>) = 0
  <2>1. <<>> \in Seq({}) /\ \A i \in DOMAIN <<>> : <<>>[i].response = 0
    OBVIOUS
  <2> QED BY Zenon, <2>1, StakedNothing
<1>3. ASSUME NEW v \in Validators
      PROVE  Balanced(v) /\ Counted(v) /\ Kept(v)
  <2>1. /\ validators[v].delegation = InitialDelegation[v] /\ validators[v].changes = 0
        /\ validators[v].registered
    BY Zenon DEF Init
  <2>2. InitialDelegation[v] \in Nat
    BY LSMAssumptions
  <2>7. DOMAIN icas = {}
    BY <1>1
  <2>3. Awaited(v) = {}
    BY Zenon, <2>7 DEF Awaited, Has
  <2>4. Balanced(v)
    BY <1>1, <1>2, <2>1, <2>2 DEF Balanced
  <2>5. Counted(v) /\ Kept(v)
    <3>1. Cardinality(Awaited(v)) = 0
      BY Zenon, <2>3, FS_EmptySet
    <3>2. 0 >= 0
      OBVIOUS
    <3> QED BY Zenon, <2>1, <3>1, <3>2 DEF Counted, Kept
  <2> QED BY Zenon, <2>4, <2>5
<1> QED BY Zenon, <1>1, <1>3 DEF CreditInv

LEMMA NextCredit ==
    LInv /\ HostRateOK /\ CustodyInv /\ SlashInv /\ CreditInv /\ [Next]_vars => CreditInv'
<1> SUFFICES ASSUME LInv, HostRateOK, CustodyInv, SlashInv, CreditInv, [Next]_vars PROVE CreditInv'
  BY Zenon
<1>0. ASSUME UNCHANGED <<validators, deposits, icas, lost, staked>>
      PROVE  CreditInv'
  BY Zenon, <1>0, OtherCredit, SameValidators
<1> USE DEF zoneVars, icaVars, hostVars
<1>1. ASSUME NEW s \in Stakers, NEW d \in Denoms, NEW a \in StakeAmounts, LSMLiquidStake(s, d, a)
      PROVE  CreditInv'
  BY Zenon, <1>1, LSMLiquidStakeCredit
<1>2. ASSUME NEW s \in Stakers, NEW d \in Denoms, SendTokens(s, d)
      PROVE  CreditInv'
  BY <1>0, <1>2 DEF SendTokens
<1>3. ASSUME NEW v \in Range(ValidatorOf),
             UpdateValidatorSharesExchRate(v) \/ HostSlashes(v) \/ DeleteValidator(v)
      PROVE  CreditInv'
  <2>1. v \in Validators
    BY Zenon, LSMAssumptions DEF Range
  <2>2. CASE UpdateValidatorSharesExchRate(v) \/ HostSlashes(v)
    BY <1>0, <2>2 DEF UpdateValidatorSharesExchRate, HostSlashes
  <2> QED BY Zenon, <1>3, <2>1, <2>2, DeleteCredit
<1>4. CASE EndBlocker
  BY Zenon, <1>4, EndBlockerCredit DEF EndBlocker
<1>5. CASE Callbacks
  <2>1. CASE DetokenizeAcknowledged
    BY Zenon, <2>1, DetokenizeCallbackCredit DEF DetokenizeAcknowledged
  <2>2. ASSUME NEW i \in DOMAIN transfers, TransferAcknowledged(i)
        PROVE  CreditInv'
    BY Zenon, <2>2, TransferCallbackCredit DEF TransferAcknowledged
  <2>3. ASSUME NEW q \in Queries, ValidatorSharesToTokensRateCallback(q)
        PROVE  CreditInv'
    BY Zenon, <2>3, RateCallbackCredit
  <2>4. ASSUME NEW v \in Validators, DelegatorSharesCallback(v)
        PROVE  CreditInv'
    <3>1. UNCHANGED <<deposits, icas, lost, staked>>
      BY <2>4 DEF DelegatorSharesCallback
    <3> QED BY Zenon, <2>4, <3>1, DelegatorSharesValidators, OtherCredit
  <2> QED BY Zenon, <1>5, <2>1, <2>2, <2>3, <2>4 DEF Callbacks
<1>6. CASE HostSteps
  <2>1. ASSUME NEW q \in Queries, HostReadsRate(q)
        PROVE  CreditInv'
    BY <1>0, <2>1 DEF HostReadsRate
  <2>2. ASSUME NEW i \in DOMAIN transfers, HostReceivesTransfer(i)
        PROVE  CreditInv'
    BY Zenon, <1>0, <2>2 DEF HostReceivesTransfer
  <2> QED BY Zenon, <1>6, <2>1, <2>2, HostExecutesCredit DEF HostSteps
<1>7. ASSUME NEW q \in Queries, RateQueryTimesOut(q)
      PROVE  CreditInv'
  BY Zenon, <1>7, TimeoutCredit
<1>8. ASSUME NEW i \in DOMAIN transfers, TransferTimedOut(i)
      PROVE  CreditInv'
  BY Zenon, <1>8, TransferCallbackCredit DEF TransferTimedOut
<1>9. CASE DetokenizeTimedOut
  BY Zenon, <1>9, DetokenizeCallbackCredit DEF DetokenizeTimedOut
<1>10. CASE ChannelCloses \/ RestoreInterchainAccount
  BY Zenon, <1>10, ChannelClosesCredit, RestoreCredit
<1>11. CASE HaltHostZone \/ ResumeHostZone
  BY <1>0, <1>11 DEF HaltHostZone, ResumeHostZone
<1>12. CASE UNCHANGED vars
  BY Zenon, <1>0, <1>12 DEF vars
<1> QED
  BY <1>1, <1>2, <1>3, <1>4, <1>5, <1>6, <1>7, <1>8, <1>9, <1>10, <1>11, <1>12 DEF Next

LEMMA CreditInvHolds == LInv /\ SlashInv /\ CreditInv => DetokenizedCredited
<1> SUFFICES ASSUME LInv, SlashInv, CreditInv, NEW i \in DOMAIN icas
             PROVE  DetokenizeAccepted(icas[i])
  BY Zenon DEF DetokenizedCredited, CreditInv, Balanced
<1>1. PICK d \in Denoms : d = icas[i].denom
  BY PacketStatus
<1>2. PICK v \in Validators : v = ValidatorOf[d]
  BY Zenon, LSMAssumptions
<1>3. deposits[d] # NoDeposit
  BY <1>1, PacketStatus DEF NoDeposit
<1>4. validators[v].registered
  BY Zenon, <1>2, <1>3 DEF CreditInv, Kept
<1>5. d \in Awaited(v)
  BY Zenon, <1>1, <1>2 DEF Awaited, Has
<1>6. Cardinality(Awaited(v)) \in Nat /\ Cardinality(Awaited(v)) # 0
  BY Zenon, <1>5, AwaitedFinite, FS_EmptySet
<1>7. validators[v].changes # 0
  BY <1>6 DEF CreditInv, Counted, SlashInv, ZoneOK, ValidatorsOK, ValidatorOK
<1> QED BY Zenon, <1>1, <1>2, <1>4, <1>7 DEF DetokenizeAccepted

\* DetokenizedCredited is an invariant: DetokenizeCallback credits what the host staked,
\* once, and never finds the validator removed or without a change in progress, so that no
\* acknowledgement blocks the ordered channel.
THEOREM AlwaysCredited == Spec => []DetokenizedCredited
<1> DEFINE I == LInv /\ HostRateOK /\ CustodyInv /\ SlashInv /\ CreditInv
<1>1. Init => I
  BY InitLInv, InitHostRate, InitCustody, InitSlash, InitCredit
<1>2. I /\ [Next]_vars => I'
  BY Zenon, NextLInv, NextHostRate, NextCustody, NextSlash, NextCredit
<1>3. I => DetokenizedCredited
  BY CreditInvHolds
<1> QED BY <1>1, <1>2, <1>3, PTL DEF Spec
=============================================================================
