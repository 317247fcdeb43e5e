--------------------------- MODULE StakeDymProofs ---------------------------
(***************************************************************************)
(* For any users, amounts, rates, bounds and events:                       *)
(*  - there is never more than one transfer to the host, and a delegation  *)
(*    record waits for a transfer exactly while one with its id and amount *)
(*    is in flight (TInv);                                                 *)
(*  - every token is in exactly one place of the books, and the books      *)
(*    agree with the host (DInv);                                          *)
(*  - escrow, unbonding records and redemptions agree as long as no        *)
(*    redemption is worth less than one token (EInv).                      *)
(***************************************************************************)
EXTENDS StakeDym, SumTheorems

Waiting == {r \in delegationRecords : r.status = "TRANSFER_IN_PROGRESS"}

\* The stores are finite, so that an id not in use is found, and have one record per id.
StoreOK ==
    /\ IsFiniteSet(delegationRecords) /\ IsFiniteSet(transfers)
    /\ \A r \in delegationRecords : DOMAIN r = {"id", "native", "status"}
    /\ \A t \in transfers : DOMAIN t = {"id", "native", "state"}
    /\ \A r, s \in delegationRecords : r.id = s.id => r = s

\* The inductive invariant: transfers and waiting records match, one to one.
TInv ==
    /\ StoreOK
    /\ \A s, t \in transfers : s = t
    /\ \A t \in transfers : \E r \in Waiting : r.id = t.id /\ r.native = t.native
    /\ \A r \in Waiting : \E t \in transfers : r.id = t.id /\ r.native = t.native
-----------------------------------------------------------------------------
\* A finite set of ids has an unused natural id.
LEMMA FreshIdNat ==
    ASSUME NEW used, IsFiniteSet(used)
    PROVE  FreshId(used) \in Nat /\ FreshId(used) \notin used
<1> DEFINE n == Cardinality(used)
<1>1. n \in Nat
  BY Zenon, FS_CardinalityType
<1>2. \E i \in 1 .. n + 1 : i \notin used
  <2> SUFFICES ASSUME 1 .. n + 1 \subseteq used PROVE FALSE
    BY Zenon
  <2>1. Cardinality(1 .. n + 1) <= n
    BY Zenon, FS_Subset
  <2>2. Cardinality(1 .. n + 1) = n + 1
    <3> HIDE DEF n
    <3> QED BY <1>1, FS_Interval
  <2> HIDE DEF n
  <2> QED BY <1>1, <2>1, <2>2
<1>3. FreshId(used) \in 1 .. n + 1 /\ FreshId(used) \notin used
  BY Zenon, <1>2 DEF FreshId
<1> HIDE DEF n
<1> QED BY <1>1, <1>3

\* The ids of finitely many records are finitely many.
LEMMA IdsFinite ==
    ASSUME NEW records, IsFiniteSet(records)
    PROVE  IsFiniteSet(IdsOf(records))
<1> DEFINE f == [r \in records |-> r.id]
<1>1. f \in Surjection(records, IdsOf(records))
  BY Zenon DEF Surjection, IdsOf
<1> QED BY Zenon, <1>1, FS_Surjection

\* A set with at most one element has cardinality at most one.
LEMMA AtMostOne ==
    ASSUME NEW S, \A x, y \in S : x = y
    PROVE  Cardinality(S) <= 1
<1>1. CASE S = {}
  BY <1>1, FS_EmptySet
<1>2. CASE S # {}
  <2>1. PICK x \in S : TRUE
    BY Zenon, <1>2
  <2>2. S = {x}
    BY Zenon, <2>1
  <2> QED BY <2>2, FS_Singleton
<1> QED BY Zenon, <1>1, <1>2

\* At genesis there is no transfer and no record.
LEMMA InitTInv == Init => TInv
  BY Zenon, FS_EmptySet DEF Init, TInv, StoreOK, Waiting

\* Steps that touch neither the delegation records nor the transfers.
LEMMA UnrelatedStep ==
    ASSUME TInv, UNCHANGED <<delegationRecords, transfers>>
    PROVE  TInv'
  BY Zenon DEF TInv, StoreOK, Waiting

\* PrepareDelegation sends a transfer only when no record waits for one, and under an id
\* that neither a record nor a transfer has.
LEMMA PrepareDelegationStep ==
    ASSUME TInv, NEW z, NEW sent, PrepareDelegation(z, sent)
    PROVE  TInv'
<1>1. CASE ~(sent /\ Transferrable(z))
  BY Zenon, <1>1, UnrelatedStep DEF PrepareDelegation
<1>2. CASE sent /\ Transferrable(z)
  <2> DEFINE id == FreshId(IdsOf(delegationRecords) \cup IdsOf(transfers))
             record == [id |-> id, native |-> bank.deposit, status |-> "TRANSFER_IN_PROGRESS"]
             packet == [id |-> id, native |-> bank.deposit, state |-> "sent"]
  <2>1. /\ delegationRecords' = delegationRecords \cup {record}
        /\ transfers' = transfers \cup {packet}
    BY Zenon, <1>2 DEF PrepareDelegation
  <2>2. id \notin IdsOf(delegationRecords)
    <3>1. IsFiniteSet(IdsOf(delegationRecords)) /\ IsFiniteSet(IdsOf(transfers))
      BY Zenon, IdsFinite DEF TInv, StoreOK
    <3>2. IsFiniteSet(IdsOf(delegationRecords) \cup IdsOf(transfers))
      BY Zenon, <3>1, FS_Union
    <3> QED BY Zenon, <3>2, FreshIdNat
  <2> HIDE DEF id
  <2>3. \A r \in delegationRecords : r.id # id
    BY Zenon, <2>2 DEF IdsOf
  <2>4. Waiting = {} /\ transfers = {}
    BY Zenon, <1>2 DEF Transferrable, Waiting, TInv
  <2>5. Waiting' = {record} /\ transfers' = {packet}
    BY <2>1, <2>4 DEF Waiting
  <2>6. /\ IsFiniteSet(delegationRecords') /\ IsFiniteSet(transfers')
    BY Zenon, <2>1, FS_AddElement DEF TInv, StoreOK
  <2>7. \A r, s \in delegationRecords' : r.id = s.id => r = s
    BY <2>1, <2>3 DEF TInv, StoreOK
  <2>8. StoreOK'
    BY Zenon, <2>1, <2>6, <2>7 DEF TInv, StoreOK
  <2> QED BY <2>5, <2>8 DEF TInv
<1> QED BY Zenon, <1>1, <1>2

\* The host writes its answer on the transfer.
LEMMA HostReceivesTransferStep ==
    ASSUME TInv, NEW t \in transfers, NEW accepted, HostReceivesTransfer(t, accepted)
    PROVE  TInv'
<1> DEFINE state == IF accepted THEN "success" ELSE "failure"
           answered == [t EXCEPT !.state = state]
<1>1. transfers = {t} /\ DOMAIN t = {"id", "native", "state"}
  BY Zenon DEF TInv, StoreOK
<1>2. transfers' = {answered} /\ delegationRecords' = delegationRecords
  BY Zenon, <1>1 DEF HostReceivesTransfer, recordVars
<1>3. answered.id = t.id /\ answered.native = t.native /\ DOMAIN answered = {"id", "native", "state"}
  BY Zenon, <1>1
<1> HIDE DEF answered
<1>4. IsFiniteSet(transfers')
  BY Zenon, <1>2, FS_Singleton
<1>5. StoreOK'
  BY Zenon, <1>2, <1>3, <1>4 DEF TInv, StoreOK
<1>6. Waiting' = Waiting
  BY Zenon, <1>2 DEF Waiting
<1> QED BY <1>1, <1>2, <1>3, <1>5, <1>6 DEF TInv

\* The record of the transfer that comes back is no longer waiting, and it was the only
\* one.
LEMMA TransferEnds ==
    ASSUME TInv, NEW t \in transfers, transfers' = transfers \ {t},
           \/ delegationRecords' = SetStatus(delegationRecords, t.id, "DELEGATION_QUEUE")
           \/ delegationRecords' = {r \in delegationRecords : r.id # t.id}
    PROVE  TInv'
<1>1. transfers = {t} /\ transfers' = {}
  BY DEF TInv
<1>2. \A r \in Waiting : r.id = t.id
  BY Zenon, <1>1 DEF TInv
<1>3. CASE delegationRecords' = {r \in delegationRecords : r.id # t.id}
  <2>1. IsFiniteSet(delegationRecords')
    BY Zenon, <1>3, FS_Subset DEF TInv, StoreOK
  <2>2. Waiting' = {}
    BY Zenon, <1>2, <1>3 DEF Waiting
  <2>3. /\ \A r \in delegationRecords' : r \in delegationRecords
        /\ IsFiniteSet(transfers')
    BY Zenon, <1>1, <1>3, FS_EmptySet
  <2>4. StoreOK'
    BY Zenon, <1>1, <2>1, <2>3 DEF TInv, StoreOK
  <2> QED BY Zenon, <1>1, <2>2, <2>4 DEF TInv
<1>4. CASE delegationRecords' = SetStatus(delegationRecords, t.id, "DELEGATION_QUEUE")
  <2> DEFINE g(r) == IF r.id = t.id THEN [r EXCEPT !.status = "DELEGATION_QUEUE"] ELSE r
             f == [r \in delegationRecords |-> g(r)]
  <2>1. delegationRecords' = {g(r) : r \in delegationRecords}
    BY Zenon, <1>4 DEF SetStatus
  <2>2. \A r \in delegationRecords : /\ g(r).id = r.id /\ DOMAIN g(r) = {"id", "native", "status"}
                                     /\ g(r).status = "TRANSFER_IN_PROGRESS" => g(r) = r /\ r.id # t.id
    <3> SUFFICES ASSUME NEW r \in delegationRecords
                 PROVE  /\ g(r).id = r.id /\ DOMAIN g(r) = {"id", "native", "status"}
                        /\ g(r).status = "TRANSFER_IN_PROGRESS" => g(r) = r /\ r.id # t.id
      BY Zenon
    <3>1. DOMAIN r = {"id", "native", "status"}
      BY Zenon DEF TInv, StoreOK
    <3>2. CASE r.id = t.id
      BY Zenon, <3>1, <3>2
    <3>3. CASE r.id # t.id
      BY Zenon, <3>1, <3>3
    <3> QED BY Zenon, <3>2, <3>3
  <2>3. f \in Surjection(delegationRecords, delegationRecords')
    BY Zenon, <2>1 DEF Surjection
  <2>4. IsFiniteSet(delegationRecords')
    BY Zenon, <2>3, FS_Surjection DEF TInv, StoreOK
  <2> HIDE DEF g
  <2>5. Waiting' = {}
    BY <1>2, <2>1, <2>2 DEF Waiting
  <2>6. \A r, s \in delegationRecords' : r.id = s.id => r = s
    BY <2>1, <2>2 DEF TInv, StoreOK
  <2>7. StoreOK'
    <3>1. \A r \in delegationRecords' : DOMAIN r = {"id", "native", "status"}
      BY Zenon, <2>1, <2>2
    <3>2. IsFiniteSet(transfers') /\ \A x \in transfers' : DOMAIN x = {"id", "native", "state"}
      BY Zenon, <1>1, FS_EmptySet
    <3> QED BY Zenon, <2>4, <2>6, <3>1, <3>2 DEF StoreOK
  <2> QED BY <1>1, <2>5, <2>7 DEF TInv
<1> QED BY Zenon, <1>3, <1>4

\* A confirmed delegation removes a record that waits for nothing.
LEMMA ConfirmDelegationStep ==
    ASSUME TInv, NEW r \in delegationRecords, ConfirmDelegation(r)
    PROVE  TInv'
<1>1. delegationRecords' = delegationRecords \ {r} /\ transfers' = transfers /\ r \notin Waiting
  BY Zenon DEF ConfirmDelegation, Waiting
<1>2. IsFiniteSet(delegationRecords')
  BY Zenon, <1>1, FS_RemoveElement DEF TInv, StoreOK
<1>3. Waiting' = Waiting
  BY Zenon, <1>1 DEF Waiting
<1>4. StoreOK'
  BY Zenon, <1>1, <1>2 DEF TInv, StoreOK
<1> QED BY Zenon, <1>1, <1>3, <1>4 DEF TInv

\* A day prepares a delegation or leaves records and transfers alone.
LEMMA DayEpochStep ==
    ASSUME TInv, NEW sent \in BOOLEAN, DayEpoch(sent)
    PROVE  TInv'
<1>1. CASE RateUpdatable
  BY Zenon, <1>1, PrepareDelegationStep DEF DayEpoch
<1>2. CASE ~RateUpdatable
  BY Zenon, <1>2, UnrelatedStep DEF DayEpoch
<1> QED BY Zenon, <1>1, <1>2

\* One step per action.
LEMMA NextTInv == TInv /\ [Next]_vars => TInv'
<1> SUFFICES ASSUME TInv, [Next]_vars PROVE TInv'
  BY Zenon
<1>1. CASE UNCHANGED vars
  BY Zenon, <1>1, UnrelatedStep DEF vars
<1>2. ASSUME NEW sent \in BOOLEAN, DayEpoch(sent) PROVE TInv'
  BY Zenon, <1>2, DayEpochStep
<1>3. ASSUME NEW t \in transfers, NEW accepted \in BOOLEAN, HostReceivesTransfer(t, accepted)
      PROVE  TInv'
  BY Zenon, <1>3, HostReceivesTransferStep
<1>4. ASSUME NEW t \in transfers, OnAcknowledgementPacket(t) PROVE TInv'
  BY Zenon, <1>4, TransferEnds DEF OnAcknowledgementPacket, FailedTransfer
<1>5. ASSUME NEW t \in transfers, OnTimeoutPacket(t) PROVE TInv'
  BY Zenon, <1>5, TransferEnds DEF OnTimeoutPacket, FailedTransfer
<1>6. ASSUME NEW r \in delegationRecords, ConfirmDelegation(r) PROVE TInv'
  BY Zenon, <1>6, ConfirmDelegationStep
<1>7. CASE \/ \E u \in Users, a \in StakeAmounts : LiquidStake(u, a)
           \/ LiquidStakeAndDistributeFees \/ BeginBlocker \/ ResumeHostZone
           \/ RefreshRedemptionRate
           \/ \E b \in InnerBounds : UpdateInnerRedemptionRateBounds(b)
           \/ RewardsArrive \/ HostSlashed \/ AdjustDelegatedBalance
  BY Zenon, <1>7, UnrelatedStep DEF LiquidStake, LiquidStakeAndDistributeFees, BeginBlocker,
     ResumeHostZone, RefreshRedemptionRate, UpdateInnerRedemptionRateBounds, RewardsArrive,
     HostSlashed, AdjustDelegatedBalance, recordVars
<1>8. CASE \/ \E u \in Users, a \in RedeemAmounts : RedeemStake(u, a)
           \/ HourEpoch
           \/ \E r \in delegationRecords : HostDelegates(r)
           \/ \E r \in unbondingRecords : HostUndelegates(r) \/ ConfirmUnbondedTokenSweep(r)
           \/ \E r \in unbondingRecords, u \in host.undelegations : ConfirmUndelegation(r, u)
           \/ \E u \in host.undelegations : HostSweeps(u)
  BY Zenon, <1>8, UnrelatedStep DEF RedeemStake, HourEpoch, HostDelegates, HostUndelegates,
     ConfirmUnbondedTokenSweep, ConfirmUndelegation, HostSweeps, recordVars
<1> QED
  BY Zenon, <1>1, <1>2, <1>3, <1>4, <1>5, <1>6, <1>7, <1>8 DEF Next
-----------------------------------------------------------------------------
\* There is at most one transfer to the host, and the records in TRANSFER_IN_PROGRESS are
\* those of the transfers in flight, through acknowledgements, refusals and timeouts: the
\* callbacks of OnAcknowledgementPacket and OnTimeoutPacket always find their record, and
\* PrepareDelegation never waits for a transfer that is gone.
THEOREM TransfersAlwaysMatched == Spec => []TransfersMatched
<1>1. TInv => TransfersMatched
  <2> SUFFICES ASSUME TInv PROVE TransfersMatched
    BY Zenon
  <2>1. Cardinality(transfers) <= 1
    BY Zenon, AtMostOne DEF TInv
  <2>2. {<<r.id, r.native>> : r \in Waiting} = {<<t.id, t.native>> : t \in transfers}
    BY DEF TInv
  <2> QED BY Zenon, <2>1, <2>2 DEF TransfersMatched, Waiting
<1>2. TInv /\ [Next]_vars => TInv'
  BY Zenon, NextTInv
<1> QED
  BY <1>1, <1>2, InitTInv, PTL DEF Spec
-----------------------------------------------------------------------------
(* Totals over records, and decimals                                       *)

\* The records of R hold integers in the field.
Amounts(field, R) == \A r \in R : r[field] \in Int

\* No records hold nothing.
LEMMA TotalEmpty == \A field : Total(field, {}) = 0
  BY Zenon, SumEmpty DEF Total

\* The total of finitely many integer amounts is an integer,
LEMMA TotalInt ==
    ASSUME NEW field, NEW R, IsFiniteSet(R), Amounts(field, R)
    PROVE  Total(field, R) \in Int
<1> DEFINE f == [r \in R |-> r[field]]
<1>1. \A r \in R : f[r] \in Int
  BY Zenon DEF Amounts
<1> HIDE DEF f
<1>2. SumFunctionOnSet(f, R) \in Int
  BY Zenon, <1>1, SumInt
<1> QED
  BY Zenon, <1>2 DEF Total, f

\* and of natural ones a natural number.
LEMMA TotalNat ==
    ASSUME NEW field, NEW R, IsFiniteSet(R), \A r \in R : r[field] \in Nat
    PROVE  Total(field, R) \in Nat
<1> DEFINE f == [r \in R |-> r[field]]
<1>1. \A r \in R : f[r] \in Nat
  BY Zenon
<1> HIDE DEF f
<1>2. SumFunctionOnSet(f, R) \in Nat
  BY Zenon, <1>1, SumNat
<1> QED
  BY Zenon, <1>2 DEF Total, f

\* Disjoint sets of records add up.
LEMMA TotalUnion ==
    ASSUME NEW field, NEW Q, IsFiniteSet(Q), NEW R, IsFiniteSet(R), Q \cap R = {},
           NEW U, U = Q \cup R, Amounts(field, U)
    PROVE  Total(field, U) = Total(field, Q) + Total(field, R)
<1> DEFINE f == [r \in U |-> r[field]]
           q == [r \in Q |-> r[field]]
           p == [r \in R |-> r[field]]
<1>1. \A r \in U : f[r] \in Int
  BY Zenon DEF Amounts
<1>2. \A r \in Q : f[r] = q[r]
  BY Zenon
<1>3. \A r \in R : f[r] = p[r]
  BY Zenon
<1> HIDE DEF f, q, p
<1>4. SumFunctionOnSet(f, U) = SumFunctionOnSet(f, Q) + SumFunctionOnSet(f, R)
  BY <1>1, SumUnion
<1>5. SumFunctionOnSet(f, Q) = SumFunctionOnSet(q, Q)
  BY Zenon, <1>2, SumEqual
<1>6. SumFunctionOnSet(f, R) = SumFunctionOnSet(p, R)
  BY Zenon, <1>3, SumEqual
<1> QED
  BY Zenon, <1>4, <1>5, <1>6 DEF Total, f, q, p

\* A new record adds its amount.
LEMMA TotalAdd ==
    ASSUME NEW field, NEW R, IsFiniteSet(R), NEW r, r \notin R,
           NEW U, U = R \cup {r}, Amounts(field, U)
    PROVE  Total(field, U) = Total(field, R) + r[field] /\ IsFiniteSet(U)
<1> DEFINE f == [s \in U |-> s[field]]
           g == [s \in R |-> s[field]]
<1>1. \A s \in U : f[s] \in Int
  BY Zenon DEF Amounts
<1>2. \A s \in R : f[s] = g[s]
  BY Zenon
<1>3. f[r] = r[field]
  BY Zenon
<1>4. IsFiniteSet(U)
  BY Zenon, FS_AddElement
<1> HIDE DEF f, g
<1>5. SumFunctionOnSet(f, U) = SumFunctionOnSet(f, R) + f[r]
  BY <1>1, SumAdd
<1>6. SumFunctionOnSet(f, R) = SumFunctionOnSet(g, R)
  BY Zenon, <1>2, SumEqual
<1> QED
  BY Zenon, <1>3, <1>4, <1>5, <1>6 DEF Total, f, g

\* Rewriting records one to one without touching the amounts keeps the total.
LEMMA TotalImage ==
    ASSUME NEW field, NEW R, IsFiniteSet(R), Amounts(field, R), NEW U, NEW m,
           OneToOne(m, R, U), \A r \in R : m[r][field] = r[field]
    PROVE  Total(field, U) = Total(field, R) /\ IsFiniteSet(U)
<1> DEFINE f == [r \in R |-> r[field]]
           g == [r \in U |-> r[field]]
<1>1. \A r \in R : f[r] \in Int /\ g[m[r]] = f[r]
  BY Zenon DEF Amounts, OneToOne
<1> HIDE DEF f, g
<1>2. SumFunctionOnSet(g, U) = SumFunctionOnSet(f, R) /\ IsFiniteSet(U)
  BY <1>1, SumImage
<1> QED
  BY Zenon, <1>2 DEF Total, f, g

\* A removed record takes its amount away.
LEMMA TotalRemove ==
    ASSUME NEW field, NEW R, IsFiniteSet(R), Amounts(field, R), NEW r \in R,
           NEW U, U = R \ {r}
    PROVE  Total(field, U) = Total(field, R) - r[field] /\ IsFiniteSet(U)
<1>1. IsFiniteSet(U)
  BY Zenon, FS_RemoveElement
<1>2. R = U \cup {r} /\ r \notin U
  BY Zenon
<1>3. Total(field, R) = Total(field, U) + r[field]
  BY Zenon, <1>1, <1>2, TotalAdd
<1>4. Amounts(field, U) /\ r[field] \in Int
  BY Zenon DEF Amounts
<1>5. Total(field, U) \in Int
  BY Zenon, <1>1, <1>4, TotalInt
<1> QED BY <1>1, <1>3, <1>4, <1>5

\* A rewritten record contributes its new amount in place of the old one.
LEMMA TotalReplace ==
    ASSUME NEW field, NEW R, IsFiniteSet(R), Amounts(field, R), NEW r \in R,
           NEW s, s \notin R \/ s = r, s[field] \in Int, NEW U, U = (R \ {r}) \cup {s}
    PROVE  Total(field, U) = Total(field, R) - r[field] + s[field] /\ IsFiniteSet(U)
<1> DEFINE Q == R \ {r}
<1>1. Q = R \ {r} /\ U = Q \cup {s} /\ s \notin Q /\ Amounts(field, U)
  BY Zenon DEF Amounts
<1> HIDE DEF Q
<1>2. Total(field, Q) = Total(field, R) - r[field] /\ IsFiniteSet(Q)
  BY Zenon, <1>1, TotalRemove
<1>3. Total(field, U) = Total(field, Q) + s[field] /\ IsFiniteSet(U)
  BY Zenon, <1>1, <1>2, TotalAdd
<1> QED BY Zenon, <1>2, <1>3
\* Quotient and remainder of a natural number.
LEMMA DivMod ==
    ASSUME NEW n \in Int, NEW d \in Nat \ {0}
    PROVE  n \div d \in Int /\ n % d \in 0 .. d - 1 /\ n = d * (n \div d) + (n % d)
  OBVIOUS

\* The quotient of natural numbers is natural.
LEMMA DivNat ==
    ASSUME NEW n \in Nat, NEW d \in Nat \ {0}
    PROVE  n \div d \in Nat
  OBVIOUS

\* Rounding to the closest integer gives an integer,
LEMMA RoundInt ==
    ASSUME NEW n \in Int, NEW d \in Nat \ {0}
    PROVE  RoundHalfEven(n, d) \in Int
  BY DivMod DEF RoundHalfEven

\* natural for a natural numerator.
LEMMA RoundNat ==
    ASSUME NEW n \in Nat, NEW d \in Nat \ {0}
    PROVE  RoundHalfEven(n, d) \in Nat
  BY DivNat DEF RoundHalfEven

\* A product of natural numbers is natural,
LEMMA TimesNat == ASSUME NEW a \in Nat, NEW b \in Nat PROVE a * b \in Nat
  OBVIOUS

\* and of positive ones a positive one.
LEMMA TimesPos == ASSUME NEW a \in Nat \ {0}, NEW b \in Nat \ {0} PROVE a * b \in Nat \ {0}
  OBVIOUS

\* The decimal operations keep non-negative numbers non-negative.
LEMMA DecNat ==
    ASSUME NEW a \in Nat, NEW b \in Nat
    PROVE  /\ NewDecFromInt(a) \in Nat /\ Mul(a, b) \in Nat /\ TruncateInt(a) \in Nat
           /\ b # 0 => NewDecFromInt(b) # 0 /\ Quo(a, b) \in Nat
<1>1. Precision \in Nat \ {0}
  BY Zenon, PrecisionAssumption
<1>2. a * Precision \in Nat /\ a * b \in Nat
  BY Zenon, <1>1, TimesNat
<1>3. b # 0 => b * Precision # 0
  BY Zenon, <1>1, TimesPos
<1>4. TruncateInt(a) \in Nat
  BY Zenon, <1>1, DivNat DEF TruncateInt
<1>5. Mul(a, b) \in Nat
  BY Zenon, <1>1, <1>2, RoundNat DEF Mul
<1>6. b # 0 => Quo(a, b) \in Nat
  BY Zenon, <1>2, RoundNat DEF Quo
<1> QED BY Zenon, <1>2, <1>3, <1>4, <1>5, <1>6 DEF NewDecFromInt
-----------------------------------------------------------------------------
(* The invariant of the books                                              *)

\* The accounts of Stride and the host zone.
Bank == [deposit : Nat, fees : Nat, escrow : Nat, claim : Nat]
Zone == [rate : Nat, delegated : Nat, halted : BOOLEAN,
         inner : InnerBounds \cup {<<MinRedemptionRate, MaxRedemptionRate>>}]

\* The records of the stores and the undelegations of the host.
DelegationRecord == [id : Nat, native : Nat,
                     status : {"TRANSFER_IN_PROGRESS", "DELEGATION_QUEUE"}]
UnbondingRecord == [id : Nat, st : Nat, native : Nat, left : Nat,
                    status : {"ACCUMULATING_REDEMPTIONS", "UNBONDING_QUEUE",
                              "UNBONDING_IN_PROGRESS", "UNBONDED", "CLAIMABLE"}]
RedemptionRecord == [unbondingId : Nat, redeemer : Users, st : Nat, native : Nat]
Undelegation == [id : Nat, native : Nat, left : Nat, status : {"submitted", "confirmed"}]

\* Balances are never negative: no operation takes out more than is there.
BalancesOK ==
    /\ bank \in Bank
    /\ zone \in Zone
    /\ DOMAIN host = {"staked", "delegated", "undelegations", "slash"}
    /\ host.staked \in Nat /\ host.slash \in Nat
    /\ stTokens \in [Holders -> Nat]
    /\ income \in Int /\ paid \in Int

\* What the host has delegated and not confirmed waits in the delegation queue.
DelegationsOK ==
    /\ \A r \in delegationRecords : r \in DelegationRecord
    /\ \A id \in host.delegated : \E r \in delegationRecords :
          r.id = id /\ r.status = "DELEGATION_QUEUE"

\* A record that is not yet undelegated has no completion time.
UnbondingsOK ==
    /\ IsFiniteSet(unbondingRecords) /\ \A r \in unbondingRecords : r \in UnbondingRecord
    /\ \A r, s \in unbondingRecords : r.id = s.id => r = s
    /\ \A r \in unbondingRecords : ~Undelegating(r) => r.left = 0

\* A redeemer has one redemption record in an unbonding record.
RedemptionsOK ==
    /\ IsFiniteSet(redemptionRecords) /\ \A d \in redemptionRecords : d \in RedemptionRecord
    /\ \A c, d \in redemptionRecords :
          c.unbondingId = d.unbondingId /\ c.redeemer = d.redeemer => c = d

\* An unbonding record and the undelegation of the host with its id.
Coupled(r, u) ==
    /\ r.status # "ACCUMULATING_REDEMPTIONS"
    /\ u.status = "submitted" => r.status = "UNBONDING_QUEUE" /\ r.native = u.native
    /\ r.status = "UNBONDING_IN_PROGRESS" => u.left <= r.left
    /\ r.status \in {"UNBONDED", "CLAIMABLE"} => u.left = 0

\* An undelegation of the host has the amount of its record until it is confirmed, and
\* completes no later than the record says.
UndelegationsOK ==
    /\ IsFiniteSet(host.undelegations) /\ \A u \in host.undelegations : u \in Undelegation
    /\ \A u, v \in host.undelegations : u.id = v.id => u = v
    /\ \A u \in host.undelegations : u.left <= UnbondingPeriod
    /\ \A r \in unbondingRecords, u \in host.undelegations : r.id = u.id => Coupled(r, u)

\* An unbonding record holds what its redemption records say (x/stakedym/keeper/unbonding.go).
RecordsAddUp ==
    \A r \in unbondingRecords : /\ r.native = Natives(RedemptionsOf(r.id))
                                /\ r.st = StTokens(RedemptionsOf(r.id))

\* stTokens are escrowed until the undelegation is confirmed, natives are owed from then on.
Undelegated == {r \in unbondingRecords : Undelegating(r)}
Escrowed == {r \in unbondingRecords : ~Undelegating(r)}
Unconfirmed == {r \in delegationRecords : r.id \in host.delegated}

\* The three equations behind NothingLost and HostTracked, solved for one balance each.
TokensAccounted ==
    income = bank.deposit + bank.fees + Natives(delegationRecords) + zone.delegated
               + Natives(Undelegated) + paid
ClaimsCovered ==
    bank.claim = Natives(Undelegated) - Natives(UndelegationsIn("confirmed"))
StakeTracked ==
    zone.delegated = host.staked + host.slash + Natives(UndelegationsIn("submitted"))
                       - Natives(Unconfirmed)

\* The inductive invariant.
Stores == DelegationsOK /\ UnbondingsOK /\ RedemptionsOK /\ UndelegationsOK /\ RecordsAddUp
DInv == TInv /\ BalancesOK /\ Stores /\ TokensAccounted /\ ClaimsCovered /\ StakeTracked

USE DEF Bank, Zone, Coupled

\* The sets the equations sum over are finite and hold integer amounts,
LEMMA SetsOK ==
    ASSUME TInv, DelegationsOK, UnbondingsOK, RedemptionsOK, UndelegationsOK
    PROVE  /\ IsFiniteSet(delegationRecords) /\ Amounts("native", delegationRecords)
           /\ IsFiniteSet(Unconfirmed) /\ Amounts("native", Unconfirmed)
           /\ IsFiniteSet(Undelegated) /\ Amounts("native", Undelegated)
           /\ IsFiniteSet(Escrowed) /\ Amounts("st", Escrowed)
           /\ \A status : /\ IsFiniteSet(UndelegationsIn(status))
                          /\ Amounts("native", UndelegationsIn(status))
           /\ \A id : /\ IsFiniteSet(RedemptionsOf(id))
                      /\ Amounts("native", RedemptionsOf(id)) /\ Amounts("st", RedemptionsOf(id))
<1>1. IsFiniteSet(delegationRecords) /\ Amounts("native", delegationRecords)
  BY DEF TInv, StoreOK, DelegationsOK, DelegationRecord, Amounts
<1>2. IsFiniteSet(Unconfirmed) /\ Amounts("native", Unconfirmed)
  BY Zenon, <1>1, FS_Subset DEF Amounts, Unconfirmed
<1>3. IsFiniteSet(Undelegated) /\ IsFiniteSet(Escrowed)
  BY Zenon, FS_Subset DEF UnbondingsOK, Undelegated, Escrowed
<1>4. Amounts("native", Undelegated) /\ Amounts("st", Escrowed)
  BY DEF UnbondingsOK, Undelegated, Escrowed, UnbondingRecord, Amounts
<1>5. ASSUME NEW status
      PROVE  IsFiniteSet(UndelegationsIn(status)) /\ Amounts("native", UndelegationsIn(status))
  <2>1. IsFiniteSet(UndelegationsIn(status))
    BY Zenon, FS_Subset DEF UndelegationsOK, UndelegationsIn
  <2> QED BY <2>1 DEF UndelegationsOK, UndelegationsIn, Undelegation, Amounts
<1>6. ASSUME NEW id
      PROVE  /\ IsFiniteSet(RedemptionsOf(id))
             /\ Amounts("native", RedemptionsOf(id)) /\ Amounts("st", RedemptionsOf(id))
  <2>1. IsFiniteSet(RedemptionsOf(id))
    BY Zenon, FS_Subset DEF RedemptionsOK, RedemptionsOf
  <2> QED BY <2>1 DEF RedemptionsOK, RedemptionsOf, RedemptionRecord, Amounts
<1> QED BY Zenon, <1>1, <1>2, <1>3, <1>4, <1>5, <1>6

\* so their sums are integers.
LEMMA TotalsInt ==
    ASSUME DInv
    PROVE  /\ Natives(delegationRecords) \in Nat /\ Natives(Unconfirmed) \in Int
           /\ Natives(Undelegated) \in Int /\ StTokens(Escrowed) \in Int
           /\ Natives(UndelegationsIn("submitted")) \in Int
           /\ Natives(UndelegationsIn("confirmed")) \in Int
<1>1. Natives(delegationRecords) \in Nat
  BY TotalNat DEF DInv, Stores, TInv, StoreOK, DelegationsOK, DelegationRecord, Natives
<1> QED BY Zenon, <1>1, SetsOK, TotalInt DEF DInv, Stores, Natives, StTokens

\* A step that leaves the delegation records alone keeps their part of the invariant.
LEMMA DelegationsUnchanged ==
    ASSUME DelegationsOK, delegationRecords' = delegationRecords, host'.delegated = host.delegated
    PROVE  /\ DelegationsOK' /\ Natives(delegationRecords)' = Natives(delegationRecords)
           /\ Natives(Unconfirmed)' = Natives(Unconfirmed)
<1>1. DelegationsOK'
  BY Zenon DEF DelegationsOK
<1>2. Unconfirmed' = Unconfirmed
  BY Zenon DEF Unconfirmed
<1> QED BY Zenon, <1>1, <1>2

\* The same for the unbonding records, the redemptions and the undelegations,
LEMMA UnbondingsUnchanged ==
    ASSUME UnbondingsOK, RedemptionsOK, UndelegationsOK, RecordsAddUp,
           UNCHANGED <<unbondingRecords, redemptionRecords>>,
           host'.undelegations = host.undelegations
    PROVE  /\ UnbondingsOK' /\ RedemptionsOK' /\ UndelegationsOK' /\ RecordsAddUp'
           /\ Natives(Undelegated)' = Natives(Undelegated)
           /\ Natives(UndelegationsIn("submitted"))' = Natives(UndelegationsIn("submitted"))
           /\ Natives(UndelegationsIn("confirmed"))' = Natives(UndelegationsIn("confirmed"))
<1>1. UnbondingsOK' /\ RedemptionsOK' /\ UndelegationsOK'
  BY Zenon DEF UnbondingsOK, RedemptionsOK, UndelegationsOK, Undelegating
<1>2. \A id : RedemptionsOf(id)' = RedemptionsOf(id)
  BY Zenon DEF RedemptionsOf
<1>3. RecordsAddUp'
  BY Zenon, <1>2 DEF RecordsAddUp
<1>4. Undelegated' = Undelegated
  BY Zenon DEF Undelegated, Undelegating
<1>5. \A status : UndelegationsIn(status)' = UndelegationsIn(status)
  BY Zenon DEF UndelegationsIn
<1> QED BY Zenon, <1>1, <1>3, <1>4, <1>5

\* and for all of them.
LEMMA StoresUnchanged ==
    ASSUME DInv, UNCHANGED recordVars,
           host'.delegated = host.delegated, host'.undelegations = host.undelegations
    PROVE  /\ Stores' /\ Natives(delegationRecords)' = Natives(delegationRecords)
           /\ Natives(Undelegated)' = Natives(Undelegated)
           /\ Natives(Unconfirmed)' = Natives(Unconfirmed)
           /\ Natives(UndelegationsIn("submitted"))' = Natives(UndelegationsIn("submitted"))
           /\ Natives(UndelegationsIn("confirmed"))' = Natives(UndelegationsIn("confirmed"))
  BY Zenon, DelegationsUnchanged, UnbondingsUnchanged DEF DInv, Stores, recordVars

\* The supply of stTokens is natural.
LEMMA StSupplyNat == BalancesOK => StSupply \in Nat
<1> SUFFICES ASSUME BalancesOK PROVE StSupply \in Nat
  BY Zenon
<1>1. IsFiniteSet(Holders)
  BY Zenon, StakeDymAssumptions, FS_AddElement DEF Holders
<1>2. SumFunctionOnSet(stTokens, Holders) \in Nat
  BY Zenon, <1>1, SumNat DEF BalancesOK
<1>3. DOMAIN stTokens = Holders /\ bank.escrow \in Nat
  BY Zenon DEF BalancesOK
<1> QED BY <1>2, <1>3 DEF StSupply, SumFunction

\* UpdateRedemptionRate touches neither the delegated balance nor the halt.
LEMMA UpdatedZoneOK ==
    ASSUME DInv
    PROVE  /\ UpdatedZone \in Zone
           /\ UpdatedZone.delegated = zone.delegated /\ UpdatedZone.halted = zone.halted
<1> DEFINE Z == Zone
<1>1. zone \in Z
  BY Zenon DEF DInv, BalancesOK
<1>2. StSupply \in Nat
  BY Zenon, StSupplyNat DEF DInv
<1>3. NativeTokensLocked \in Nat
  <2>1. bank.deposit \in Nat /\ zone.delegated \in Nat
    BY Zenon DEF DInv, BalancesOK
  <2> QED BY <2>1, TotalsInt DEF NativeTokensLocked
<1> DEFINE rate == Quo(NewDecFromInt(NativeTokensLocked), NewDecFromInt(StSupply))
<1>4. CASE StSupply = 0
  BY Zenon, <1>1, <1>4 DEF UpdatedZone
<1>5. CASE StSupply # 0
  <2>1. NewDecFromInt(NativeTokensLocked) \in Nat /\ NewDecFromInt(StSupply) \in Nat \ {0}
    BY Zenon, <1>2, <1>3, <1>5, DecNat
  <2>2. rate \in Nat
    BY Zenon, <2>1, DecNat
  <2>3. UpdatedZone = [zone EXCEPT !.rate = rate]
    BY Zenon, <1>5 DEF UpdatedZone
  <2> HIDE DEF rate
  <2> QED BY Zenon, <1>1, <2>2, <2>3
<1> QED BY Zenon, <1>4, <1>5
-----------------------------------------------------------------------------
(* Steps on the balances                                                   *)

\* What a step moves between balances it moves as a whole.
BankBalanced ==
    income' = income + (bank'.deposit - bank.deposit) + (bank'.fees - bank.fees)
                + (zone'.delegated - zone.delegated) + (paid' - paid)
StakeBalanced ==
    zone'.delegated = zone.delegated + (host'.staked - host.staked) + (host'.slash - host.slash)

\* A step that only moves balances keeps the invariant when its moves balance,
LEMMA BalancesStep ==
    ASSUME DInv, TInv', BalancesOK', UNCHANGED recordVars,
           host'.delegated = host.delegated, host'.undelegations = host.undelegations,
           BankBalanced,
           bank'.claim = bank.claim,
           StakeBalanced
    PROVE  DInv'
<1>1. /\ bank.deposit \in Int /\ bank.fees \in Int /\ zone.delegated \in Int
      /\ host.staked \in Int /\ host.slash \in Int /\ income \in Int /\ paid \in Int
  BY DEF DInv, BalancesOK
<1>2. /\ bank'.deposit \in Int /\ bank'.fees \in Int /\ zone'.delegated \in Int
      /\ host'.staked \in Int /\ host'.slash \in Int /\ income' \in Int /\ paid' \in Int
  BY DEF BalancesOK
<1>3. /\ Stores' /\ Natives(delegationRecords)' = Natives(delegationRecords)
      /\ Natives(Undelegated)' = Natives(Undelegated)
      /\ Natives(Unconfirmed)' = Natives(Unconfirmed)
      /\ Natives(UndelegationsIn("submitted"))' = Natives(UndelegationsIn("submitted"))
      /\ Natives(UndelegationsIn("confirmed"))' = Natives(UndelegationsIn("confirmed"))
  BY Zenon, StoresUnchanged
<1>4. TokensAccounted'
  <2>1. Natives(delegationRecords) \in Int /\ Natives(Undelegated) \in Int
    BY TotalsInt
  <2> QED BY <1>1, <1>2, <1>3, <2>1 DEF DInv, TokensAccounted, BankBalanced
<1>5. ClaimsCovered'
  BY Zenon, <1>3 DEF DInv, ClaimsCovered
<1>6. StakeTracked'
  <2>1. Natives(Unconfirmed) \in Int /\ Natives(UndelegationsIn("submitted")) \in Int
    BY Zenon, TotalsInt
  <2> QED BY <1>1, <1>2, <1>3, <2>1 DEF DInv, StakeTracked, StakeBalanced
<1> QED BY Zenon, <1>3, <1>4, <1>5, <1>6 DEF DInv

\* in particular one that only writes the rate, the bounds or the halt of the zone.
LEMMA ZoneStep ==
    ASSUME DInv, TInv', UNCHANGED <<bank, stTokens, recordVars, host, history>>,
           zone' \in Zone,
           zone'.delegated = zone.delegated
    PROVE  DInv'
<1>1. BalancesOK'
  BY Zenon DEF DInv, BalancesOK, history
<1>2. /\ bank.deposit \in Int /\ bank.fees \in Int /\ zone.delegated \in Int
      /\ income \in Int /\ paid \in Int /\ host.staked \in Int /\ host.slash \in Int
  BY DEF DInv, BalancesOK
<1>3. BankBalanced /\ StakeBalanced
  BY <1>2 DEF BankBalanced, StakeBalanced, history
<1> QED BY Zenon, <1>1, <1>3, BalancesStep DEF history

\* LiquidStake and the fee sweep mint to a holder and add to the deposit account.
LEMMA MintedStep ==
    ASSUME DInv, NEW holder \in Holders, NEW native \in Nat, NEW paidBank,
           paidBank \in Bank,
           Minted(holder, native, paidBank)
    PROVE  /\ bank' \in Bank
           /\ bank'.deposit = paidBank.deposit + native
           /\ bank'.fees = paidBank.fees /\ bank'.claim = paidBank.claim
           /\ stTokens' \in [Holders -> Nat]
<1>1. zone.rate \in Nat \ {0}
  BY StakeDymAssumptions DEF Minted, RateInBounds, RateWithin, DInv, BalancesOK
<1>2. NewDecFromInt(native) \in Nat
  BY Zenon, DecNat
<1>3. Quo(NewDecFromInt(native), zone.rate) \in Nat
  BY Zenon, <1>1, <1>2, DecNat
<1>4. StAmount(native) \in Nat
  BY Zenon, <1>3, DecNat DEF StAmount
<1>5. stTokens \in [Holders -> Nat]
  BY Zenon DEF DInv, BalancesOK
<1> QED BY <1>4, <1>5 DEF Minted

\* One lemma for each action: LiquidStake (x/stakedym/keeper/delegation.go),
LEMMA LiquidStakeD ==
    ASSUME DInv, TInv', NEW user \in Users, NEW native \in StakeAmounts, LiquidStake(user, native)
    PROVE  DInv'
<1>1. native \in Nat /\ user \in Holders
  BY Zenon, StakeDymAssumptions DEF Holders
<1>2. bank \in Bank /\ Minted(user, native, bank)
  BY Zenon DEF DInv, BalancesOK, LiquidStake
<1>3. /\ bank' \in Bank
      /\ bank'.deposit = bank.deposit + native
      /\ bank'.fees = bank.fees /\ bank'.claim = bank.claim
      /\ stTokens' \in [Holders -> Nat]
  BY Zenon, <1>1, <1>2, MintedStep
<1>4. income' = income + native /\ UNCHANGED <<zone, recordVars, host, paid>>
  BY Zenon DEF LiquidStake
<1>5. BalancesOK'
  BY <1>1, <1>3, <1>4 DEF DInv, BalancesOK
<1>6. /\ bank.deposit \in Int /\ bank.fees \in Int /\ zone.delegated \in Int
      /\ income \in Int /\ paid \in Int /\ host.staked \in Int /\ host.slash \in Int
  BY DEF DInv, BalancesOK
<1>7. BankBalanced /\ StakeBalanced
  BY <1>1, <1>3, <1>4, <1>6 DEF BankBalanced, StakeBalanced
<1> QED BY Zenon, <1>3, <1>4, <1>5, <1>7, BalancesStep

\* LiquidStakeAndDistributeFees (x/stakedym/keeper/fees.go),
LEMMA DistributeFeesD ==
    ASSUME DInv, TInv', LiquidStakeAndDistributeFees
    PROVE  DInv'
<1> DEFINE b == [bank EXCEPT !.fees = 0]
<1>1. bank \in Bank
  BY Zenon DEF DInv, BalancesOK
<1>2. /\ b \in Bank
      /\ b.deposit = bank.deposit /\ b.fees = 0 /\ b.claim = bank.claim /\ bank.fees \in Nat
  BY Zenon, <1>1
<1>3. Minted("feeCollector", bank.fees, b) /\ "feeCollector" \in Holders
  BY Zenon DEF LiquidStakeAndDistributeFees, Holders
<1> HIDE DEF b
<1>4. /\ bank' \in Bank
      /\ bank'.deposit = b.deposit + bank.fees
      /\ bank'.fees = b.fees /\ bank'.claim = b.claim
      /\ stTokens' \in [Holders -> Nat]
  BY Zenon, <1>2, <1>3, MintedStep
<1>5. UNCHANGED <<zone, recordVars, host, income, paid>>
  BY Zenon DEF LiquidStakeAndDistributeFees, history
<1>6. BalancesOK'
  BY Zenon, <1>4, <1>5 DEF DInv, BalancesOK
<1>7. /\ bank.deposit \in Int /\ bank.fees \in Int /\ zone.delegated \in Int
      /\ income \in Int /\ paid \in Int /\ host.staked \in Int /\ host.slash \in Int
  BY DEF DInv, BalancesOK
<1>8. BankBalanced /\ StakeBalanced
  BY <1>2, <1>4, <1>5, <1>7 DEF BankBalanced, StakeBalanced
<1> QED BY Zenon, <1>2, <1>4, <1>5, <1>6, <1>8, BalancesStep

\* rewards sent to the fee account,
LEMMA RewardsArriveD ==
    ASSUME DInv, TInv', RewardsArrive
    PROVE  DInv'
<1>1. bank \in Bank
  BY DEF DInv, BalancesOK
<1>2. /\ bank' \in Bank
      /\ bank'.deposit = bank.deposit + 1 /\ bank'.fees = bank.fees + 1 /\ bank'.claim = bank.claim
  <2>1. bank' = [bank EXCEPT !.deposit = bank.deposit + 1, !.fees = bank.fees + 1]
    BY Zenon DEF RewardsArrive
  <2>2. bank.deposit + 1 \in Nat /\ bank.fees + 1 \in Nat
    BY <1>1
  <2> QED BY Zenon, <1>1, <2>1, <2>2
<1>3. income' = income + 2 /\ UNCHANGED <<zone, stTokens, recordVars, host, paid>>
  BY Zenon DEF RewardsArrive
<1>4. BalancesOK'
  BY <1>2, <1>3 DEF DInv, BalancesOK
<1>5. /\ bank.deposit \in Int /\ bank.fees \in Int /\ zone.delegated \in Int
      /\ income \in Int /\ paid \in Int /\ host.staked \in Int /\ host.slash \in Int
  BY DEF DInv, BalancesOK
<1>6. BankBalanced /\ StakeBalanced
  BY <1>2, <1>3, <1>5 DEF BankBalanced, StakeBalanced
<1> QED BY Zenon, <1>2, <1>3, <1>4, <1>6, BalancesStep

\* a slash on the host,
LEMMA HostSlashedD ==
    ASSUME DInv, TInv', HostSlashed
    PROVE  DInv'
<1>1. DOMAIN host = {"staked", "delegated", "undelegations", "slash"}
      /\ host.staked \in Nat /\ host.slash \in Nat /\ zone.delegated \in Nat
  BY Zenon DEF DInv, BalancesOK
<1>2. /\ host'.staked = host.staked - 1 /\ host'.slash = host.slash + 1
      /\ host'.delegated = host.delegated /\ host'.undelegations = host.undelegations
      /\ DOMAIN host' = DOMAIN host /\ host.staked > 0
  BY Zenon, <1>1 DEF HostSlashed
<1>3. UNCHANGED <<zone, bank, stTokens, recordVars, income, paid>>
  BY Zenon DEF HostSlashed
<1>4. BalancesOK'
  BY <1>1, <1>2, <1>3 DEF DInv, BalancesOK
<1>5. bank.deposit \in Int /\ bank.fees \in Int /\ income \in Int /\ paid \in Int
  BY DEF DInv, BalancesOK
<1>6. BankBalanced /\ StakeBalanced
  BY <1>1, <1>2, <1>3, <1>5 DEF BankBalanced, StakeBalanced
<1> QED BY Zenon, <1>2, <1>3, <1>4, <1>6, BalancesStep

\* AdjustDelegatedBalance, which records the slash on Stride.
LEMMA AdjustD ==
    ASSUME DInv, TInv', AdjustDelegatedBalance
    PROVE  DInv'
<1>1. /\ DOMAIN host = {"staked", "delegated", "undelegations", "slash"}
      /\ host.staked \in Nat /\ host.slash \in Nat /\ income \in Int /\ paid \in Int
      /\ zone \in Zone
  BY Zenon DEF DInv, BalancesOK
<1>2. /\ host'.staked = host.staked /\ host'.slash = 0
      /\ host'.delegated = host.delegated /\ host'.undelegations = host.undelegations
      /\ DOMAIN host' = DOMAIN host
  BY Zenon, <1>1 DEF AdjustDelegatedBalance
<1>3. /\ zone' \in Zone
      /\ zone'.delegated = zone.delegated - host.slash
  BY <1>1 DEF AdjustDelegatedBalance
<1>4. income' = income - host.slash /\ UNCHANGED <<bank, stTokens, recordVars, paid>>
  BY Zenon DEF AdjustDelegatedBalance
<1>5. BalancesOK'
  BY <1>1, <1>2, <1>3, <1>4 DEF DInv, BalancesOK
<1>6. bank.deposit \in Int /\ bank.fees \in Int
  BY DEF DInv, BalancesOK
<1>7. BankBalanced /\ StakeBalanced
  BY <1>1, <1>2, <1>3, <1>4, <1>6 DEF BankBalanced, StakeBalanced
<1> QED BY Zenon, <1>2, <1>4, <1>5, <1>7, BalancesStep
-----------------------------------------------------------------------------
(* Delegations                                                             *)

\* PrepareDelegation turns the whole deposit into a delegation record.
LEMMA PrepareDelegationD ==
    ASSUME TInv, DelegationsOK, bank \in Bank,
           NEW z, NEW sent, PrepareDelegation(z, sent), host'.delegated = host.delegated
    PROVE  /\ DelegationsOK'
           /\ bank' \in Bank
           /\ bank'.fees = bank.fees /\ bank'.escrow = bank.escrow /\ bank'.claim = bank.claim
           /\ Natives(delegationRecords)' = Natives(delegationRecords) + (bank.deposit - bank'.deposit)
           /\ Natives(Unconfirmed)' = Natives(Unconfirmed)
<1>a. IsFiniteSet(delegationRecords) /\ Amounts("native", delegationRecords)
  BY DEF TInv, StoreOK, DelegationsOK, DelegationRecord, Amounts
<1>b. Natives(delegationRecords) \in Int
  BY Zenon, <1>a, TotalInt DEF Natives
<1>1. CASE ~(sent /\ Transferrable(z))
  <2>1. UNCHANGED <<delegationRecords, bank>>
    BY Zenon, <1>1 DEF PrepareDelegation
  <2>2. bank.deposit - bank'.deposit = 0
    BY <2>1
  <2> QED BY <1>b, <2>1, <2>2, DelegationsUnchanged
<1>2. CASE sent /\ Transferrable(z)
  <2> DEFINE id == FreshId(IdsOf(delegationRecords) \cup IdsOf(transfers))
             record == [id |-> id, native |-> bank.deposit, status |-> "TRANSFER_IN_PROGRESS"]
             U == delegationRecords'
  <2>1. U = delegationRecords \cup {record} /\ bank' = [bank EXCEPT !.deposit = 0]
    BY Zenon, <1>2 DEF PrepareDelegation
  <2>2. id \notin IdsOf(delegationRecords) /\ id \in Nat
    <3>1. IsFiniteSet(IdsOf(delegationRecords)) /\ IsFiniteSet(IdsOf(transfers))
      BY Zenon, IdsFinite DEF TInv, StoreOK
    <3>2. IsFiniteSet(IdsOf(delegationRecords) \cup IdsOf(transfers))
      BY Zenon, <3>1, FS_Union
    <3> QED BY Zenon, <3>2, FreshIdNat
  <2> HIDE DEF id
  <2>3. \A r \in delegationRecords : r.id # id
    BY Zenon, <2>2 DEF IdsOf
  <2>4. record \in DelegationRecord /\ record.native = bank.deposit /\ record.id = id
    BY Zenon, <2>2 DEF DelegationRecord
  <2> HIDE DEF record
  <2>5. DelegationsOK'
    BY Zenon, <2>1, <2>4 DEF DelegationsOK
  <2>6. Unconfirmed' = Unconfirmed
    <3>1. id \notin host.delegated
      BY Zenon, <2>3 DEF DelegationsOK
    <3> QED BY Zenon, <2>1, <2>4, <3>1 DEF Unconfirmed
  <2>7. Natives(U) = Natives(delegationRecords) + bank.deposit
    <3>1. Amounts("native", U) /\ record \notin delegationRecords
      BY <2>1, <2>3, <2>4, <1>a DEF Amounts
    <3> HIDE DEF U
    <3> QED BY <1>a, <2>1, <2>4, <3>1, TotalAdd DEF Natives
  <2>8. /\ bank' \in Bank
        /\ bank'.fees = bank.fees /\ bank'.escrow = bank.escrow /\ bank'.claim = bank.claim
        /\ bank.deposit - bank'.deposit = bank.deposit
    BY <2>1
  <2> QED BY Zenon, <2>5, <2>6, <2>7, <2>8
<1> QED BY Zenon, <1>1, <1>2

\* An acknowledgement or a timeout releases the record or gives its tokens back.
LEMMA TransferEndsD ==
    ASSUME DInv, TInv', NEW t \in transfers,
           UNCHANGED <<zone, stTokens, unbondingRecords, redemptionRecords, host, history>>,
           \/ /\ delegationRecords' = SetStatus(delegationRecords, t.id, "DELEGATION_QUEUE")
              /\ UNCHANGED bank
           \/ FailedTransfer(t)
    PROVE  DInv'
<1>a. /\ IsFiniteSet(delegationRecords) /\ Amounts("native", delegationRecords)
      /\ \A r \in delegationRecords : r \in DelegationRecord
      /\ \A r, s \in delegationRecords : r.id = s.id => r = s
  BY DEF DInv, Stores, TInv, StoreOK, DelegationsOK, DelegationRecord, Amounts
<1>b. /\ bank \in Bank
      /\ zone.delegated \in Int /\ income \in Int /\ paid \in Int
      /\ Natives(delegationRecords) \in Int /\ Natives(Undelegated) \in Int
  BY TotalsInt DEF DInv, BalancesOK
<1>c. PICK w \in delegationRecords : w.id = t.id /\ w.native = t.native /\ w.status = "TRANSFER_IN_PROGRESS"
  BY Zenon DEF DInv, TInv, Waiting
<1>d. t.id \notin host.delegated
  BY Zenon, <1>a, <1>c DEF DInv, Stores, DelegationsOK
<1>e. /\ UnbondingsOK' /\ RedemptionsOK' /\ UndelegationsOK' /\ RecordsAddUp'
      /\ Natives(Undelegated)' = Natives(Undelegated)
      /\ Natives(UndelegationsIn("submitted"))' = Natives(UndelegationsIn("submitted"))
      /\ Natives(UndelegationsIn("confirmed"))' = Natives(UndelegationsIn("confirmed"))
  BY Zenon, UnbondingsUnchanged DEF DInv, Stores
<1>f. UNCHANGED <<zone, stTokens, host, income, paid>>
  BY Zenon DEF history
<1>1. /\ DelegationsOK' /\ bank' \in Bank
      /\ bank'.fees = bank.fees /\ bank'.claim = bank.claim
      /\ Natives(delegationRecords)' = Natives(delegationRecords) + (bank.deposit - bank'.deposit)
      /\ Natives(Unconfirmed)' = Natives(Unconfirmed)
  <2>1. CASE delegationRecords' = SetStatus(delegationRecords, t.id, "DELEGATION_QUEUE") /\ UNCHANGED bank
    <3> DEFINE g(r) == IF r.id = t.id THEN [r EXCEPT !.status = "DELEGATION_QUEUE"] ELSE r
               m == [r \in delegationRecords |-> g(r)]
               U == delegationRecords'
    <3>1. delegationRecords' = {g(r) : r \in delegationRecords}
      BY Zenon, <2>1 DEF SetStatus
    <3>2. \A r \in delegationRecords :
             /\ g(r) \in DelegationRecord /\ g(r).id = r.id /\ g(r).native = r.native
             /\ g(r).id # t.id => g(r) = r
      BY Zenon, <1>a DEF DelegationRecord
    <3> HIDE DEF g
    <3>3. DelegationsOK'
      <4>1. \A r \in delegationRecords' : r \in DelegationRecord
        BY Zenon, <3>1, <3>2
      <4>2. ASSUME NEW id \in host.delegated
            PROVE  \E r \in delegationRecords' : r.id = id /\ r.status = "DELEGATION_QUEUE"
        <5>1. PICK r \in delegationRecords : r.id = id /\ r.status = "DELEGATION_QUEUE"
          BY Zenon DEF DInv, Stores, DelegationsOK
        <5>2. g(r) = r
          BY Zenon, <1>d, <3>2, <5>1
        <5> QED BY Zenon, <3>1, <5>1, <5>2
      <4> QED BY Zenon, <1>f, <4>1, <4>2 DEF DelegationsOK
    <3>4. Unconfirmed' = Unconfirmed
      <4>1. \A r \in delegationRecords : r.id \in host.delegated => g(r) = r
        BY Zenon, <1>d, <3>2
      <4> QED BY <3>1, <3>2, <4>1, <1>f DEF Unconfirmed
    <3>5. Natives(U) = Natives(delegationRecords)
      <4>1. OneToOne(m, delegationRecords, U)
        BY <1>a, <3>1, <3>2 DEF OneToOne
      <4>2. \A r \in delegationRecords : m[r]["native"] = r["native"]
        BY Zenon, <3>2
      <4> HIDE DEF m, U
      <4> QED BY <1>a, <4>1, <4>2, TotalImage DEF Natives
    <3>6. bank.deposit - bank'.deposit = 0
      BY <1>b, <2>1
    <3> QED BY <1>b, <2>1, <3>3, <3>4, <3>5, <3>6
  <2>2. CASE FailedTransfer(t)
    <3> DEFINE U == delegationRecords'
    <3>1. U = delegationRecords \ {w} /\ bank' = [bank EXCEPT !.deposit = @ + w.native]
      BY Zenon, <1>a, <1>c, <2>2 DEF FailedTransfer
    <3>2. DelegationsOK'
      BY Zenon, <1>c, <1>d, <1>f, <3>1 DEF DInv, Stores, DelegationsOK
    <3>3. Unconfirmed' = Unconfirmed
      BY Zenon, <1>c, <1>d, <1>f, <3>1 DEF Unconfirmed
    <3>4. Natives(U) = Natives(delegationRecords) - w.native
      <4> HIDE DEF U
      <4> QED BY Zenon, <1>a, <3>1, TotalRemove DEF Natives
    <3>5. w.native \in Nat
      BY Zenon, <1>a DEF DelegationRecord
    <3>6. /\ bank' \in Bank
          /\ bank'.fees = bank.fees /\ bank'.claim = bank.claim
          /\ bank'.deposit = bank.deposit + w.native /\ bank.deposit \in Nat
      BY <1>b, <3>1, <3>5
    <3>7. Natives(U) = Natives(delegationRecords) + (bank.deposit - bank'.deposit)
      <4> HIDE DEF U
      <4> QED BY <1>b, <3>4, <3>5, <3>6
    <3> QED BY Zenon, <3>2, <3>3, <3>6, <3>7
  <2> QED BY Zenon, <2>1, <2>2
<1>2. BalancesOK'
  BY Zenon, <1>1, <1>f DEF DInv, BalancesOK
<1>3. TokensAccounted'
  <2>1. bank.deposit \in Int /\ bank.fees \in Int /\ bank'.deposit \in Int
    BY <1>1, <1>b
  <2> QED BY <1>1, <1>b, <1>e, <1>f, <2>1 DEF DInv, TokensAccounted
<1>4. ClaimsCovered'
  BY Zenon, <1>1, <1>e DEF DInv, ClaimsCovered
<1>5. StakeTracked'
  BY Zenon, <1>1, <1>e, <1>f DEF DInv, StakeTracked
<1> QED BY Zenon, <1>1, <1>2, <1>3, <1>4, <1>5, <1>e DEF DInv, Stores

\* The operators delegate a queued record on the host.
LEMMA HostDelegatesD ==
    ASSUME DInv, TInv', NEW r \in delegationRecords, HostDelegates(r)
    PROVE  DInv'
<1>1. /\ IsFiniteSet(Unconfirmed) /\ Amounts("native", Unconfirmed)
      /\ \A s \in delegationRecords : s.id = r.id => s = r
      /\ r.native \in Nat
  BY Zenon, SetsOK DEF DInv, Stores, TInv, StoreOK, DelegationsOK, DelegationRecord
<1>2. /\ DOMAIN host = {"staked", "delegated", "undelegations", "slash"}
      /\ host.staked \in Nat /\ host.slash \in Nat
      /\ Natives(UndelegationsIn("submitted")) \in Int /\ Natives(Unconfirmed) \in Int
  BY Zenon, TotalsInt DEF DInv, BalancesOK
<1>3. UNCHANGED <<zone, bank, stTokens, income, paid, delegationRecords, unbondingRecords,
                  redemptionRecords>>
  BY Zenon DEF HostDelegates, recordVars, history
<1>4. /\ host'.delegated = host.delegated \cup {r.id} /\ host'.staked = host.staked + r.native
      /\ host'.undelegations = host.undelegations /\ host'.slash = host.slash
      /\ DOMAIN host' = {"staked", "delegated", "undelegations", "slash"}
  BY Zenon, <1>2 DEF HostDelegates
<1>5. /\ UnbondingsOK' /\ RedemptionsOK' /\ UndelegationsOK' /\ RecordsAddUp'
      /\ Natives(Undelegated)' = Natives(Undelegated)
      /\ Natives(UndelegationsIn("submitted"))' = Natives(UndelegationsIn("submitted"))
      /\ Natives(UndelegationsIn("confirmed"))' = Natives(UndelegationsIn("confirmed"))
  BY Zenon, <1>3, <1>4, UnbondingsUnchanged DEF DInv, Stores
<1>6. DelegationsOK'
  BY Zenon, <1>3, <1>4 DEF DInv, Stores, DelegationsOK, HostDelegates
<1>7. BalancesOK'
  BY <1>1, <1>2, <1>3, <1>4 DEF DInv, BalancesOK
<1>8. Natives(Unconfirmed)' = Natives(Unconfirmed) + r.native
  <2> DEFINE U == Unconfirmed'
  <2>1. U = Unconfirmed \cup {r} /\ r \notin Unconfirmed
    BY Zenon, <1>1, <1>3, <1>4 DEF Unconfirmed, HostDelegates
  <2> HIDE DEF U
  <2>2. Amounts("native", U)
    BY <1>1, <2>1 DEF Amounts
  <2>3. Natives(U) = Natives(Unconfirmed) + r.native
    BY Zenon, <1>1, <2>1, <2>2, TotalAdd DEF Natives
  <2> QED BY Zenon, <2>3 DEF U
<1>9. StakeTracked'
  BY <1>1, <1>2, <1>3, <1>4, <1>5, <1>8 DEF DInv, StakeTracked
<1>10. TokensAccounted' /\ ClaimsCovered'
  BY Zenon, <1>3, <1>5 DEF DInv, TokensAccounted, ClaimsCovered
<1> QED BY Zenon, <1>5, <1>6, <1>7, <1>9, <1>10 DEF DInv, Stores

\* ConfirmDelegation moves the amount of the record to the delegated balance.
LEMMA ConfirmDelegationD ==
    ASSUME DInv, TInv', NEW r \in delegationRecords, ConfirmDelegation(r)
    PROVE  DInv'
<1>1. /\ IsFiniteSet(Unconfirmed) /\ Amounts("native", Unconfirmed)
      /\ IsFiniteSet(delegationRecords) /\ Amounts("native", delegationRecords)
      /\ \A s \in delegationRecords : s.id = r.id => s = r
      /\ r.native \in Nat
  BY Zenon, SetsOK DEF DInv, Stores, TInv, StoreOK, DelegationsOK, DelegationRecord
<1>2. /\ DOMAIN host = {"staked", "delegated", "undelegations", "slash"}
      /\ host.staked \in Nat /\ host.slash \in Nat
      /\ Natives(UndelegationsIn("submitted")) \in Int /\ Natives(Unconfirmed) \in Int
      /\ Natives(delegationRecords) \in Int /\ Natives(Undelegated) \in Int
      /\ bank.deposit \in Nat /\ bank.fees \in Nat /\ income \in Int /\ paid \in Int
      /\ zone \in Zone
  BY TotalsInt DEF DInv, BalancesOK
<1>3. UNCHANGED <<bank, stTokens, income, paid, unbondingRecords, redemptionRecords>>
  BY Zenon DEF ConfirmDelegation, history
<1>4. /\ host'.delegated = host.delegated \ {r.id} /\ host'.staked = host.staked
      /\ host'.undelegations = host.undelegations /\ host'.slash = host.slash
      /\ DOMAIN host' = {"staked", "delegated", "undelegations", "slash"}
  BY Zenon, <1>2 DEF ConfirmDelegation
<1>5. /\ UnbondingsOK' /\ RedemptionsOK' /\ UndelegationsOK' /\ RecordsAddUp'
      /\ Natives(Undelegated)' = Natives(Undelegated)
      /\ Natives(UndelegationsIn("submitted"))' = Natives(UndelegationsIn("submitted"))
      /\ Natives(UndelegationsIn("confirmed"))' = Natives(UndelegationsIn("confirmed"))
  BY Zenon, <1>3, <1>4, UnbondingsUnchanged DEF DInv, Stores
<1>6. /\ zone' \in Zone
      /\ zone'.delegated = zone.delegated + r.native
  BY <1>1, <1>2 DEF ConfirmDelegation
<1>7. delegationRecords' = delegationRecords \ {r}
  BY Zenon DEF ConfirmDelegation
<1>8. DelegationsOK'
  BY Zenon, <1>1, <1>4, <1>7 DEF DInv, Stores, DelegationsOK
<1>9. BalancesOK'
  BY Zenon, <1>2, <1>3, <1>4, <1>6 DEF DInv, BalancesOK
<1>10. Natives(delegationRecords') = Natives(delegationRecords) - r.native
  BY Zenon, <1>1, <1>7, TotalRemove DEF Natives
<1>11. Natives(Unconfirmed)' = Natives(Unconfirmed) - r.native
  <2> DEFINE U == Unconfirmed'
  <2>1. U = Unconfirmed \ {r} /\ r \in Unconfirmed
    BY Zenon, <1>1, <1>4, <1>7 DEF Unconfirmed, ConfirmDelegation
  <2> HIDE DEF U
  <2>2. Natives(U) = Natives(Unconfirmed) - r.native
    BY Zenon, <1>1, <2>1, TotalRemove DEF Natives
  <2> QED BY Zenon, <2>2 DEF U
<1>12. StakeTracked'
  BY <1>1, <1>2, <1>4, <1>5, <1>6, <1>11 DEF DInv, StakeTracked
<1>13. TokensAccounted'
  BY <1>1, <1>2, <1>3, <1>5, <1>6, <1>10 DEF DInv, TokensAccounted
<1>14. ClaimsCovered'
  BY Zenon, <1>3, <1>5 DEF DInv, ClaimsCovered
<1> QED BY Zenon, <1>5, <1>8, <1>9, <1>12, <1>13, <1>14 DEF DInv, Stores

\* The operators undelegate a queued unbonding record on the host.
LEMMA HostUndelegatesD ==
    ASSUME DInv, TInv', NEW r \in unbondingRecords, HostUndelegates(r)
    PROVE  DInv'
<1> DEFINE u == [id |-> r.id, native |-> r.native, left |-> UnbondingPeriod, status |-> "submitted"]
<1>1. /\ IsFiniteSet(UndelegationsIn("submitted")) /\ Amounts("native", UndelegationsIn("submitted"))
      /\ \A s \in unbondingRecords : s.id = r.id => s = r
      /\ r.id \in Nat /\ r.native \in Nat /\ UnbondingPeriod \in Nat
  BY Zenon, SetsOK, StakeDymAssumptions DEF DInv, Stores, UnbondingsOK, UnbondingRecord
<1>2. /\ DOMAIN host = {"staked", "delegated", "undelegations", "slash"}
      /\ host.staked \in Nat /\ host.slash \in Nat
      /\ Natives(UndelegationsIn("submitted")) \in Int /\ Natives(Unconfirmed) \in Int
  BY Zenon, TotalsInt DEF DInv, BalancesOK
<1>3. UNCHANGED <<zone, bank, stTokens, income, paid, delegationRecords, unbondingRecords,
                  redemptionRecords>>
  BY Zenon DEF HostUndelegates, recordVars, history
<1>4. /\ host'.delegated = host.delegated /\ host'.staked = host.staked - r.native
      /\ host'.undelegations = host.undelegations \cup {u} /\ host'.slash = host.slash
      /\ DOMAIN host' = {"staked", "delegated", "undelegations", "slash"}
      /\ r.native <= host.staked /\ r.status = "UNBONDING_QUEUE"
  BY Zenon, <1>2 DEF HostUndelegates
<1>5. \A v \in host.undelegations : v.id # r.id
  BY Zenon DEF HostUndelegates, IdsOf
<1>6. /\ u \in Undelegation /\ u.id = r.id /\ u.native = r.native /\ u.left = UnbondingPeriod
      /\ u.status = "submitted"
  BY Zenon, <1>1 DEF Undelegation
<1> HIDE DEF u
<1>7. /\ DelegationsOK' /\ Natives(delegationRecords)' = Natives(delegationRecords)
      /\ Natives(Unconfirmed)' = Natives(Unconfirmed)
  BY Zenon, <1>3, <1>4, DelegationsUnchanged DEF DInv, Stores
<1>8. UnbondingsOK' /\ RedemptionsOK' /\ RecordsAddUp' /\ Undelegated' = Undelegated
  BY Zenon, <1>3 DEF DInv, Stores, UnbondingsOK, RedemptionsOK, RecordsAddUp, RedemptionsOf, Undelegated,
     Undelegating
<1>9. UndelegationsOK'
  <2>1. IsFiniteSet(host'.undelegations)
    BY <1>4, FS_AddElement DEF DInv, Stores, UndelegationsOK
  <2>2. \A v \in host'.undelegations : v \in Undelegation /\ v.left <= UnbondingPeriod
    BY <1>1, <1>4, <1>6 DEF DInv, Stores, UndelegationsOK
  <2>3. \A v, w \in host'.undelegations : v.id = w.id => v = w
    BY <1>4, <1>5, <1>6 DEF DInv, Stores, UndelegationsOK
  <2>4. ASSUME NEW s \in unbondingRecords', NEW v \in host'.undelegations, s.id = v.id
        PROVE  Coupled(s, v)
    <3>1. CASE v = u
      BY Zenon, <1>1, <1>3, <1>4, <1>6, <2>4, <3>1
    <3>2. CASE v \in host.undelegations
      BY Zenon, <1>3, <2>4, <3>2 DEF DInv, Stores, UndelegationsOK
    <3> QED BY Zenon, <1>4, <3>1, <3>2
  <2> QED BY Zenon, <2>1, <2>2, <2>3, <2>4 DEF UndelegationsOK
<1>10. BalancesOK'
  BY <1>1, <1>2, <1>3, <1>4 DEF DInv, BalancesOK
<1>11. UndelegationsIn("confirmed")' = UndelegationsIn("confirmed")
  BY Zenon, <1>4, <1>6 DEF UndelegationsIn
<1>12. Natives(UndelegationsIn("submitted"))' = Natives(UndelegationsIn("submitted")) + r.native
  <2> DEFINE U == UndelegationsIn("submitted")'
  <2>1. U = UndelegationsIn("submitted") \cup {u} /\ u \notin UndelegationsIn("submitted")
    BY Zenon, <1>4, <1>5, <1>6 DEF UndelegationsIn
  <2> HIDE DEF U
  <2>2. Amounts("native", U)
    BY <1>1, <1>6, <2>1 DEF Amounts
  <2>3. Natives(U) = Natives(UndelegationsIn("submitted")) + r.native
    BY <1>1, <1>6, <2>1, <2>2, TotalAdd DEF Natives
  <2> QED BY Zenon, <2>3 DEF U
<1>13. StakeTracked'
  BY <1>1, <1>2, <1>3, <1>4, <1>7, <1>12 DEF DInv, StakeTracked
<1>14. TokensAccounted' /\ ClaimsCovered'
  BY Zenon, <1>3, <1>7, <1>8, <1>11 DEF DInv, TokensAccounted, ClaimsCovered
<1> QED BY Zenon, <1>7, <1>8, <1>9, <1>10, <1>13, <1>14 DEF DInv, Stores

\* The operators sweep a completed undelegation into the claim account.
LEMMA HostSweepsD ==
    ASSUME DInv, TInv', NEW u \in host.undelegations, HostSweeps(u)
    PROVE  DInv'
<1>1. /\ IsFiniteSet(UndelegationsIn("confirmed")) /\ Amounts("native", UndelegationsIn("confirmed"))
      /\ u.native \in Nat /\ u.status = "confirmed"
  BY Zenon, SetsOK DEF DInv, Stores, UndelegationsOK, Undelegation, HostSweeps
<1>2. /\ DOMAIN host = {"staked", "delegated", "undelegations", "slash"}
      /\ Natives(UndelegationsIn("confirmed")) \in Int /\ Natives(Undelegated) \in Int
      /\ bank \in Bank
  BY Zenon, TotalsInt DEF DInv, BalancesOK
<1>3. UNCHANGED <<zone, stTokens, income, paid, delegationRecords, unbondingRecords,
                  redemptionRecords>>
  BY Zenon DEF HostSweeps, recordVars, history
<1>4. /\ host'.delegated = host.delegated /\ host'.staked = host.staked
      /\ host'.undelegations = host.undelegations \ {u} /\ host'.slash = host.slash
      /\ DOMAIN host' = {"staked", "delegated", "undelegations", "slash"}
  BY Zenon, <1>2 DEF HostSweeps
<1>5. /\ bank' \in Bank
      /\ bank'.deposit = bank.deposit /\ bank'.fees = bank.fees /\ bank'.claim = bank.claim + u.native
  BY <1>1, <1>2 DEF HostSweeps
<1>6. /\ DelegationsOK' /\ Natives(delegationRecords)' = Natives(delegationRecords)
      /\ Natives(Unconfirmed)' = Natives(Unconfirmed)
  BY Zenon, <1>3, <1>4, DelegationsUnchanged DEF DInv, Stores
<1>7. UnbondingsOK' /\ RedemptionsOK' /\ RecordsAddUp' /\ Undelegated' = Undelegated
  BY Zenon, <1>3 DEF DInv, Stores, UnbondingsOK, RedemptionsOK, RecordsAddUp, RedemptionsOf, Undelegated,
     Undelegating
<1>8. UndelegationsOK'
  <2>1. IsFiniteSet(host'.undelegations)
    BY Zenon, <1>4, FS_RemoveElement DEF DInv, Stores, UndelegationsOK
  <2> QED BY Zenon, <1>3, <1>4, <2>1 DEF DInv, Stores, UndelegationsOK
<1>9. BalancesOK'
  BY Zenon, <1>3, <1>4, <1>5 DEF DInv, BalancesOK
<1>10. UndelegationsIn("submitted")' = UndelegationsIn("submitted")
  BY Zenon, <1>1, <1>4 DEF UndelegationsIn
<1>11. Natives(UndelegationsIn("confirmed"))' = Natives(UndelegationsIn("confirmed")) - u.native
  <2> DEFINE U == UndelegationsIn("confirmed")'
  <2>1. U = UndelegationsIn("confirmed") \ {u} /\ u \in UndelegationsIn("confirmed")
    BY Zenon, <1>1, <1>4 DEF UndelegationsIn
  <2> HIDE DEF U
  <2>2. Natives(U) = Natives(UndelegationsIn("confirmed")) - u.native
    BY Zenon, <1>1, <2>1, TotalRemove DEF Natives
  <2> QED BY Zenon, <2>2 DEF U
<1>12. ClaimsCovered'
  BY <1>1, <1>2, <1>5, <1>7, <1>11 DEF DInv, ClaimsCovered
<1>13. TokensAccounted' /\ StakeTracked'
  BY Zenon, <1>3, <1>4, <1>5, <1>6, <1>7, <1>10 DEF DInv, TokensAccounted, StakeTracked
<1> QED BY Zenon, <1>6, <1>7, <1>8, <1>9, <1>12, <1>13 DEF DInv, Stores
-----------------------------------------------------------------------------
(* Unbondings                                                              *)

\* ConfirmUndelegation burns the escrowed stTokens and takes the natives off the delegated balance.
LEMMA ConfirmUndelegationD ==
    ASSUME DInv, TInv', NEW r \in unbondingRecords, NEW u \in host.undelegations,
           ConfirmUndelegation(r, u)
    PROVE  DInv' /\ bank'.escrow = bank.escrow - r.st /\ Escrowed' = Escrowed \ {r} /\ r \in Escrowed
           /\ IdsOf(unbondingRecords)' = IdsOf(unbondingRecords)
<1> DEFINE s == [r EXCEPT !.status = "UNBONDING_IN_PROGRESS", !.left = CompletionTime]
           v == [u EXCEPT !.status = "confirmed"]
           Sub == UndelegationsIn("submitted")
           Con == UndelegationsIn("confirmed")
<1>1. /\ IsFiniteSet(Sub) /\ Amounts("native", Sub)
      /\ IsFiniteSet(Con) /\ Amounts("native", Con)
      /\ IsFiniteSet(Undelegated) /\ Amounts("native", Undelegated)
  BY Zenon, SetsOK DEF DInv, Stores
<1>2. /\ r \in UnbondingRecord /\ u \in Undelegation /\ UnbondingPeriod \in Nat
      /\ \A q \in unbondingRecords : q.id = r.id => q = r
      /\ \A w \in host.undelegations : w.id = r.id => w = u
      /\ u.id = r.id /\ u.status = "submitted" /\ r.status = "UNBONDING_QUEUE"
      /\ u.native = r.native /\ u.left <= UnbondingPeriod
  BY Zenon, StakeDymAssumptions DEF DInv, Stores, UnbondingsOK, UndelegationsOK, ConfirmUndelegation
<1>3. r.native \in Nat /\ r.st \in Nat
  BY Zenon, <1>2 DEF UnbondingRecord
<1>4. /\ DOMAIN host = {"staked", "delegated", "undelegations", "slash"}
      /\ host.staked \in Nat /\ host.slash \in Nat
      /\ bank \in Bank
      /\ zone \in Zone
      /\ income \in Int /\ paid \in Int
  BY Zenon DEF DInv, BalancesOK
<1>5. /\ Natives(Sub) \in Int /\ Natives(Con) \in Int /\ Natives(Undelegated) \in Int
      /\ Natives(delegationRecords) \in Int /\ Natives(Unconfirmed) \in Int
  BY TotalsInt
<1>6. UNCHANGED <<stTokens, income, paid, delegationRecords, redemptionRecords>>
  BY Zenon DEF ConfirmUndelegation, history
<1>7. /\ host'.delegated = host.delegated /\ host'.staked = host.staked /\ host'.slash = host.slash
      /\ host'.undelegations = (host.undelegations \ {u}) \cup {v}
      /\ DOMAIN host' = {"staked", "delegated", "undelegations", "slash"}
  BY Zenon, <1>4 DEF ConfirmUndelegation
<1>8. /\ bank' \in Bank
      /\ bank'.deposit = bank.deposit /\ bank'.fees = bank.fees /\ bank'.claim = bank.claim
      /\ bank'.escrow = bank.escrow - r.st
  BY <1>3, <1>4 DEF ConfirmUndelegation
<1>9. /\ zone' \in Zone
      /\ zone'.delegated = zone.delegated - r.native
  BY <1>3, <1>4 DEF ConfirmUndelegation
<1>10. unbondingRecords' = (unbondingRecords \ {r}) \cup {s}
  BY Zenon DEF ConfirmUndelegation
<1>11. /\ s \in UnbondingRecord /\ s.id = r.id /\ s.native = r.native /\ s.st = r.st
       /\ s.status = "UNBONDING_IN_PROGRESS" /\ s.left = UnbondingPeriod
  BY Zenon, <1>2 DEF UnbondingRecord, CompletionTime
<1>12. /\ v \in Undelegation /\ v.id = u.id /\ v.native = u.native /\ v.left = u.left
       /\ v.status = "confirmed"
  BY Zenon, <1>2 DEF Undelegation
<1> HIDE DEF s, v
<1>13. /\ DelegationsOK' /\ Natives(delegationRecords)' = Natives(delegationRecords)
       /\ Natives(Unconfirmed)' = Natives(Unconfirmed)
  BY Zenon, <1>6, <1>7, DelegationsUnchanged DEF DInv, Stores
<1>14. UnbondingsOK'
  <2>1. IsFiniteSet(unbondingRecords')
    <3>1. IsFiniteSet(unbondingRecords \ {r})
      BY Zenon, FS_RemoveElement DEF DInv, Stores, UnbondingsOK
    <3> QED BY Zenon, <1>10, <3>1, FS_AddElement
  <2>2. \A q \in unbondingRecords' : q \in UnbondingRecord /\ (~Undelegating(q) => q.left = 0)
    BY Zenon, <1>10, <1>11 DEF DInv, Stores, UnbondingsOK, Undelegating
  <2>3. \A p, q \in unbondingRecords' : p.id = q.id => p = q
    BY <1>2, <1>10, <1>11 DEF DInv, Stores, UnbondingsOK
  <2> QED BY Zenon, <2>1, <2>2, <2>3 DEF UnbondingsOK, Undelegating
<1>15. RedemptionsOK' /\ RecordsAddUp'
  BY <1>6, <1>10, <1>11 DEF DInv, Stores, RedemptionsOK, RecordsAddUp, RedemptionsOf
<1>16. UndelegationsOK'
  <2>1. IsFiniteSet(host'.undelegations)
    <3>1. IsFiniteSet(host.undelegations \ {u})
      BY Zenon, FS_RemoveElement DEF DInv, Stores, UndelegationsOK
    <3> QED BY <1>7, <3>1, FS_AddElement
  <2>2. \A w \in host'.undelegations : w \in Undelegation /\ w.left <= UnbondingPeriod
    BY Zenon, <1>2, <1>7, <1>12 DEF DInv, Stores, UndelegationsOK
  <2>3. \A w, x \in host'.undelegations : w.id = x.id => w = x
    BY <1>2, <1>7, <1>12 DEF DInv, Stores, UndelegationsOK
  <2>4. ASSUME NEW q \in unbondingRecords', NEW w \in host'.undelegations, q.id = w.id
        PROVE  Coupled(q, w)
    <3>1. CASE w = v
      <4>1. q = s
        BY Zenon, <1>2, <1>10, <1>12, <2>4, <3>1
      <4> QED BY Zenon, <1>2, <1>11, <1>12, <3>1, <4>1
    <3>2. CASE w \in host.undelegations /\ w # u
      <4>1. q \in unbondingRecords
        BY Zenon, <1>2, <1>10, <1>11, <2>4, <3>2
      <4> QED BY Zenon, <2>4, <3>2, <4>1 DEF DInv, Stores, UndelegationsOK
    <3> QED BY Zenon, <1>7, <3>1, <3>2
  <2> QED BY Zenon, <2>1, <2>2, <2>3, <2>4 DEF UndelegationsOK
<1>17. BalancesOK'
  BY Zenon, <1>4, <1>6, <1>7, <1>8, <1>9 DEF DInv, BalancesOK
<1>18. Natives(Sub') = Natives(Sub) - r.native
  <2> DEFINE U == Sub'
  <2>1. U = Sub \ {u} /\ u \in Sub
    BY Zenon, <1>2, <1>7, <1>12 DEF UndelegationsIn
  <2> HIDE DEF U, Sub
  <2>2. Natives(U) = Natives(Sub) - u.native
    BY Zenon, <1>1, <2>1, TotalRemove DEF Natives
  <2> QED BY Zenon, <1>2, <2>2 DEF U
<1>19. Natives(Con') = Natives(Con) + r.native
  <2> DEFINE U == Con'
  <2>1. U = Con \cup {v} /\ v \notin Con
    BY Zenon, <1>2, <1>7, <1>12 DEF UndelegationsIn
  <2> HIDE DEF U, Con
  <2>2. Amounts("native", U)
    BY <1>1, <1>2, <1>3, <1>12, <2>1 DEF Amounts
  <2>3. Natives(U) = Natives(Con) + v.native
    BY Zenon, <1>1, <2>1, <2>2, TotalAdd DEF Natives
  <2> QED BY Zenon, <1>2, <1>12, <2>3 DEF U
<1>20. Natives(Undelegated') = Natives(Undelegated) + r.native
  <2> DEFINE U == Undelegated'
  <2>1. U = Undelegated \cup {s} /\ s \notin Undelegated
    BY Zenon, <1>2, <1>10, <1>11 DEF Undelegated, Undelegating
  <2> HIDE DEF U
  <2>2. Amounts("native", U)
    BY <1>1, <1>3, <1>11, <2>1 DEF Amounts
  <2>3. Natives(U) = Natives(Undelegated) + s.native
    BY Zenon, <1>1, <2>1, <2>2, TotalAdd DEF Natives
  <2> QED BY Zenon, <1>11, <2>3 DEF U
<1>21. Escrowed' = Escrowed \ {r} /\ r \in Escrowed
  BY Zenon, <1>2, <1>10, <1>11 DEF Escrowed, Undelegating
<1>22. IdsOf(unbondingRecords)' = IdsOf(unbondingRecords)
  BY Zenon, <1>10, <1>11 DEF IdsOf
<1>23. StakeTracked'
  BY <1>3, <1>4, <1>5, <1>7, <1>9, <1>13, <1>18 DEF DInv, StakeTracked
<1>24. ClaimsCovered'
  BY <1>3, <1>5, <1>8, <1>19, <1>20 DEF DInv, ClaimsCovered
<1>25. TokensAccounted'
  BY <1>3, <1>4, <1>5, <1>6, <1>8, <1>9, <1>13, <1>20 DEF DInv, TokensAccounted
<1> QED
  BY Zenon, <1>8, <1>13, <1>14, <1>15, <1>16, <1>17, <1>21, <1>22, <1>23, <1>24, <1>25 DEF DInv, Stores

\* A step on the unbonding records that keeps ids and amounts, and undelegated records undelegated.
KeepsUnbondings(m, U) ==
    /\ U = {m[r] : r \in unbondingRecords}
    /\ \A r \in unbondingRecords :
          /\ m[r] \in UnbondingRecord /\ m[r].id = r.id
          /\ m[r].native = r.native /\ m[r].st = r.st
          /\ Undelegating(m[r]) <=> Undelegating(r)
          /\ ~Undelegating(r) => m[r].left = 0

\* Such a rewriting keeps every total over the unbonding records.
LEMMA ImageOfUnbondings ==
    ASSUME UnbondingsOK, NEW U, NEW m, KeepsUnbondings(m, U)
    PROVE  /\ IsFiniteSet(U) /\ \A r \in U : r \in UnbondingRecord
           /\ \A r, s \in U : r.id = s.id => r = s
           /\ \A r \in U : ~Undelegating(r) => r.left = 0
           /\ IdsOf(U) = IdsOf(unbondingRecords)
           /\ Natives({r \in U : Undelegating(r)}) = Natives(Undelegated)
           /\ StTokens({r \in U : ~Undelegating(r)}) = StTokens(Escrowed)
<1>a. /\ U = {m[r] : r \in unbondingRecords}
      /\ \A r \in unbondingRecords :
            /\ m[r] \in UnbondingRecord /\ m[r].id = r.id
            /\ m[r].native = r.native /\ m[r].st = r.st
            /\ Undelegating(m[r]) <=> Undelegating(r)
            /\ ~Undelegating(r) => m[r].left = 0
  BY Zenon DEF KeepsUnbondings
<1>1. \A r, s \in unbondingRecords : r.id = s.id => r = s
  BY Zenon DEF UnbondingsOK
<1>2. IsFiniteSet(unbondingRecords)
  BY Zenon DEF UnbondingsOK
<1>3. IsFiniteSet(U)
  <2> DEFINE h == [r \in unbondingRecords |-> m[r]]
  <2>1. h \in Surjection(unbondingRecords, U)
    BY Zenon, <1>a DEF Surjection
  <2> QED BY Zenon, <1>2, <2>1, FS_Surjection
<1>4. \A r \in U : r \in UnbondingRecord /\ (~Undelegating(r) => r.left = 0)
  BY <1>a
<1>5. \A r, s \in U : r.id = s.id => r = s
  BY <1>1, <1>a
<1>6. IdsOf(U) = IdsOf(unbondingRecords)
  BY <1>a DEF IdsOf
<1>7. Natives({r \in U : Undelegating(r)}) = Natives(Undelegated)
  <2> DEFINE V == {r \in U : Undelegating(r)}
  <2>1. OneToOne(m, Undelegated, V)
    <3>1. \A r \in Undelegated : m[r] \in V
      BY Zenon, <1>a DEF Undelegated
    <3>2. \A r, s \in Undelegated : m[r] = m[s] => r = s
      BY <1>1, <1>a DEF Undelegated
    <3>3. \A v \in V : \E r \in Undelegated : m[r] = v
      BY <1>a DEF Undelegated
    <3> QED BY Zenon, <3>1, <3>2, <3>3 DEF OneToOne
  <2>2. \A r \in Undelegated : m[r]["native"] = r["native"]
    BY Zenon, <1>a DEF Undelegated
  <2>3. IsFiniteSet(Undelegated) /\ Amounts("native", Undelegated)
    <3>1. IsFiniteSet(Undelegated)
      BY Zenon, <1>2, FS_Subset DEF Undelegated
    <3> QED BY <3>1 DEF UnbondingsOK, UnbondingRecord, Undelegated, Amounts
  <2> HIDE DEF V
  <2>4. Natives(V) = Natives(Undelegated)
    BY Zenon, <2>1, <2>2, <2>3, TotalImage DEF Natives
  <2> QED BY Zenon, <2>4 DEF V
<1>8. StTokens({r \in U : ~Undelegating(r)}) = StTokens(Escrowed)
  <2> DEFINE V == {r \in U : ~Undelegating(r)}
  <2>1. OneToOne(m, Escrowed, V)
    <3>1. \A r \in Escrowed : m[r] \in V
      BY Zenon, <1>a DEF Escrowed
    <3>2. \A r, s \in Escrowed : m[r] = m[s] => r = s
      BY <1>1, <1>a DEF Escrowed
    <3>3. \A v \in V : \E r \in Escrowed : m[r] = v
      BY <1>a DEF Escrowed
    <3> QED BY Zenon, <3>1, <3>2, <3>3 DEF OneToOne
  <2>2. \A r \in Escrowed : m[r]["st"] = r["st"]
    BY Zenon, <1>a DEF Escrowed
  <2>3. IsFiniteSet(Escrowed) /\ Amounts("st", Escrowed)
    <3>1. IsFiniteSet(Escrowed)
      BY Zenon, <1>2, FS_Subset DEF Escrowed
    <3> QED BY <3>1 DEF UnbondingsOK, UnbondingRecord, Escrowed, Amounts
  <2> HIDE DEF V
  <2>4. StTokens(V) = StTokens(Escrowed)
    BY <2>1, <2>2, <2>3, TotalImage DEF StTokens
  <2> QED BY Zenon, <2>4 DEF V
<1> QED BY Zenon, <1>3, <1>4, <1>5, <1>6, <1>7, <1>8

\* ConfirmUnbondedTokenSweep makes a record claimable.
LEMMA ConfirmSweepD ==
    ASSUME DInv, TInv', NEW r \in unbondingRecords, ConfirmUnbondedTokenSweep(r)
    PROVE  /\ DInv' /\ bank' = bank /\ redemptionRecords' = redemptionRecords
           /\ StTokens(Escrowed)' = StTokens(Escrowed)
           /\ IdsOf(unbondingRecords)' = IdsOf(unbondingRecords)
<1> DEFINE g(q) == IF q.id = r.id THEN [q EXCEPT !.status = "CLAIMABLE"] ELSE q
           m == [q \in unbondingRecords |-> g(q)]
           U == unbondingRecords'
<1>1. /\ r.status = "UNBONDED" /\ \A q \in unbondingRecords : q \in UnbondingRecord
      /\ \A q \in unbondingRecords : q.id = r.id => q = r
      /\ \A q \in unbondingRecords : ~Undelegating(q) => q.left = 0
      /\ UnbondingsOK
  BY Zenon DEF DInv, Stores, UnbondingsOK, ConfirmUnbondedTokenSweep
<1>2. U = {g(q) : q \in unbondingRecords}
  BY Zenon DEF ConfirmUnbondedTokenSweep, SetStatus
<1>3. ASSUME NEW q \in unbondingRecords
      PROVE  /\ g(q) \in UnbondingRecord /\ g(q).id = q.id
             /\ g(q).native = q.native /\ g(q).st = q.st /\ g(q).left = q.left
             /\ q.id # r.id => g(q) = q
             /\ q.id = r.id => q = r /\ g(q).status = "CLAIMABLE"
  <2>1. CASE q.id = r.id
    BY Zenon, <1>1, <2>1 DEF UnbondingRecord
  <2>2. CASE q.id # r.id
    BY Zenon, <1>1, <2>2 DEF UnbondingRecord
  <2> QED BY Zenon, <2>1, <2>2
<1> HIDE DEF g
<1>4. \A q \in unbondingRecords : /\ Undelegating(g(q)) <=> Undelegating(q)
                                  /\ ~Undelegating(q) => g(q).left = 0
  BY Zenon, <1>1, <1>3 DEF Undelegating
<1>5. KeepsUnbondings(m, U)
  BY Zenon, <1>2, <1>3, <1>4 DEF KeepsUnbondings
<1> HIDE DEF m, U
<1>6. /\ IsFiniteSet(U) /\ \A q \in U : q \in UnbondingRecord
      /\ \A p, q \in U : p.id = q.id => p = q
      /\ \A q \in U : ~Undelegating(q) => q.left = 0
      /\ IdsOf(U) = IdsOf(unbondingRecords)
      /\ Natives({q \in U : Undelegating(q)}) = Natives(Undelegated)
      /\ StTokens({q \in U : ~Undelegating(q)}) = StTokens(Escrowed)
  BY Zenon, <1>1, <1>5, ImageOfUnbondings
<1>7. UNCHANGED <<zone, bank, stTokens, delegationRecords, redemptionRecords, host, income, paid>>
  BY Zenon DEF ConfirmUnbondedTokenSweep, history
<1>8. /\ UnbondingsOK' /\ IdsOf(unbondingRecords)' = IdsOf(unbondingRecords)
      /\ Natives(Undelegated)' = Natives(Undelegated)
      /\ StTokens(Escrowed)' = StTokens(Escrowed)
  BY Zenon, <1>6 DEF U, UnbondingsOK, Undelegated, Escrowed, Undelegating
<1>9. /\ DelegationsOK' /\ Natives(delegationRecords)' = Natives(delegationRecords)
      /\ Natives(Unconfirmed)' = Natives(Unconfirmed)
  BY Zenon, <1>7, DelegationsUnchanged DEF DInv, Stores
<1>10. RedemptionsOK' /\ RecordsAddUp'
  <2>1. \A q \in unbondingRecords' : \E p \in unbondingRecords :
           q.id = p.id /\ q.native = p.native /\ q.st = p.st
    BY <1>2, <1>3 DEF U
  <2> QED BY <1>7, <2>1 DEF DInv, Stores, RedemptionsOK, RecordsAddUp, RedemptionsOf
<1>11. UndelegationsOK'
  <2>1. ASSUME NEW q \in unbondingRecords', NEW w \in host.undelegations, q.id = w.id
        PROVE  Coupled(q, w)
    <3>1. PICK p \in unbondingRecords : q = g(p)
      BY Zenon, <1>2 DEF U
    <3>2. p.id = w.id
      BY Zenon, <1>3, <2>1, <3>1
    <3>3. CASE p.id = r.id
      <4>1. p = r /\ r.status = "UNBONDED" /\ q.status = "CLAIMABLE"
        BY Zenon, <1>1, <1>3, <3>1, <3>3
      <4>2. Coupled(r, w)
        BY Zenon, <3>2, <4>1 DEF DInv, Stores, UndelegationsOK
      <4>3. w.left = 0 /\ w.status # "submitted"
        BY <4>1, <4>2
      <4> QED BY <4>1, <4>3
    <3>4. CASE p.id # r.id
      BY Zenon, <1>3, <3>1, <3>2, <3>4 DEF DInv, Stores, UndelegationsOK
    <3> QED BY Zenon, <3>3, <3>4
  <2> QED BY Zenon, <1>7, <2>1 DEF DInv, Stores, UndelegationsOK
<1>12. BalancesOK'
  BY Zenon, <1>7 DEF DInv, BalancesOK
<1>13. \A status : UndelegationsIn(status)' = UndelegationsIn(status)
  BY Zenon, <1>7 DEF UndelegationsIn
<1>14. TokensAccounted' /\ ClaimsCovered' /\ StakeTracked'
  BY Zenon, <1>7, <1>8, <1>9, <1>13 DEF DInv, TokensAccounted, ClaimsCovered, StakeTracked
<1> QED BY Zenon, <1>7, <1>8, <1>9, <1>10, <1>11, <1>12, <1>14 DEF DInv, Stores

\* The native value of stTokens is natural.
LEMMA NativeAmountNat ==
    ASSUME NEW st \in Nat, NEW rate \in Nat
    PROVE  NativeAmount(st, rate) \in Nat
<1>1. NewDecFromInt(st) \in Nat
  BY Zenon, DecNat
<1>2. Mul(NewDecFromInt(st), rate) \in Nat
  BY Zenon, <1>1, DecNat
<1> QED BY Zenon, <1>2, DecNat DEF NativeAmount

\* The accumulating record, where there is one, is one of the records.
LEMMA AccumulatingExists ==
    ASSUME AccumulatingFound
    PROVE  /\ Accumulating \in unbondingRecords
           /\ Accumulating.status = "ACCUMULATING_REDEMPTIONS"
<1>1. WithStatus("ACCUMULATING_REDEMPTIONS") # {}
  BY FS_EmptySet DEF AccumulatingFound
<1>2. Accumulating \in WithStatus("ACCUMULATING_REDEMPTIONS")
  BY Zenon, <1>1 DEF Accumulating
<1> QED BY Zenon, <1>2 DEF WithStatus

\* RedeemStake adds to the redemption of the user in the accumulating record a.
RedemptionsGrow(user, st, native, a) ==
    a = Accumulating.id /\ redemptionRecords' = RedemptionsWith(user, st, native)

\* The redemptions of the user in the accumulating record grow by the amounts.
LEMMA RedemptionAdded ==
    ASSUME RedemptionsOK, NEW user \in Users, NEW st \in Nat, NEW native \in Nat,
           NEW a \in Nat, RedemptionsGrow(user, st, native, a)
    PROVE  /\ RedemptionsOK'
           /\ Natives(RedemptionsOf(a))' = Natives(RedemptionsOf(a)) + native
           /\ StTokens(RedemptionsOf(a))' = StTokens(RedemptionsOf(a)) + st
           /\ \A id : id # a => RedemptionsOf(id)' = RedemptionsOf(id)
           /\ \A d \in redemptionRecords' : \/ d.unbondingId = a
                                            \/ \E c \in redemptionRecords : c.unbondingId = d.unbondingId
<1> DEFINE R == RedemptionsOf(a)
           U == RedemptionsOf(a)'
           mine == {r \in R : r.redeemer = user}
           new == [unbondingId |-> a, redeemer |-> user, st |-> st, native |-> native]
<1>1. redemptionRecords' = (redemptionRecords \ mine)
          \cup IF mine = {} THEN {new} ELSE {Plus(r, st, native) : r \in mine}
  BY Zenon DEF RedemptionsGrow, RedemptionsWith
<1>2. /\ IsFiniteSet(redemptionRecords) /\ \A d \in redemptionRecords : d \in RedemptionRecord
      /\ \A c, d \in redemptionRecords :
            c.unbondingId = d.unbondingId /\ c.redeemer = d.redeemer => c = d
  BY Zenon DEF RedemptionsOK
<1>3. IsFiniteSet(R) /\ Amounts("native", R) /\ Amounts("st", R)
  <2>1. IsFiniteSet(R)
    BY Zenon, <1>2, FS_Subset DEF RedemptionsOf
  <2> QED BY <1>2, <2>1 DEF RedemptionRecord, RedemptionsOf, Amounts
<1>4. Natives(R) \in Int /\ StTokens(R) \in Int
  BY Zenon, <1>3, TotalInt DEF Natives, StTokens
<1>5. CASE mine = {}
  <2>1. redemptionRecords' = redemptionRecords \cup {new}
    BY Zenon, <1>1, <1>5
  <2>2. /\ new \in RedemptionRecord /\ new.unbondingId = a /\ new.redeemer = user
        /\ new.st = st /\ new.native = native
    BY Zenon DEF RedemptionRecord
  <2> HIDE DEF new
  <2>3. \A d \in redemptionRecords : ~(d.unbondingId = a /\ d.redeemer = user)
    BY Zenon, <1>5 DEF RedemptionsOf
  <2>4. IsFiniteSet(redemptionRecords')
    BY Zenon, <1>2, <2>1, FS_AddElement
  <2>5. RedemptionsOK'
    BY Zenon, <1>2, <2>1, <2>2, <2>3, <2>4 DEF RedemptionsOK
  <2>6. U = R \cup {new} /\ new \notin R
    BY Zenon, <2>1, <2>2, <2>3 DEF RedemptionsOf
  <2>7. \A id : id # a => RedemptionsOf(id)' = RedemptionsOf(id)
    BY Zenon, <2>1, <2>2 DEF RedemptionsOf
  <2>8. \A d \in redemptionRecords' : \/ d.unbondingId = a
                                      \/ \E c \in redemptionRecords : c.unbondingId = d.unbondingId
    BY Zenon, <2>1, <2>2
  <2> HIDE DEF U, R
  <2>9. Amounts("native", U) /\ Amounts("st", U)
    BY <1>3, <2>2, <2>6 DEF Amounts
  <2>10. Natives(U) = Natives(R) + native
    BY Zenon, <1>3, <2>2, <2>6, <2>9, TotalAdd DEF Natives
  <2>11. StTokens(U) = StTokens(R) + st
    BY Zenon, <1>3, <2>2, <2>6, <2>9, TotalAdd DEF StTokens
  <2> QED BY Zenon, <2>5, <2>7, <2>8, <2>10, <2>11 DEF U, R
<1>6. CASE mine # {}
  <2>1. PICK d \in redemptionRecords : d.unbondingId = a /\ d.redeemer = user
    BY Zenon, <1>6 DEF RedemptionsOf
  <2>2. mine = {d}
    BY Zenon, <1>2, <2>1 DEF RedemptionsOf
  <2> DEFINE e == Plus(d, st, native)
  <2>3. redemptionRecords' = (redemptionRecords \ {d}) \cup {e}
    BY Zenon, <1>1, <2>2
  <2>4. /\ e \in RedemptionRecord /\ e.unbondingId = a /\ e.redeemer = user
        /\ e.st = d.st + st /\ e.native = d.native + native /\ d.st \in Nat /\ d.native \in Nat
    <3>1. d \in RedemptionRecord /\ d.st \in Nat /\ d.native \in Nat
      BY Zenon, <1>2 DEF RedemptionRecord
    <3>2. d.st + st \in Nat /\ d.native + native \in Nat
      BY <3>1
    <3> QED BY Zenon, <2>1, <3>1, <3>2 DEF RedemptionRecord, Plus
  <2> HIDE DEF e
  <2>5. e \notin redemptionRecords \/ e = d
    BY Zenon, <1>2, <2>1, <2>4
  <2>6. IsFiniteSet(redemptionRecords')
    <3>1. IsFiniteSet(redemptionRecords \ {d})
      BY Zenon, <1>2, FS_RemoveElement
    <3> QED BY Zenon, <2>3, <3>1, FS_AddElement
  <2>7. RedemptionsOK'
    BY <1>2, <2>1, <2>3, <2>4, <2>6 DEF RedemptionsOK
  <2>8. U = (R \ {d}) \cup {e} /\ d \in R /\ (e \notin R \/ e = d)
    BY Zenon, <2>1, <2>3, <2>4, <2>5 DEF RedemptionsOf
  <2>9. \A id : id # a => RedemptionsOf(id)' = RedemptionsOf(id)
    BY Zenon, <2>1, <2>3, <2>4 DEF RedemptionsOf
  <2>10. \A c \in redemptionRecords' : \/ c.unbondingId = a
                                       \/ \E b \in redemptionRecords : b.unbondingId = c.unbondingId
    BY Zenon, <2>3, <2>4
  <2> HIDE DEF U, R
  <2>11. Natives(U) = Natives(R) - d.native + e.native
    BY <1>3, <2>4, <2>8, TotalReplace DEF Natives
  <2>12. StTokens(U) = StTokens(R) - d.st + e.st
    BY <1>3, <2>4, <2>8, TotalReplace DEF StTokens
  <2>13. Natives(U) = Natives(R) + native /\ StTokens(U) = StTokens(R) + st
    BY <1>4, <2>4, <2>11, <2>12
  <2> QED BY Zenon, <2>7, <2>9, <2>10, <2>13 DEF U, R
<1> QED BY Zenon, <1>5, <1>6

\* RedeemStake escrows the stTokens and adds both amounts to record and redemption.
LEMMA RedeemStakeD ==
    ASSUME DInv, TInv', NEW user \in Users, NEW st \in RedeemAmounts, RedeemStake(user, st)
    PROVE  /\ DInv' /\ bank'.escrow = bank.escrow + st
           /\ StTokens(Escrowed)' = StTokens(Escrowed) + st
           /\ IdsOf(unbondingRecords)' = IdsOf(unbondingRecords)
           /\ \A d \in redemptionRecords' :
                 \/ d.unbondingId \in IdsOf(unbondingRecords)
                 \/ \E c \in redemptionRecords : c.unbondingId = d.unbondingId
<1> PICK a : a = Accumulating
  BY Zenon
<1> DEFINE native == NativeAmount(st, zone.rate)
           b == Plus(a, st, native)
<1>1. st \in Nat /\ zone.rate \in Nat
  BY Zenon, StakeDymAssumptions DEF DInv, BalancesOK
<1>2. native \in Nat
  BY Zenon, <1>1, NativeAmountNat
<1>3. /\ unbondingRecords' = (unbondingRecords \ {a}) \cup {b}
      /\ redemptionRecords' = RedemptionsWith(user, st, native)
      /\ stTokens' = [stTokens EXCEPT ![user] = @ - st] /\ stTokens[user] >= st
      /\ bank' = [bank EXCEPT !.escrow = @ + st]
      /\ UNCHANGED <<zone, delegationRecords, host, income, paid>>
      /\ a \in unbondingRecords /\ a.status = "ACCUMULATING_REDEMPTIONS"
  BY Zenon, AccumulatingExists DEF RedeemStake, history
<1> HIDE DEF native
<1>4. /\ a \in UnbondingRecord /\ a.left = 0 /\ \A q \in unbondingRecords : q.id = a.id => q = a
      /\ \A u \in host.undelegations : u.id # a.id
  BY Zenon, <1>3 DEF DInv, Stores, UnbondingsOK, UndelegationsOK, Undelegating
<1>5. /\ b \in UnbondingRecord /\ b.id = a.id /\ b.status = "ACCUMULATING_REDEMPTIONS" /\ b.left = 0
      /\ b.st = a.st + st /\ b.native = a.native + native /\ a.st \in Nat /\ a.native \in Nat
      /\ a.id \in Nat
  <2>1. a.st \in Nat /\ a.native \in Nat /\ a.id \in Nat
    BY Zenon, <1>4 DEF UnbondingRecord
  <2>2. a.st + st \in Nat /\ a.native + native \in Nat
    BY <1>1, <1>2, <2>1
  <2> QED BY Zenon, <1>3, <1>4, <2>1, <2>2 DEF UnbondingRecord, Plus
<1> HIDE DEF b
<1>6. /\ RedemptionsOK'
      /\ Natives(RedemptionsOf(a.id))' = Natives(RedemptionsOf(a.id)) + native
      /\ StTokens(RedemptionsOf(a.id))' = StTokens(RedemptionsOf(a.id)) + st
      /\ \A id : id # a.id => RedemptionsOf(id)' = RedemptionsOf(id)
      /\ \A d \in redemptionRecords' : \/ d.unbondingId = a.id
                                       \/ \E c \in redemptionRecords : c.unbondingId = d.unbondingId
  <2> DEFINE i == a.id
  <2>1. RedemptionsGrow(user, st, native, i) /\ i \in Nat
    BY Zenon, <1>3, <1>5 DEF RedemptionsGrow
  <2> HIDE DEF i
  <2>2. /\ RedemptionsOK'
        /\ Natives(RedemptionsOf(i))' = Natives(RedemptionsOf(i)) + native
        /\ StTokens(RedemptionsOf(i))' = StTokens(RedemptionsOf(i)) + st
        /\ \A id : id # i => RedemptionsOf(id)' = RedemptionsOf(id)
        /\ \A d \in redemptionRecords' : \/ d.unbondingId = i
                                         \/ \E c \in redemptionRecords : c.unbondingId = d.unbondingId
    BY <1>1, <1>2, <2>1, RedemptionAdded DEF DInv, Stores
  <2> QED BY Zenon, <2>2 DEF i
<1>7. UnbondingsOK'
  <2>1. IsFiniteSet(unbondingRecords')
    <3>1. IsFiniteSet(unbondingRecords \ {a})
      BY Zenon, FS_RemoveElement DEF DInv, Stores, UnbondingsOK
    <3> QED BY Zenon, <1>3, <3>1, FS_AddElement
  <2>2. \A q \in unbondingRecords' : q \in UnbondingRecord /\ (~Undelegating(q) => q.left = 0)
    BY Zenon, <1>3, <1>5 DEF DInv, Stores, UnbondingsOK, Undelegating
  <2>3. \A p, q \in unbondingRecords' : p.id = q.id => p = q
    BY Zenon, <1>3, <1>4, <1>5 DEF DInv, Stores, UnbondingsOK
  <2> QED BY Zenon, <2>1, <2>2, <2>3 DEF UnbondingsOK, Undelegating
<1>8. UndelegationsOK'
  <2>1. \A q \in unbondingRecords', u \in host.undelegations : q.id = u.id => q \in unbondingRecords
    BY Zenon, <1>3, <1>4, <1>5
  <2> QED BY Zenon, <1>3, <2>1 DEF DInv, Stores, UndelegationsOK
<1>9. RecordsAddUp'
  <2> SUFFICES ASSUME NEW q \in unbondingRecords'
               PROVE  q.native = Natives(RedemptionsOf(q.id))' /\ q.st = StTokens(RedemptionsOf(q.id))'
    BY Zenon DEF RecordsAddUp
  <2>1. CASE q = b
    <3>1. a.native = Natives(RedemptionsOf(a.id)) /\ a.st = StTokens(RedemptionsOf(a.id))
      BY Zenon, <1>3 DEF DInv, Stores, RecordsAddUp
    <3>2. q.id = a.id /\ q.native = a.native + native /\ q.st = a.st + st
      BY Zenon, <1>5, <2>1
    <3>3. RedemptionsOf(q.id)' = RedemptionsOf(a.id)'
      BY Zenon, <3>2 DEF RedemptionsOf
    <3>4. /\ q.native = Natives(RedemptionsOf(a.id))'
          /\ q.st = StTokens(RedemptionsOf(a.id))'
      BY Zenon, <1>6, <3>1, <3>2
    <3> QED BY Zenon, <3>3, <3>4
  <2>2. CASE q \in unbondingRecords /\ q # a
    <3>1. RedemptionsOf(q.id)' = RedemptionsOf(q.id)
      BY Zenon, <1>4, <1>6, <2>2
    <3> QED BY Zenon, <2>2, <3>1 DEF DInv, Stores, RecordsAddUp
  <2> QED BY Zenon, <1>3, <2>1, <2>2
<1>10. Undelegated' = Undelegated
  BY Zenon, <1>3, <1>5 DEF Undelegated, Undelegating
<1>11. /\ bank' \in Bank
       /\ bank'.deposit = bank.deposit /\ bank'.fees = bank.fees /\ bank'.claim = bank.claim
       /\ bank'.escrow = bank.escrow + st
  BY <1>1, <1>3 DEF DInv, BalancesOK
<1>12. stTokens' \in [Holders -> Nat]
  <2>1. stTokens \in [Holders -> Nat] /\ user \in Holders
    BY Zenon DEF DInv, BalancesOK, Holders
  <2>2. stTokens[user] - st \in Nat
    BY <1>1, <1>3, <2>1
  <2> QED BY Zenon, <1>3, <2>1, <2>2
<1>13. BalancesOK'
  BY Zenon, <1>3, <1>11, <1>12 DEF DInv, BalancesOK
<1>14. /\ DelegationsOK' /\ Natives(delegationRecords)' = Natives(delegationRecords)
       /\ Natives(Unconfirmed)' = Natives(Unconfirmed)
  BY Zenon, <1>3, DelegationsUnchanged DEF DInv, Stores
<1>15. \A status : UndelegationsIn(status)' = UndelegationsIn(status)
  BY Zenon, <1>3 DEF UndelegationsIn
<1>16. TokensAccounted' /\ ClaimsCovered' /\ StakeTracked'
  BY Zenon, <1>3, <1>10, <1>11, <1>14, <1>15 DEF DInv, TokensAccounted, ClaimsCovered, StakeTracked
<1>17. StTokens(Escrowed)' = StTokens(Escrowed) + st
  <2> DEFINE U == Escrowed'
  <2>1. U = (Escrowed \ {a}) \cup {b} /\ a \in Escrowed /\ (b \notin Escrowed \/ b = a)
    BY Zenon, <1>3, <1>4, <1>5 DEF Escrowed, Undelegating
  <2>2. IsFiniteSet(Escrowed) /\ Amounts("st", Escrowed) /\ StTokens(Escrowed) \in Int
    BY Zenon, SetsOK, TotalsInt DEF DInv, Stores
  <2> HIDE DEF U
  <2>3. b.st \in Int
    BY <1>1, <1>5
  <2>4. StTokens(U) = StTokens(Escrowed) - a.st + b.st
    BY <2>1, <2>2, <2>3, TotalReplace DEF StTokens
  <2>5. StTokens(U) = StTokens(Escrowed) + st
    BY <1>1, <1>5, <2>2, <2>4
  <2> QED BY Zenon, <2>5 DEF U
<1>18. IdsOf(unbondingRecords)' = IdsOf(unbondingRecords)
  BY Zenon, <1>3, <1>5 DEF IdsOf
<1>19. a.id \in IdsOf(unbondingRecords)
  BY Zenon, <1>3 DEF IdsOf
<1> QED
  BY Zenon, <1>6, <1>7, <1>8, <1>9, <1>11, <1>13, <1>14, <1>16, <1>17, <1>18, <1>19 DEF DInv, Stores
-----------------------------------------------------------------------------
(* The epochs, and the theorems on the books *)

USE DEF Bank, Zone, Coupled

\* The redemptions paid when the records C are claimable.
Due(C) == {d \in redemptionRecords : d.unbondingId \in IdsOf(C)}

\* What they pay out is what the claimable records hold.
LEMMA DueTotal ==
    ASSUME UnbondingsOK, RedemptionsOK, RecordsAddUp, NEW C \in SUBSET unbondingRecords
    PROVE  Natives(Due(C)) = Natives(C)
<1> DEFINE F == {A \in SUBSET C : Natives(Due(A)) = Natives(A)}
<1>1. IsFiniteSet(C) /\ IsFiniteSet(redemptionRecords)
  BY Zenon, FS_Subset DEF UnbondingsOK, RedemptionsOK
<1>2. {} \in F
  <2>1. Due({}) = {}
    BY Zenon DEF Due, IdsOf
  <2> QED BY Zenon, <2>1
<1>3. ASSUME NEW A \in F, NEW x \in C \ A
      PROVE  A \cup {x} \in F
  <2> DEFINE B == A \cup {x}
             D == Due(A)
             E == Due(B)
             R == RedemptionsOf(x.id)
  <2>1. E = D \cup R
    BY Zenon DEF Due, IdsOf, RedemptionsOf
  <2>2. D \cap R = {}
    BY Zenon DEF Due, IdsOf, RedemptionsOf, UnbondingsOK
  <2>3. IsFiniteSet(D) /\ IsFiniteSet(R)
    BY Zenon, <1>1, FS_Subset DEF Due, RedemptionsOf
  <2>4. Amounts("native", E)
    BY DEF Amounts, Due, RedemptionsOK, RedemptionRecord
  <2>5. B = A \cup {x} /\ x \notin A /\ Amounts("native", B)
    BY DEF Amounts, UnbondingsOK, UnbondingRecord
  <2>6. IsFiniteSet(A)
    BY Zenon, <1>1, FS_Subset
  <2>7. x.native = Natives(R)
    BY Zenon DEF RecordsAddUp
  <2>8. Natives(D) = Natives(A)
    BY Zenon
  <2> HIDE DEF B, D, E, R
  <2>9. Natives(E) = Natives(D) + Natives(R)
    BY <2>1, <2>2, <2>3, <2>4, TotalUnion DEF Natives
  <2>10. Natives(B) = Natives(A) + x.native
    BY Zenon, <2>5, <2>6, TotalAdd DEF Natives
  <2>11. Natives(E) = Natives(B)
    BY Zenon, <2>7, <2>8, <2>9, <2>10
  <2>12. B \in SUBSET C
    BY Zenon, <2>5
  <2> QED BY Zenon, <2>11, <2>12 DEF E, B
<1>4. F \in SUBSET SUBSET C
  BY Zenon
<1> HIDE DEF F
<1>5. C \in F
  BY Zenon, <1>1, <1>2, <1>3, <1>4, AddingElements
<1> QED BY Zenon, <1>5 DEF F

\* MarkFinishedUnbondings moves completed records on and keeps every amount.
LEMMA MarkFinished ==
    ASSUME UnbondingsOK, UndelegationsOK, NEW U, U = MarkFinishedUnbondings
    PROVE  /\ IsFiniteSet(U) /\ \A r \in U : r \in UnbondingRecord
           /\ \A r, s \in U : r.id = s.id => r = s
           /\ \A r \in U : ~Undelegating(r) => r.left = 0
           /\ IdsOf(U) = IdsOf(unbondingRecords)
           /\ Natives({r \in U : Undelegating(r)}) = Natives(Undelegated)
           /\ StTokens({r \in U : ~Undelegating(r)}) = StTokens(Escrowed)
           /\ WithStatus("CLAIMABLE") \subseteq U
           /\ \A r \in U : \E s \in unbondingRecords :
                 r.id = s.id /\ r.native = s.native /\ r.st = s.st
           /\ \A r \in U, u \in host.undelegations : r.id = u.id => Coupled(r, u)
<1> DEFINE g(r) == IF r.status = "UNBONDING_IN_PROGRESS" /\ r.left = 0
                   THEN [r EXCEPT !.status = "UNBONDED"] ELSE r
           m == [r \in unbondingRecords |-> g(r)]
<1>1. U = {g(r) : r \in unbondingRecords}
  BY Zenon DEF MarkFinishedUnbondings
<1>2. ASSUME NEW r \in unbondingRecords
      PROVE  /\ g(r) \in UnbondingRecord /\ g(r).id = r.id
             /\ g(r).native = r.native /\ g(r).st = r.st /\ g(r).left = r.left
             /\ \/ g(r) = r
                \/ r.status = "UNBONDING_IN_PROGRESS" /\ r.left = 0 /\ g(r).status = "UNBONDED"
             /\ r.status = "CLAIMABLE" => g(r) = r
  <2>1. r \in UnbondingRecord
    BY Zenon DEF UnbondingsOK
  <2> QED BY Zenon, <2>1 DEF UnbondingRecord
<1> HIDE DEF g
<1>3. \A r \in unbondingRecords : /\ Undelegating(g(r)) <=> Undelegating(r)
                                  /\ ~Undelegating(r) => g(r).left = 0
  BY Zenon, <1>2 DEF Undelegating, UnbondingsOK
<1>4. KeepsUnbondings(m, U)
  BY Zenon, <1>1, <1>2, <1>3 DEF KeepsUnbondings
<1>5. /\ IsFiniteSet(U) /\ \A r \in U : r \in UnbondingRecord
      /\ \A r, s \in U : r.id = s.id => r = s
      /\ \A r \in U : ~Undelegating(r) => r.left = 0
      /\ IdsOf(U) = IdsOf(unbondingRecords)
      /\ Natives({r \in U : Undelegating(r)}) = Natives(Undelegated)
      /\ StTokens({r \in U : ~Undelegating(r)}) = StTokens(Escrowed)
  <2> HIDE DEF m
  <2> QED BY Zenon, <1>4, ImageOfUnbondings
<1>6. WithStatus("CLAIMABLE") \subseteq U
  BY Zenon, <1>1, <1>2 DEF WithStatus
<1>7. \A r \in U : \E s \in unbondingRecords : r.id = s.id /\ r.native = s.native /\ r.st = s.st
  BY <1>1, <1>2
<1>8. ASSUME NEW r \in U, NEW u \in host.undelegations, r.id = u.id
      PROVE  Coupled(r, u)
  <2>1. PICK s \in unbondingRecords : r = g(s)
    BY Zenon, <1>1
  <2>2. s.id = u.id
    BY Zenon, <1>2, <1>8, <2>1
  <2>3. u.left \in Nat
    BY Zenon DEF UndelegationsOK, Undelegation
  <2>4. CASE r = s
    BY Zenon, <2>2, <2>4 DEF UndelegationsOK
  <2>5. CASE s.status = "UNBONDING_IN_PROGRESS" /\ s.left = 0 /\ r.status = "UNBONDED"
    <3>1. u.left <= 0 /\ u.status # "submitted"
      BY Zenon, <2>2, <2>5 DEF UndelegationsOK
    <3> QED BY <2>3, <2>5, <3>1
  <2> QED BY Zenon, <1>2, <2>1, <2>4, <2>5
<1> QED BY Zenon, <1>5, <1>6, <1>7, <1>8

\* The hour epoch marks finished unbondings and pays the claimable ones out.
LEMMA HourEpochD ==
    ASSUME DInv, TInv', HourEpoch
    PROVE  /\ DInv' /\ bank'.escrow = bank.escrow
           /\ StTokens(Escrowed)' = StTokens(Escrowed)
           /\ redemptionRecords' \subseteq redemptionRecords
           /\ \A d \in redemptionRecords' :
                 d.unbondingId \in IdsOf(unbondingRecords) => d.unbondingId \in IdsOf(unbondingRecords')
<1> DEFINE C == WithStatus("CLAIMABLE")
           M == MarkFinishedUnbondings
           due == {r \in redemptionRecords : r.unbondingId \in IdsOf(C)}
           distributed == ~zone.halted /\ Natives(due) <= bank.claim
<1> PICK U : U = MarkFinishedUnbondings
  BY Zenon
<1>1. /\ IsFiniteSet(U) /\ \A r \in U : r \in UnbondingRecord
      /\ \A r, s \in U : r.id = s.id => r = s
      /\ \A r \in U : ~Undelegating(r) => r.left = 0
      /\ IdsOf(U) = IdsOf(unbondingRecords)
      /\ Natives({r \in U : Undelegating(r)}) = Natives(Undelegated)
      /\ StTokens({r \in U : ~Undelegating(r)}) = StTokens(Escrowed)
      /\ WithStatus("CLAIMABLE") \subseteq U
      /\ \A r \in U : \E s \in unbondingRecords :
            r.id = s.id /\ r.native = s.native /\ r.st = s.st
      /\ \A r \in U, u \in host.undelegations : r.id = u.id => Coupled(r, u)
  BY Zenon, MarkFinished DEF DInv, Stores
<1>2. UNCHANGED <<zone, stTokens, delegationRecords, host, income>>
  BY Zenon DEF HourEpoch
<1>3. /\ DelegationsOK' /\ Natives(delegationRecords)' = Natives(delegationRecords)
      /\ Natives(Unconfirmed)' = Natives(Unconfirmed)
  BY Zenon, <1>2, DelegationsUnchanged DEF DInv, Stores
<1>4. \A status : UndelegationsIn(status)' = UndelegationsIn(status)
  BY Zenon, <1>2 DEF UndelegationsIn
<1>5. CASE ~distributed
  <2>1. unbondingRecords' = U /\ UNCHANGED <<redemptionRecords, bank, paid>>
    BY Zenon, <1>5 DEF HourEpoch
  <2>2. UnbondingsOK' /\ UndelegationsOK'
    BY Zenon, <1>1, <1>2, <2>1 DEF DInv, Stores, UnbondingsOK, UndelegationsOK, Undelegating
  <2>3. RedemptionsOK' /\ RecordsAddUp'
    BY <1>1, <2>1 DEF DInv, Stores, RedemptionsOK, RecordsAddUp, RedemptionsOf
  <2>4. Natives(Undelegated)' = Natives(Undelegated) /\ StTokens(Escrowed)' = StTokens(Escrowed)
    BY Zenon, <1>1, <2>1 DEF Undelegated, Escrowed, Undelegating
  <2>5. BalancesOK'
    BY Zenon, <1>2, <2>1 DEF DInv, BalancesOK
  <2>6. TokensAccounted' /\ ClaimsCovered' /\ StakeTracked'
    BY Zenon, <1>2, <1>3, <1>4, <2>1, <2>4 DEF DInv, TokensAccounted, ClaimsCovered, StakeTracked
  <2>7. IdsOf(unbondingRecords') = IdsOf(unbondingRecords)
    BY Zenon, <1>1, <2>1
  <2> QED BY Zenon, <1>3, <2>1, <2>2, <2>3, <2>4, <2>5, <2>6, <2>7 DEF DInv, Stores
<1>6. CASE distributed
  <2> DEFINE n == Natives(due)
  <2>1. /\ unbondingRecords' = Archived(U, C) /\ redemptionRecords' = redemptionRecords \ due
        /\ bank' = [bank EXCEPT !.claim = @ - n] /\ paid' = paid + n /\ n <= bank.claim
    BY Zenon, <1>6 DEF HourEpoch
  <2>2. n = Natives(C) /\ n \in Int
    <3>1. C \in SUBSET unbondingRecords /\ IsFiniteSet(C) /\ Amounts("native", C)
      <4>1. C \in SUBSET unbondingRecords
        BY Zenon DEF WithStatus
      <4>2. IsFiniteSet(C)
        BY Zenon, <4>1, FS_Subset DEF DInv, Stores, UnbondingsOK
      <4> QED BY <4>1, <4>2 DEF Amounts, DInv, Stores, UnbondingsOK, UnbondingRecord
    <3>2. due = Due(C)
      BY Zenon DEF Due
    <3> HIDE DEF C, due
    <3>3. Natives(Due(C)) = Natives(C)
      BY Zenon, <3>1, DueTotal DEF DInv, Stores
    <3>4. Natives(C) \in Int
      BY Zenon, <3>1, TotalInt DEF Natives
    <3> QED BY Zenon, <3>2, <3>3, <3>4
  <2> HIDE DEF n
  <2>3. unbondingRecords' = U \ C
    BY <1>1, <2>1 DEF Archived, IdsOf
  <2>4. UnbondingsOK' /\ UndelegationsOK'
    <3>1. IsFiniteSet(U \ C)
      BY Zenon, <1>1, FS_Subset
    <3> QED BY <1>1, <1>2, <2>3, <3>1 DEF DInv, Stores, UnbondingsOK, UndelegationsOK, Undelegating
  <2>5. RedemptionsOK'
    <3>1. IsFiniteSet(redemptionRecords')
      BY Zenon, <2>1, FS_Subset DEF DInv, Stores, RedemptionsOK
    <3> QED BY Zenon, <2>1, <3>1 DEF DInv, Stores, RedemptionsOK
  <2>6. RecordsAddUp'
    <3> SUFFICES ASSUME NEW q \in unbondingRecords'
                 PROVE  q.native = Natives(RedemptionsOf(q.id))' /\ q.st = StTokens(RedemptionsOf(q.id))'
      BY Zenon DEF RecordsAddUp
    <3>1. q \in U /\ q.id \notin IdsOf(C)
      BY Zenon, <2>1 DEF Archived
    <3>2. RedemptionsOf(q.id)' = RedemptionsOf(q.id)
      BY Zenon, <2>1, <3>1 DEF RedemptionsOf
    <3>3. PICK s \in unbondingRecords : q.id = s.id /\ q.native = s.native /\ q.st = s.st
      BY Zenon, <1>1, <3>1
    <3> QED BY Zenon, <3>2, <3>3 DEF DInv, Stores, RecordsAddUp
  <2>7. \A r \in C : Undelegating(r)
    BY Zenon DEF WithStatus, Undelegating
  <2>8. Natives(Undelegated)' = Natives(Undelegated) - n
    <3> DEFINE V == {r \in U : Undelegating(r)}
               W == Undelegated'
    <3>1. V = W \cup C /\ W \cap C = {}
      BY Zenon, <1>1, <2>3, <2>7 DEF Undelegated, Undelegating
    <3>2. IsFiniteSet(V) /\ Amounts("native", V)
      <4>1. IsFiniteSet(V)
        BY Zenon, <1>1, FS_Subset
      <4> QED BY <1>1, <4>1 DEF Amounts, UnbondingRecord
    <3>3. Natives(V) = Natives(Undelegated)
      BY Zenon, <1>1
    <3> HIDE DEF V, W, C
    <3>4. IsFiniteSet(W) /\ IsFiniteSet(C) /\ Amounts("native", W)
      <4>1. IsFiniteSet(W)
        BY Zenon, <3>1, <3>2, FS_Subset
      <4>2. IsFiniteSet(C)
        BY Zenon, <3>1, <3>2, FS_Subset
      <4> QED BY Zenon, <3>1, <3>2, <4>1, <4>2 DEF Amounts
    <3>5. Natives(V) = Natives(W) + Natives(C)
      BY Zenon, <3>1, <3>2, <3>4, TotalUnion DEF Natives
    <3>6. Natives(W) \in Int
      BY Zenon, <3>4, TotalInt DEF Natives
    <3>7. Natives(W) = Natives(Undelegated) - n
      BY <2>2, <3>3, <3>5, <3>6
    <3> QED BY Zenon, <3>7 DEF W
  <2>9. StTokens(Escrowed)' = StTokens(Escrowed)
    <3>1. Escrowed' = {r \in U : ~Undelegating(r)}
      BY Zenon, <2>3, <2>7 DEF Escrowed, Undelegating
    <3> QED BY Zenon, <1>1, <3>1
  <2>10. /\ bank' \in Bank
         /\ bank'.deposit = bank.deposit /\ bank'.fees = bank.fees /\ bank'.escrow = bank.escrow
         /\ bank'.claim = bank.claim - n /\ paid' \in Int
    BY <2>1, <2>2 DEF DInv, BalancesOK
  <2>11. BalancesOK'
    BY Zenon, <1>2, <2>10 DEF DInv, BalancesOK
  <2>12. /\ Natives(Undelegated) \in Int /\ Natives(UndelegationsIn("confirmed")) \in Int
         /\ Natives(delegationRecords) \in Int /\ bank.deposit \in Int /\ bank.fees \in Int
         /\ zone.delegated \in Int /\ paid \in Int
    BY TotalsInt DEF DInv, BalancesOK
  <2>13. TokensAccounted'
    BY <1>2, <1>3, <2>1, <2>2, <2>8, <2>10, <2>12 DEF DInv, TokensAccounted
  <2>14. ClaimsCovered'
    BY <1>4, <2>2, <2>8, <2>10, <2>12 DEF DInv, ClaimsCovered
  <2>15. StakeTracked'
    BY Zenon, <1>2, <1>3, <1>4 DEF DInv, StakeTracked
  <2>16. \A d \in redemptionRecords' :
            d.unbondingId \in IdsOf(unbondingRecords) => d.unbondingId \in IdsOf(unbondingRecords')
    <3> SUFFICES ASSUME NEW d \in redemptionRecords', d.unbondingId \in IdsOf(unbondingRecords)
                 PROVE  d.unbondingId \in IdsOf(unbondingRecords')
      BY Zenon
    <3>1. d.unbondingId \notin IdsOf(C)
      BY Zenon, <2>1
    <3>2. d.unbondingId \in IdsOf(U)
      BY Zenon, <1>1
    <3> QED BY Zenon, <2>1, <3>1, <3>2 DEF Archived, IdsOf
  <2> QED
    BY Zenon, <1>3, <2>1, <2>4, <2>5, <2>6, <2>9, <2>10, <2>11, <2>13, <2>14, <2>15, <2>16 DEF DInv, Stores
<1> QED BY Zenon, <1>5, <1>6
-----------------------------------------------------------------------------
(* The day epoch                                                           *)

\* A day counts the completion times down and changes nothing else, on Stride
LEMMA AgedUnbondings ==
    ASSUME UnbondingsOK, NEW U, U = Aged(unbondingRecords)
    PROVE  /\ IsFiniteSet(U) /\ \A r \in U : r \in UnbondingRecord
           /\ \A r, s \in U : r.id = s.id => r = s
           /\ \A r \in U : ~Undelegating(r) => r.left = 0
           /\ IdsOf(U) = IdsOf(unbondingRecords)
           /\ Natives({r \in U : Undelegating(r)}) = Natives(Undelegated)
           /\ StTokens({r \in U : ~Undelegating(r)}) = StTokens(Escrowed)
           /\ \A r \in unbondingRecords : ~Undelegating(r) => r \in U
           /\ \A r \in U : \E s \in unbondingRecords :
                 /\ r.id = s.id /\ r.native = s.native /\ r.st = s.st /\ r.status = s.status
                 /\ r.left = IF s.left = 0 THEN 0 ELSE s.left - 1
<1> DEFINE g(r) == [r EXCEPT !.left = IF @ = 0 THEN 0 ELSE @ - 1]
           m == [r \in unbondingRecords |-> g(r)]
<1>1. U = {g(r) : r \in unbondingRecords}
  BY Zenon DEF Aged
<1>2. ASSUME NEW r \in unbondingRecords
      PROVE  /\ g(r) \in UnbondingRecord /\ g(r).id = r.id /\ g(r).status = r.status
             /\ g(r).native = r.native /\ g(r).st = r.st
             /\ g(r).left = IF r.left = 0 THEN 0 ELSE r.left - 1
             /\ r.left = 0 => g(r) = r
  <2>1. r \in UnbondingRecord
    BY Zenon DEF UnbondingsOK
  <2>2. (IF r.left = 0 THEN 0 ELSE r.left - 1) \in Nat
    BY <2>1 DEF UnbondingRecord
  <2> QED BY Zenon, <2>1, <2>2 DEF UnbondingRecord
<1> HIDE DEF g
<1>3. \A r \in unbondingRecords : /\ Undelegating(g(r)) <=> Undelegating(r)
                                  /\ ~Undelegating(r) => g(r).left = 0 /\ g(r) = r
  BY Zenon, <1>2 DEF Undelegating, UnbondingsOK
<1>4. KeepsUnbondings(m, U)
  BY Zenon, <1>1, <1>2, <1>3 DEF KeepsUnbondings
<1>5. /\ IsFiniteSet(U) /\ \A r \in U : r \in UnbondingRecord
      /\ \A r, s \in U : r.id = s.id => r = s
      /\ \A r \in U : ~Undelegating(r) => r.left = 0
      /\ IdsOf(U) = IdsOf(unbondingRecords)
      /\ Natives({r \in U : Undelegating(r)}) = Natives(Undelegated)
      /\ StTokens({r \in U : ~Undelegating(r)}) = StTokens(Escrowed)
  <2> HIDE DEF m
  <2> QED BY Zenon, <1>4, ImageOfUnbondings
<1>6. \A r \in unbondingRecords : ~Undelegating(r) => r \in U
  BY <1>1, <1>3
<1>7. ASSUME NEW r \in U
      PROVE  \E s \in unbondingRecords :
                 /\ r.id = s.id /\ r.native = s.native /\ r.st = s.st /\ r.status = s.status
                 /\ r.left = IF s.left = 0 THEN 0 ELSE s.left - 1
  <2>1. PICK s \in unbondingRecords : r = g(s)
    BY Zenon, <1>1
  <2> QED BY Zenon, <1>2, <2>1
<1> QED BY Zenon, <1>5, <1>6, <1>7

\* and on the host.
LEMMA AgedUndelegations ==
    ASSUME UndelegationsOK, NEW V, V = Aged(host.undelegations)
    PROVE  /\ IsFiniteSet(V) /\ \A u \in V : u \in Undelegation /\ u.left <= UnbondingPeriod
           /\ \A u, v \in V : u.id = v.id => u = v
           /\ \A status : Natives({u \in V : u.status = status}) = Natives(UndelegationsIn(status))
           /\ \A u \in V : \E v \in host.undelegations :
                 /\ u.id = v.id /\ u.native = v.native /\ u.status = v.status
                 /\ u.left = IF v.left = 0 THEN 0 ELSE v.left - 1
<1> DEFINE g(r) == [r EXCEPT !.left = IF @ = 0 THEN 0 ELSE @ - 1]
           m == [r \in host.undelegations |-> g(r)]
<1>1. V = {g(r) : r \in host.undelegations}
  BY Zenon DEF Aged
<1>2. ASSUME NEW r \in host.undelegations
      PROVE  /\ g(r) \in Undelegation /\ g(r).id = r.id /\ g(r).status = r.status
             /\ g(r).native = r.native /\ g(r).left <= UnbondingPeriod
             /\ g(r).left = IF r.left = 0 THEN 0 ELSE r.left - 1
  <2>1. r \in Undelegation /\ r.left <= UnbondingPeriod /\ UnbondingPeriod \in Nat
    BY Zenon, StakeDymAssumptions DEF UndelegationsOK
  <2>2. /\ (IF r.left = 0 THEN 0 ELSE r.left - 1) \in Nat
        /\ (IF r.left = 0 THEN 0 ELSE r.left - 1) <= UnbondingPeriod
    BY <2>1 DEF Undelegation
  <2> QED BY Zenon, <2>1, <2>2 DEF Undelegation
<1> HIDE DEF g
<1>3. \A u, v \in host.undelegations : u.id = v.id => u = v
  BY Zenon DEF UndelegationsOK
<1>4. IsFiniteSet(V)
  <2>1. m \in Surjection(host.undelegations, V)
    BY Zenon, <1>1 DEF Surjection
  <2> QED BY Zenon, <2>1, FS_Surjection DEF UndelegationsOK
<1>5. \A u \in V : u \in Undelegation /\ u.left <= UnbondingPeriod
  BY Zenon, <1>1, <1>2
<1>6. \A u, v \in V : u.id = v.id => u = v
  BY <1>1, <1>2, <1>3
<1>7. ASSUME NEW status
      PROVE  Natives({u \in V : u.status = status}) = Natives(UndelegationsIn(status))
  <2> DEFINE W == {u \in V : u.status = status}
             H == UndelegationsIn(status)
  <2>1. OneToOne(m, H, W)
    <3>1. \A r \in H : m[r] \in W
      BY Zenon, <1>1, <1>2 DEF UndelegationsIn
    <3>2. \A r, s \in H : m[r] = m[s] => r = s
      BY <1>2, <1>3 DEF UndelegationsIn
    <3>3. \A w \in W : \E r \in H : m[r] = w
      BY <1>1, <1>2 DEF UndelegationsIn
    <3> QED BY Zenon, <3>1, <3>2, <3>3 DEF OneToOne
  <2>2. \A r \in H : m[r]["native"] = r["native"]
    BY Zenon, <1>2 DEF UndelegationsIn
  <2>3. IsFiniteSet(H) /\ Amounts("native", H)
    <3>1. IsFiniteSet(H)
      BY Zenon, FS_Subset DEF UndelegationsIn, UndelegationsOK
    <3> QED BY <3>1 DEF UndelegationsOK, Undelegation, UndelegationsIn, Amounts
  <2> HIDE DEF W, H, m
  <2>4. Natives(W) = Natives(H)
    BY Zenon, <2>1, <2>2, <2>3, TotalImage DEF Natives
  <2> QED BY Zenon, <2>4 DEF W, H
<1>8. ASSUME NEW u \in V
      PROVE  \E v \in host.undelegations :
                 /\ u.id = v.id /\ u.native = v.native /\ u.status = v.status
                 /\ u.left = IF v.left = 0 THEN 0 ELSE v.left - 1
  <2>1. PICK v \in host.undelegations : u = g(v)
    BY Zenon, <1>1
  <2> QED BY Zenon, <1>2, <2>1
<1> QED BY Zenon, <1>4, <1>5, <1>6, <1>7, <1>8

\* The days count down together on Stride and on the host.
LEMMA AgedTogether ==
    ASSUME UnbondingsOK, UndelegationsOK, NEW r \in Aged(unbondingRecords),
           NEW u \in Aged(host.undelegations), r.id = u.id
    PROVE  Coupled(r, u)
<1>1. PICK s \in unbondingRecords :
                 /\ r.id = s.id /\ r.native = s.native /\ r.st = s.st /\ r.status = s.status
                 /\ r.left = IF s.left = 0 THEN 0 ELSE s.left - 1
  BY Zenon, AgedUnbondings
<1>2. PICK v \in host.undelegations :
                 /\ u.id = v.id /\ u.native = v.native /\ u.status = v.status
                 /\ u.left = IF v.left = 0 THEN 0 ELSE v.left - 1
  BY Zenon, AgedUndelegations
<1>3. Coupled(s, v)
  BY Zenon, <1>1, <1>2 DEF UndelegationsOK
<1>4. s.left \in Nat /\ v.left \in Nat
  BY Zenon DEF UnbondingsOK, UnbondingRecord, UndelegationsOK, Undelegation
<1> QED BY <1>1, <1>2, <1>3, <1>4

\* PrepareUndelegation writes the native amounts at the new rate into the redemptions.
RedemptionsRefreshed(a, rate) ==
    redemptionRecords' = (redemptionRecords \ RedemptionsOf(a))
                            \cup {Refreshed(r, rate) : r \in RedemptionsOf(a)}

\* The other unbonding records keep their redemptions, and the new total is what is written
\* to the record.
LEMMA RefreshedRedemptions ==
    ASSUME RedemptionsOK, NEW a \in Nat, NEW rate \in Nat, RedemptionsRefreshed(a, rate)
    PROVE  /\ RedemptionsOK'
           /\ RedemptionsOf(a)' = {Refreshed(r, rate) : r \in RedemptionsOf(a)}
           /\ StTokens(RedemptionsOf(a))' = StTokens(RedemptionsOf(a))
           /\ Natives(RedemptionsOf(a))' \in Nat
           /\ \A d \in RedemptionsOf(a)' : d.native = NativeAmount(d.st, rate)
           /\ \A id : id # a => RedemptionsOf(id)' = RedemptionsOf(id)
           /\ \A d \in redemptionRecords' : \E c \in redemptionRecords : c.unbondingId = d.unbondingId
<1> DEFINE R == RedemptionsOf(a)
           g(r) == Refreshed(r, rate)
           m == [r \in R |-> g(r)]
           U == {g(r) : r \in R}
<1>1. redemptionRecords' = (redemptionRecords \ R) \cup U
  BY Zenon DEF RedemptionsRefreshed
<1>2. /\ IsFiniteSet(redemptionRecords) /\ \A d \in redemptionRecords : d \in RedemptionRecord
      /\ \A c, d \in redemptionRecords :
            c.unbondingId = d.unbondingId /\ c.redeemer = d.redeemer => c = d
  BY Zenon DEF RedemptionsOK
<1>3. ASSUME NEW r \in R
      PROVE  /\ g(r) \in RedemptionRecord /\ g(r).unbondingId = a /\ g(r).redeemer = r.redeemer
             /\ g(r).st = r.st /\ g(r).native = NativeAmount(r.st, rate)
             /\ r \in redemptionRecords /\ r.unbondingId = a
  <2>1. r \in RedemptionRecord /\ r.unbondingId = a /\ r \in redemptionRecords
    BY Zenon, <1>2 DEF RedemptionsOf
  <2>2. NativeAmount(r.st, rate) \in Nat
    BY Zenon, <2>1, NativeAmountNat DEF RedemptionRecord
  <2> QED BY Zenon, <2>1, <2>2 DEF RedemptionRecord, Refreshed
<1> HIDE DEF g
<1>4. IsFiniteSet(R) /\ Amounts("st", R)
  <2>1. IsFiniteSet(R)
    BY Zenon, <1>2, FS_Subset DEF RedemptionsOf
  <2> QED BY <1>2, <2>1 DEF RedemptionRecord, RedemptionsOf, Amounts
<1>5. OneToOne(m, R, U)
  <2>1. \A r, s \in R : m[r] = m[s] => r = s
    BY <1>2, <1>3
  <2> QED BY Zenon, <2>1 DEF OneToOne
<1>6. StTokens(U) = StTokens(R) /\ IsFiniteSet(U)
  <2>1. \A r \in R : m[r]["st"] = r["st"]
    BY Zenon, <1>3
  <2> HIDE DEF R, U, m
  <2> QED BY <1>4, <1>5, <2>1, TotalImage DEF StTokens
<1>7. \A d \in U : d \in RedemptionRecord /\ d.unbondingId = a /\ d.native = NativeAmount(d.st, rate)
  BY Zenon, <1>3
<1>8. Natives(U) \in Nat
  <2>1. \A d \in U : d["native"] \in Nat
    BY Zenon, <1>7 DEF RedemptionRecord
  <2> HIDE DEF U
  <2> QED BY Zenon, <1>6, <2>1, TotalNat DEF Natives
<1>9. RedemptionsOf(a)' = U
  BY Zenon, <1>1, <1>7 DEF RedemptionsOf
<1>10. \A id : id # a => RedemptionsOf(id)' = RedemptionsOf(id)
  BY Zenon, <1>1, <1>7 DEF RedemptionsOf
<1>11. IsFiniteSet(redemptionRecords')
  <2>1. IsFiniteSet(redemptionRecords \ R)
    BY Zenon, <1>2, FS_Subset
  <2> QED BY Zenon, <1>1, <1>6, <2>1, FS_Union
<1>12. \A c, d \in redemptionRecords' :
            c.unbondingId = d.unbondingId /\ c.redeemer = d.redeemer => c = d
  <2> SUFFICES ASSUME NEW c \in redemptionRecords', NEW d \in redemptionRecords',
                      c.unbondingId = d.unbondingId, c.redeemer = d.redeemer
               PROVE  c = d
    BY Zenon
  <2>1. CASE c \in U
    <3>1. d \in U
      BY Zenon, <1>1, <1>7, <2>1 DEF RedemptionsOf
    <3> QED BY <1>2, <1>3, <2>1, <3>1
  <2>2. CASE c \in redemptionRecords \ R
    <3>1. d \in redemptionRecords \ R
      BY Zenon, <1>1, <1>7, <2>2 DEF RedemptionsOf
    <3> QED BY Zenon, <1>2, <2>2, <3>1
  <2> QED BY Zenon, <1>1, <2>1, <2>2
<1>13. RedemptionsOK'
  BY Zenon, <1>1, <1>2, <1>7, <1>11, <1>12 DEF RedemptionsOK
<1>14. \A d \in redemptionRecords' : \E c \in redemptionRecords : c.unbondingId = d.unbondingId
  BY Zenon, <1>1, <1>3
<1> QED BY Zenon, <1>6, <1>7, <1>8, <1>9, <1>10, <1>13, <1>14 DEF g

\* A day without PrepareUndelegation only counts the days down.
LEMMA DayWithoutUndelegation ==
    ASSUME UnbondingsOK, RedemptionsOK, UndelegationsOK, RecordsAddUp,
           host'.undelegations = Aged(host.undelegations),
           unbondingRecords' = Aged(unbondingRecords), redemptionRecords' = redemptionRecords
    PROVE  /\ UnbondingsOK' /\ RedemptionsOK' /\ UndelegationsOK' /\ RecordsAddUp'
           /\ Natives(Undelegated)' = Natives(Undelegated)
           /\ StTokens(Escrowed)' = StTokens(Escrowed)
           /\ IdsOf(unbondingRecords') = IdsOf(unbondingRecords)
<1> PICK U : U = Aged(unbondingRecords)
  BY Zenon
<1> PICK V : V = Aged(host.undelegations)
  BY Zenon
<1>1. /\ IsFiniteSet(U) /\ \A r \in U : r \in UnbondingRecord
      /\ \A r, s \in U : r.id = s.id => r = s
      /\ \A r \in U : ~Undelegating(r) => r.left = 0
      /\ IdsOf(U) = IdsOf(unbondingRecords)
      /\ Natives({r \in U : Undelegating(r)}) = Natives(Undelegated)
      /\ StTokens({r \in U : ~Undelegating(r)}) = StTokens(Escrowed)
      /\ \A r \in U : \E s \in unbondingRecords :
                 /\ r.id = s.id /\ r.native = s.native /\ r.st = s.st /\ r.status = s.status
                 /\ r.left = IF s.left = 0 THEN 0 ELSE s.left - 1
  BY Zenon, AgedUnbondings
<1>2. /\ IsFiniteSet(V) /\ \A u \in V : u \in Undelegation /\ u.left <= UnbondingPeriod
      /\ \A u, v \in V : u.id = v.id => u = v
  BY AgedUndelegations
<1>3. \A r \in U, u \in V : r.id = u.id => Coupled(r, u)
  BY Zenon, AgedTogether
<1>4. unbondingRecords' = U /\ host'.undelegations = V
  BY Zenon
<1>5. UnbondingsOK'
  BY Zenon, <1>1, <1>4 DEF UnbondingsOK, Undelegating
<1>6. UndelegationsOK'
  BY Zenon, <1>2, <1>3, <1>4 DEF UndelegationsOK
<1>7. RedemptionsOK'
  BY Zenon DEF RedemptionsOK
<1>8. RecordsAddUp'
  <2>1. \A r \in U : \E s \in unbondingRecords : r.id = s.id /\ r.native = s.native /\ r.st = s.st
    BY Zenon, <1>1
  <2> QED BY <1>4, <2>1 DEF RecordsAddUp, RedemptionsOf
<1>9. Natives(Undelegated)' = Natives(Undelegated) /\ StTokens(Escrowed)' = StTokens(Escrowed)
  BY Zenon, <1>1, <1>4 DEF Undelegated, Escrowed, Undelegating
<1>10. IdsOf(unbondingRecords') = IdsOf(unbondingRecords)
  BY Zenon, <1>1, <1>4
<1> QED BY Zenon, <1>5, <1>6, <1>7, <1>8, <1>9, <1>10

\* PrepareUndelegation queues the accumulating record at the new rate and opens the next one.
LEMMA UndelegationPrepared ==
    ASSUME UnbondingsOK, RedemptionsOK, UndelegationsOK, RecordsAddUp, AccumulatingFound,
           host'.undelegations = Aged(host.undelegations),
           NEW z, ~z.halted, z.rate \in Nat, PrepareUndelegation(z, Aged(unbondingRecords))
    PROVE  /\ UnbondingsOK' /\ RedemptionsOK' /\ UndelegationsOK' /\ RecordsAddUp'
           /\ Natives(Undelegated)' = Natives(Undelegated)
           /\ \A d \in redemptionRecords' : \E c \in redemptionRecords : c.unbondingId = d.unbondingId
           /\ (\A d \in redemptionRecords' : NativeAmount(d.st, z.rate) > 0) =>
                 /\ StTokens(Escrowed)' = StTokens(Escrowed)
                 /\ \A d \in redemptionRecords' : d.unbondingId \in IdsOf(unbondingRecords)
                                                     => d.unbondingId \in IdsOf(unbondingRecords')
<1> PICK U : U = Aged(unbondingRecords)
  BY Zenon
<1> PICK V : V = Aged(host.undelegations)
  BY Zenon
<1> PICK a : a = Accumulating
  BY Zenon
<1> PICK used : used = IdsOf(unbondingRecords) \cup IdsOf(host.undelegations)
                           \cup {r.unbondingId : r \in redemptionRecords}
  BY Zenon
<1> PICK id : id = FreshId(used)
  BY Zenon
<1> PICK total : total = Natives({Refreshed(r, z.rate) : r \in RedemptionsOf(a.id)})
  BY Zenon
<1> DEFINE new == AccumulatingRecord(id)
           frozen == [a EXCEPT !.status = "UNBONDING_QUEUE", !.native = total]
           X == IF total = 0 THEN {} ELSE {frozen}
<1>1. /\ redemptionRecords' = (redemptionRecords \ RedemptionsOf(a.id))
                                   \cup {Refreshed(r, z.rate) : r \in RedemptionsOf(a.id)}
      /\ unbondingRecords' = (U \ {a}) \cup {new} \cup X
  BY Zenon DEF PrepareUndelegation
<1>2. a \in unbondingRecords /\ a.status = "ACCUMULATING_REDEMPTIONS"
  BY Zenon, AccumulatingExists
<1>3. /\ IsFiniteSet(U) /\ \A r \in U : r \in UnbondingRecord
      /\ \A r, s \in U : r.id = s.id => r = s
      /\ \A r \in U : ~Undelegating(r) => r.left = 0
      /\ IdsOf(U) = IdsOf(unbondingRecords)
      /\ Natives({r \in U : Undelegating(r)}) = Natives(Undelegated)
      /\ StTokens({r \in U : ~Undelegating(r)}) = StTokens(Escrowed)
      /\ \A r \in unbondingRecords : ~Undelegating(r) => r \in U
      /\ \A r \in U : \E s \in unbondingRecords :
                 /\ r.id = s.id /\ r.native = s.native /\ r.st = s.st /\ r.status = s.status
                 /\ r.left = IF s.left = 0 THEN 0 ELSE s.left - 1
  BY Zenon, AgedUnbondings
<1>4. /\ IsFiniteSet(V) /\ \A u \in V : u \in Undelegation /\ u.left <= UnbondingPeriod
      /\ \A u, v \in V : u.id = v.id => u = v
      /\ \A u \in V : \E v \in host.undelegations :
                 /\ u.id = v.id /\ u.native = v.native /\ u.status = v.status
                 /\ u.left = IF v.left = 0 THEN 0 ELSE v.left - 1
  BY Zenon, AgedUndelegations
<1>5. a \in U /\ a \in UnbondingRecord /\ a.left = 0 /\ ~Undelegating(a)
  BY Zenon, <1>2, <1>3 DEF Undelegating
<1>6. a.id \in Nat /\ a.st \in Nat
  BY Zenon, <1>5 DEF UnbondingRecord
<1>7. RedemptionsRefreshed(a.id, z.rate)
  BY Zenon, <1>1 DEF RedemptionsRefreshed
<1>8. /\ RedemptionsOK'
      /\ RedemptionsOf(a.id)' = {Refreshed(r, z.rate) : r \in RedemptionsOf(a.id)}
      /\ StTokens(RedemptionsOf(a.id))' = StTokens(RedemptionsOf(a.id))
      /\ Natives(RedemptionsOf(a.id))' \in Nat
      /\ \A d \in RedemptionsOf(a.id)' : d.native = NativeAmount(d.st, z.rate)
      /\ \A i : i # a.id => RedemptionsOf(i)' = RedemptionsOf(i)
      /\ \A d \in redemptionRecords' : \E c \in redemptionRecords : c.unbondingId = d.unbondingId
  BY Zenon, <1>6, <1>7, RefreshedRedemptions
<1>9. total = Natives(RedemptionsOf(a.id))' /\ total \in Nat
  BY Zenon, <1>8
<1>10. id \in Nat /\ id \notin used
  <2>1. IsFiniteSet(IdsOf(unbondingRecords)) /\ IsFiniteSet(IdsOf(host.undelegations))
    BY Zenon, IdsFinite DEF UnbondingsOK, UndelegationsOK
  <2>2. IsFiniteSet({r.unbondingId : r \in redemptionRecords})
    <3> DEFINE f == [r \in redemptionRecords |-> r.unbondingId]
    <3>1. f \in Surjection(redemptionRecords, {r.unbondingId : r \in redemptionRecords})
      BY Zenon DEF Surjection
    <3> QED BY Zenon, <3>1, FS_Surjection DEF RedemptionsOK
  <2>3. IsFiniteSet(IdsOf(unbondingRecords) \cup IdsOf(host.undelegations))
    BY Zenon, <2>1, FS_Union
  <2>4. IsFiniteSet(used)
    BY Zenon, <2>2, <2>3, FS_Union
  <2> QED BY Zenon, <2>4, FreshIdNat
<1>11. /\ \A r \in U : r.id # id
       /\ \A u \in V : u.id # id
       /\ \A d \in redemptionRecords : d.unbondingId # id
  <2>1. id \notin IdsOf(U)
    BY Zenon, <1>3, <1>10
  <2>2. id \notin IdsOf(host.undelegations)
    BY Zenon, <1>10
  <2>3. \A v \in host.undelegations : v.id # id
    BY Zenon, <2>2 DEF IdsOf
  <2>4. \A u \in V : u.id # id
    BY <1>4, <2>3
  <2>5. \A r \in U : r.id # id
    BY Zenon, <2>1 DEF IdsOf
  <2>6. \A d \in redemptionRecords : d.unbondingId # id
    BY Zenon, <1>10
  <2> QED BY Zenon, <2>4, <2>5, <2>6
<1>12. /\ new \in UnbondingRecord /\ new.id = id /\ new.st = 0 /\ new.native = 0 /\ new.left = 0
       /\ new.status = "ACCUMULATING_REDEMPTIONS" /\ ~Undelegating(new)
  BY Zenon, <1>10 DEF AccumulatingRecord, UnbondingRecord, Undelegating
<1>13. /\ frozen \in UnbondingRecord /\ frozen.id = a.id /\ frozen.st = a.st /\ frozen.native = total
       /\ frozen.left = 0 /\ frozen.status = "UNBONDING_QUEUE" /\ ~Undelegating(frozen)
  BY Zenon, <1>5, <1>9 DEF UnbondingRecord, Undelegating
<1> HIDE DEF new, frozen
<1>14. \A r \in unbondingRecords' : \/ r \in U /\ r # a
                                    \/ r = new
                                    \/ r = frozen /\ total # 0
  BY Zenon, <1>1
<1>15. UnbondingsOK'
  <2>1. IsFiniteSet(unbondingRecords')
    <3>1. IsFiniteSet(U \ {a})
      BY Zenon, <1>3, FS_RemoveElement
    <3>2. IsFiniteSet((U \ {a}) \cup {new})
      BY Zenon, <3>1, FS_AddElement
    <3>3. IsFiniteSet((U \ {a}) \cup {new} \cup {frozen})
      BY Zenon, <3>2, FS_AddElement
    <3>4. unbondingRecords' \subseteq (U \ {a}) \cup {new} \cup {frozen}
      BY Zenon, <1>1
    <3> HIDE DEF X
    <3> QED BY Zenon, <3>3, <3>4, FS_Subset
  <2>2. \A r \in unbondingRecords' : r \in UnbondingRecord /\ (~Undelegating(r) => r.left = 0)
    BY Zenon, <1>3, <1>12, <1>13, <1>14
  <2>3. \A r, s \in unbondingRecords' : r.id = s.id => r = s
    <3>1. \A r \in U : r # a => r.id # a.id /\ r.id # id
      BY Zenon, <1>3, <1>5, <1>11
    <3>2. a.id # id
      BY Zenon, <1>5, <1>11
    <3>3. new.id = id /\ frozen.id = a.id
      BY Zenon, <1>12, <1>13
    <3>4. \A r, s \in U : r.id = s.id => r = s
      BY Zenon, <1>3
    <3> QED BY Zenon, <1>14, <3>1, <3>2, <3>3, <3>4
  <2> QED BY Zenon, <2>1, <2>2, <2>3 DEF UnbondingsOK, Undelegating
<1>16. UndelegationsOK'
  <2>1. ASSUME NEW r \in unbondingRecords', NEW u \in V, r.id = u.id
        PROVE  Coupled(r, u)
    <3>1. \A s \in U : s.id = u.id => Coupled(s, u)
      BY Zenon, AgedTogether
    <3>2. a.id # u.id
      BY Zenon, <1>2, <1>5, <3>1
    <3>3. r \in U
      BY Zenon, <1>11, <1>12, <1>13, <1>14, <2>1, <3>2
    <3> QED BY Zenon, <2>1, <3>1, <3>3
  <2> QED BY <1>4, <2>1 DEF UndelegationsOK
<1>17. RecordsAddUp'
  <2> SUFFICES ASSUME NEW q \in unbondingRecords'
               PROVE  q.native = Natives(RedemptionsOf(q.id))' /\ q.st = StTokens(RedemptionsOf(q.id))'
    BY Zenon DEF RecordsAddUp
  <2>1. CASE q = frozen
    <3>1. a.st = StTokens(RedemptionsOf(a.id))
      BY Zenon, <1>2 DEF RecordsAddUp
    <3> QED BY Zenon, <1>8, <1>9, <1>13, <2>1, <3>1
  <2>2. CASE q = new
    <3>1. RedemptionsOf(id) = {} /\ id # a.id
      BY Zenon, <1>5, <1>11 DEF RedemptionsOf
    <3>2. RedemptionsOf(q.id)' = {}
      BY Zenon, <1>8, <1>12, <2>2, <3>1
    <3> QED BY Zenon, <1>12, <2>2, <3>2, TotalEmpty DEF Natives, StTokens
  <2>3. CASE q \in U /\ q # a
    <3>1. PICK s \in unbondingRecords : q.id = s.id /\ q.native = s.native /\ q.st = s.st
      BY Zenon, <1>3, <2>3
    <3>2. RedemptionsOf(q.id)' = RedemptionsOf(q.id)
      BY Zenon, <1>3, <1>5, <1>8, <2>3
    <3> QED BY Zenon, <3>1, <3>2 DEF RecordsAddUp
  <2> QED BY Zenon, <1>14, <2>1, <2>2, <2>3
<1>18. Natives(Undelegated)' = Natives(Undelegated)
  <2>1. Undelegated' = {r \in U : Undelegating(r)}
    BY Zenon, <1>1, <1>5, <1>12, <1>13 DEF Undelegated, Undelegating
  <2> QED BY Zenon, <1>3, <2>1
<1>19. ASSUME \A d \in redemptionRecords' : NativeAmount(d.st, z.rate) > 0
       PROVE  /\ StTokens(Escrowed)' = StTokens(Escrowed)
              /\ \A d \in redemptionRecords' : d.unbondingId \in IdsOf(unbondingRecords)
                                                  => d.unbondingId \in IdsOf(unbondingRecords')
  <2> DEFINE E == {r \in U : ~Undelegating(r)}
             B == E \ {a}
             A == B \cup {new}
  <2>1. IsFiniteSet(E) /\ Amounts("st", E)
    <3>1. IsFiniteSet(E)
      BY Zenon, <1>3, FS_Subset
    <3> QED BY <1>3, <3>1 DEF Amounts, UnbondingRecord
  <2>2. /\ a \in E /\ B = E \ {a} /\ A = B \cup {new} /\ new \notin B
        /\ Amounts("st", A) /\ StTokens(E) = StTokens(Escrowed)
    <3>1. a \in E /\ B = E \ {a} /\ A = B \cup {new}
      BY Zenon, <1>5
    <3>2. new \notin B
      BY Zenon, <1>11, <1>12
    <3>3. new.st \in Int
      <4>1. 0 \in Int
        OBVIOUS
      <4> QED BY Zenon, <1>12, <4>1
    <3>4. Amounts("st", A)
      BY Zenon, <2>1, <3>3 DEF Amounts
    <3>5. StTokens(E) = StTokens(Escrowed)
      BY Zenon, <1>3
    <3> QED BY Zenon, <3>1, <3>2, <3>4, <3>5
  <2>3. frozen \notin A
    BY Zenon, <1>3, <1>5, <1>11, <1>12, <1>13
  <2> HIDE DEF E, B, A
  <2>4. StTokens(B) = StTokens(E) - a.st /\ IsFiniteSet(B) /\ StTokens(E) \in Int
    BY Zenon, <2>1, <2>2, TotalRemove, TotalInt DEF StTokens
  <2>5. StTokens(A) = StTokens(B) + new.st /\ IsFiniteSet(A)
    <3>1. new \notin B /\ Amounts("st", B \cup {new}) /\ A = B \cup {new}
      BY Zenon, <2>2
    <3> QED BY Zenon, <2>4, <3>1, TotalAdd DEF StTokens
  <2>6. StTokens(A) = StTokens(Escrowed) - a.st
    BY <1>6, <1>12, <2>2, <2>4, <2>5
  <2>7. CASE total # 0
    <3>1. Escrowed' = A \cup {frozen}
      BY Zenon, <1>1, <1>12, <1>13, <2>7 DEF Escrowed, Undelegating, A, B, E
    <3> DEFINE W == A \cup {frozen}
    <3>6. frozen.st \in Int
      BY <1>6, <1>13
    <3>2. W = A \cup {frozen} /\ Amounts("st", W)
      BY Zenon, <2>2, <3>6 DEF Amounts
    <3> HIDE DEF W
    <3>3. StTokens(W) = StTokens(A) + frozen.st
      BY Zenon, <2>3, <2>5, <3>2, TotalAdd DEF StTokens
    <3>4. StTokens(W) = StTokens(Escrowed)
      BY <1>6, <1>13, <2>2, <2>4, <2>6, <3>3
    <3>5. \A i \in IdsOf(unbondingRecords) : i \in IdsOf(unbondingRecords')
      <4>1. \A r \in U : \E s \in unbondingRecords' : s.id = r.id
        BY Zenon, <1>1, <1>13, <2>7
      <4>2. IdsOf(unbondingRecords) = IdsOf(U)
        BY Zenon, <1>3
      <4> QED BY Zenon, <4>1, <4>2 DEF IdsOf
    <3> QED BY Zenon, <3>1, <3>2, <3>4, <3>5
  <2>8. CASE total = 0
    <3>1. Escrowed' = A
      BY Zenon, <1>1, <1>12, <2>8 DEF Escrowed, Undelegating, A, B, E
    <3>2. RedemptionsOf(a.id)' = {}
      <4> DEFINE R == RedemptionsOf(a.id)'
                 f == [d \in R |-> d["native"]]
      <4>1. \A d \in R : d \in redemptionRecords' /\ d.native > 0 /\ d.native \in Nat
        BY Zenon, <1>8, <1>19 DEF RedemptionsOf, RedemptionsOK, RedemptionRecord
      <4>2. IsFiniteSet(R)
        BY Zenon, <1>8, FS_Subset DEF RedemptionsOf, RedemptionsOK
      <4>3. \A d \in R : f[d] \in Nat /\ f[d] > 0
        BY Zenon, <4>1
      <4>4. SumFunctionOnSet(f, R) = 0
        BY Zenon, <1>9, <2>8 DEF Natives, Total
      <4> HIDE DEF f, R
      <4>5. \A d \in R : f[d] <= SumFunctionOnSet(f, R)
        BY Zenon, <4>2, <4>3, SumElement
      <4>6. R = {}
        BY <4>3, <4>4, <4>5
      <4> QED BY Zenon, <4>6 DEF R
    <3>3. a.st = 0
      BY Zenon, <1>2, <1>8, <3>2, TotalEmpty DEF RecordsAddUp, StTokens
    <3>4. \A d \in redemptionRecords' : d.unbondingId # a.id
      BY Zenon, <3>2 DEF RedemptionsOf
    <3>5. \A i \in IdsOf(unbondingRecords) : i # a.id => i \in IdsOf(unbondingRecords')
      BY Zenon, <1>1, <1>3 DEF IdsOf
    <3>6. StTokens(A) = StTokens(Escrowed)
      BY <2>2, <2>4, <2>6, <3>3
    <3> QED BY Zenon, <3>1, <3>4, <3>5, <3>6
  <2> QED BY Zenon, <2>7, <2>8
<1> QED BY Zenon, <1>8, <1>15, <1>16, <1>17, <1>18, <1>19

\* The day epoch: the rate update, PrepareDelegation and PrepareUndelegation in one step.
LEMMA DayEpochD ==
    ASSUME DInv, TInv', NEW sent \in BOOLEAN, DayEpoch(sent)
    PROVE  /\ DInv' /\ bank'.escrow = bank.escrow
           /\ \A d \in redemptionRecords' : \E c \in redemptionRecords : c.unbondingId = d.unbondingId
           /\ (\A d \in redemptionRecords' : NativeAmount(d.st, zone'.rate) > 0) =>
                 /\ StTokens(Escrowed)' = StTokens(Escrowed)
                 /\ \A d \in redemptionRecords' : d.unbondingId \in IdsOf(unbondingRecords)
                                                     => d.unbondingId \in IdsOf(unbondingRecords')
<1>1. /\ DOMAIN host = {"staked", "delegated", "undelegations", "slash"}
      /\ bank \in Bank
      /\ zone \in Zone
      /\ income \in Int /\ paid \in Int
  BY Zenon DEF DInv, BalancesOK
<1>2. /\ host'.delegated = host.delegated /\ host'.staked = host.staked /\ host'.slash = host.slash
      /\ host'.undelegations = Aged(host.undelegations)
      /\ DOMAIN host' = {"staked", "delegated", "undelegations", "slash"}
  BY Zenon, <1>1 DEF DayEpoch
<1>3. UNCHANGED <<stTokens, income, paid>>
  BY Zenon DEF DayEpoch, history
<1>4. /\ zone' \in Zone
      /\ zone'.delegated = zone.delegated
  BY Zenon, <1>1, UpdatedZoneOK DEF DayEpoch
<1>5. /\ DelegationsOK'
      /\ bank' \in Bank
      /\ bank'.fees = bank.fees /\ bank'.escrow = bank.escrow /\ bank'.claim = bank.claim
      /\ Natives(delegationRecords)' = Natives(delegationRecords) + (bank.deposit - bank'.deposit)
      /\ Natives(Unconfirmed)' = Natives(Unconfirmed)
  <2>1. CASE RateUpdatable
    <3>1. PrepareDelegation(zone', sent)
      BY Zenon, <2>1 DEF DayEpoch
    <3> QED BY Zenon, <1>1, <1>2, <3>1, PrepareDelegationD DEF DInv, Stores
  <2>2. CASE ~RateUpdatable
    <3>1. UNCHANGED <<delegationRecords, bank>>
      BY Zenon, <2>2 DEF DayEpoch
    <3>2. bank.deposit - bank'.deposit = 0 /\ Natives(delegationRecords) \in Int
      BY <1>1, <3>1, TotalsInt
    <3>3. /\ DelegationsOK' /\ Natives(delegationRecords)' = Natives(delegationRecords)
          /\ Natives(Unconfirmed)' = Natives(Unconfirmed)
      BY Zenon, <1>2, <3>1, DelegationsUnchanged DEF DInv, Stores
    <3> QED BY <1>1, <3>1, <3>2, <3>3
  <2> QED BY Zenon, <2>1, <2>2
<1>6. /\ UnbondingsOK' /\ RedemptionsOK' /\ UndelegationsOK' /\ RecordsAddUp'
      /\ Natives(Undelegated)' = Natives(Undelegated)
      /\ \A d \in redemptionRecords' : \E c \in redemptionRecords : c.unbondingId = d.unbondingId
      /\ (\A d \in redemptionRecords' : NativeAmount(d.st, zone'.rate) > 0) =>
            /\ StTokens(Escrowed)' = StTokens(Escrowed)
            /\ \A d \in redemptionRecords' : d.unbondingId \in IdsOf(unbondingRecords)
                                                => d.unbondingId \in IdsOf(unbondingRecords')
  <2>1. CASE ~zone'.halted /\ AccumulatingFound
             /\ PrepareUndelegation(zone', Aged(unbondingRecords))
    <3> PICK z : z = zone'
      BY Zenon
    <3>1. ~z.halted /\ z.rate \in Nat /\ PrepareUndelegation(z, Aged(unbondingRecords))
      BY Zenon, <1>4, <2>1
    <3>2. /\ UnbondingsOK' /\ RedemptionsOK' /\ UndelegationsOK' /\ RecordsAddUp'
          /\ Natives(Undelegated)' = Natives(Undelegated)
          /\ \A d \in redemptionRecords' : \E c \in redemptionRecords : c.unbondingId = d.unbondingId
          /\ (\A d \in redemptionRecords' : NativeAmount(d.st, z.rate) > 0) =>
                /\ StTokens(Escrowed)' = StTokens(Escrowed)
                /\ \A d \in redemptionRecords' : d.unbondingId \in IdsOf(unbondingRecords)
                                                    => d.unbondingId \in IdsOf(unbondingRecords')
      BY Zenon, <1>2, <2>1, <3>1, UndelegationPrepared DEF DInv, Stores
    <3> QED BY Zenon, <3>2
  <2>2. CASE unbondingRecords' = Aged(unbondingRecords) /\ redemptionRecords' = redemptionRecords
    <3>1. /\ UnbondingsOK' /\ RedemptionsOK' /\ UndelegationsOK' /\ RecordsAddUp'
          /\ Natives(Undelegated)' = Natives(Undelegated)
          /\ StTokens(Escrowed)' = StTokens(Escrowed)
          /\ IdsOf(unbondingRecords') = IdsOf(unbondingRecords)
      BY Zenon, <1>2, <2>2, DayWithoutUndelegation DEF DInv, Stores
    <3> QED BY Zenon, <2>2, <3>1
  <2> QED BY Zenon, <2>1, <2>2 DEF DayEpoch, PrepareUndelegation
<1>7. \A status : Natives(UndelegationsIn(status))' = Natives(UndelegationsIn(status))
  <2> TAKE status
  <2> PICK V : V = Aged(host.undelegations)
    BY Zenon
  <2>1. Natives({u \in V : u.status = status}) = Natives(UndelegationsIn(status))
    BY AgedUndelegations DEF DInv, Stores
  <2>2. UndelegationsIn(status)' = {u \in V : u.status = status}
    BY Zenon, <1>2 DEF UndelegationsIn
  <2> QED BY Zenon, <2>1, <2>2
<1>8. BalancesOK'
  BY Zenon, <1>2, <1>3, <1>4, <1>5 DEF DInv, BalancesOK
<1>9. /\ Natives(Undelegated) \in Int /\ Natives(delegationRecords) \in Int
      /\ bank.deposit \in Int /\ bank'.deposit \in Int /\ bank.fees \in Int /\ zone.delegated \in Int
  BY <1>1, <1>5, TotalsInt
<1>10. TokensAccounted'
  BY <1>1, <1>3, <1>4, <1>5, <1>6, <1>9 DEF DInv, TokensAccounted
<1>11. ClaimsCovered' /\ StakeTracked'
  BY Zenon, <1>2, <1>4, <1>5, <1>6, <1>7 DEF DInv, ClaimsCovered, StakeTracked
<1> QED BY Zenon, <1>5, <1>6, <1>8, <1>10, <1>11 DEF DInv, Stores

\* The invariant holds at genesis and is preserved by every action,
LEMMA InitDInv == Init => DInv
<1> SUFFICES ASSUME Init PROVE DInv
  BY Zenon
<1> DEFINE a == AccumulatingRecord(1)
<1>1. /\ a \in UnbondingRecord /\ a.id = 1 /\ a.st = 0 /\ a.native = 0 /\ a.left = 0 /\ ~Undelegating(a)
  BY Zenon DEF AccumulatingRecord, UnbondingRecord, Undelegating
<1>2. unbondingRecords = {a}
  BY Zenon DEF Init
<1> HIDE DEF a
<1>3. IsFiniteSet(unbondingRecords)
  BY Zenon, <1>2, FS_Singleton
<1>4. UnbondingsOK
  BY Zenon, <1>1, <1>2, <1>3 DEF UnbondingsOK
<1>5. BalancesOK
  BY StakeDymAssumptions, PrecisionAssumption DEF Init, BalancesOK
<1>6. DelegationsOK /\ RedemptionsOK /\ UndelegationsOK
  BY Zenon, FS_EmptySet DEF Init, DelegationsOK, RedemptionsOK, UndelegationsOK
<1>7. \A id : RedemptionsOf(id) = {}
  BY Zenon DEF Init, RedemptionsOf
<1>8. Natives({}) = 0 /\ StTokens({}) = 0
  BY Zenon, TotalEmpty DEF Natives, StTokens
<1>9. RecordsAddUp
  BY Zenon, <1>1, <1>2, <1>7, <1>8 DEF RecordsAddUp
<1>10. Undelegated = {} /\ Unconfirmed = {} /\ \A status : UndelegationsIn(status) = {}
  BY Zenon, <1>1, <1>2 DEF Init, Undelegated, Unconfirmed, UndelegationsIn
<1>11. TokensAccounted /\ ClaimsCovered /\ StakeTracked
  <2>1. /\ Natives(Undelegated) = 0 /\ Natives(Unconfirmed) = 0
        /\ \A status : Natives(UndelegationsIn(status)) = 0
    BY Zenon, <1>8, <1>10
  <2> QED BY <1>8, <1>10, <2>1 DEF Init, TokensAccounted, ClaimsCovered, StakeTracked
<1> QED BY Zenon, <1>4, <1>5, <1>6, <1>9, <1>11, InitTInv DEF DInv, Stores

\* one step per action,
LEMMA NextDInv == DInv /\ [Next]_vars => DInv'
<1> SUFFICES ASSUME DInv, [Next]_vars PROVE DInv'
  BY Zenon
<1>a. TInv'
  BY Zenon, NextTInv DEF DInv
<1>b. zone \in Zone
  BY Zenon DEF DInv, BalancesOK
<1>1. CASE UNCHANGED vars
  BY Zenon, <1>a, <1>b, <1>1, ZoneStep DEF vars, recordVars, history
<1>2. ASSUME NEW u \in Users, NEW n \in StakeAmounts, LiquidStake(u, n) PROVE DInv'
  BY Zenon, <1>a, <1>2, LiquidStakeD
<1>3. ASSUME NEW u \in Users, NEW n \in RedeemAmounts, RedeemStake(u, n) PROVE DInv'
  BY Zenon, <1>a, <1>3, RedeemStakeD
<1>4. ASSUME NEW sent \in BOOLEAN, DayEpoch(sent) PROVE DInv'
  BY Zenon, <1>a, <1>4, DayEpochD
<1>5. CASE HourEpoch
  BY Zenon, <1>a, <1>5, HourEpochD
<1>6. CASE LiquidStakeAndDistributeFees
  BY Zenon, <1>a, <1>6, DistributeFeesD
<1>7. CASE BeginBlocker \/ ResumeHostZone
  BY Zenon, <1>a, <1>b, <1>7, ZoneStep DEF BeginBlocker, ResumeHostZone
<1>8. CASE RefreshRedemptionRate
  BY Zenon, <1>a, <1>b, <1>8, ZoneStep, UpdatedZoneOK DEF RefreshRedemptionRate
<1>9. ASSUME NEW b \in InnerBounds, UpdateInnerRedemptionRateBounds(b) PROVE DInv'
  BY Zenon, <1>a, <1>b, <1>9, ZoneStep DEF UpdateInnerRedemptionRateBounds
<1>10. ASSUME NEW t \in transfers, NEW accepted \in BOOLEAN, HostReceivesTransfer(t, accepted)
       PROVE  DInv'
  BY Zenon, <1>a, <1>b, <1>10, ZoneStep DEF HostReceivesTransfer
<1>11. ASSUME NEW t \in transfers, OnAcknowledgementPacket(t) PROVE DInv'
  BY Zenon, <1>a, <1>11, TransferEndsD DEF OnAcknowledgementPacket
<1>12. ASSUME NEW t \in transfers, OnTimeoutPacket(t) PROVE DInv'
  BY Zenon, <1>a, <1>12, TransferEndsD DEF OnTimeoutPacket
<1>13. ASSUME NEW r \in delegationRecords, HostDelegates(r) PROVE DInv'
  BY Zenon, <1>a, <1>13, HostDelegatesD
<1>14. ASSUME NEW r \in delegationRecords, ConfirmDelegation(r) PROVE DInv'
  BY Zenon, <1>a, <1>14, ConfirmDelegationD
<1>15. ASSUME NEW r \in unbondingRecords, HostUndelegates(r) PROVE DInv'
  BY <1>a, <1>15, HostUndelegatesD
<1>16. ASSUME NEW r \in unbondingRecords, ConfirmUnbondedTokenSweep(r) PROVE DInv'
  BY Zenon, <1>a, <1>16, ConfirmSweepD
<1>17. ASSUME NEW r \in unbondingRecords, NEW u \in host.undelegations, ConfirmUndelegation(r, u)
       PROVE  DInv'
  BY Zenon, <1>a, <1>17, ConfirmUndelegationD
<1>18. ASSUME NEW u \in host.undelegations, HostSweeps(u) PROVE DInv'
  BY <1>a, <1>18, HostSweepsD
<1>19. CASE RewardsArrive
  BY <1>a, <1>19, RewardsArriveD
<1>20. CASE HostSlashed
  BY Zenon, <1>a, <1>20, HostSlashedD
<1>21. CASE AdjustDelegatedBalance
  BY <1>a, <1>21, AdjustD
<1> QED
  BY Zenon, <1>1, <1>2, <1>3, <1>4, <1>5, <1>6, <1>7, <1>8, <1>9, <1>10, <1>11, <1>12, <1>13, <1>14,
     <1>15, <1>16, <1>17, <1>18, <1>19, <1>20, <1>21 DEF Next

\* and it implies the two properties.
LEMMA DInvMeaning == DInv => NothingLost /\ HostTracked
<1> SUFFICES ASSUME DInv PROVE NothingLost /\ HostTracked
  BY Zenon
<1>1. NothingLost
  <2>1. bank.claim \in Int /\ Natives(UndelegationsIn("confirmed")) \in Int /\ Natives(Undelegated) \in Int
    BY TotalsInt DEF DInv, BalancesOK
  <2>2. bank.claim + Natives(UndelegationsIn("confirmed")) = Natives(Undelegated)
    BY <2>1 DEF DInv, ClaimsCovered
  <2> QED BY Zenon, <2>2 DEF DInv, TokensAccounted, NothingLost, Undelegated
<1>2. HostTracked
  <2>1. /\ zone.delegated \in Int /\ host.staked \in Int /\ host.slash \in Int
        /\ Natives(Unconfirmed) \in Int /\ Natives(UndelegationsIn("submitted")) \in Int
    BY TotalsInt DEF DInv, BalancesOK
  <2>2. zone.delegated + Natives(Unconfirmed)
          = host.staked + Natives(UndelegationsIn("submitted")) + host.slash
    BY <2>1 DEF DInv, StakeTracked
  <2>3. \A r \in WithStatus("UNBONDED") \cup WithStatus("CLAIMABLE"), u \in host.undelegations :
          r.id = u.id => u.left = 0
    BY Zenon DEF DInv, Stores, UndelegationsOK, WithStatus
  <2> QED BY Zenon, <2>2, <2>3 DEF HostTracked, Unconfirmed
<1> QED BY Zenon, <1>1, <1>2

\* Whatever users, operators, packets and epochs do, every token that came in (deposits and
\* rewards) is in exactly one place of the books: deposit or fee account, a delegation record,
\* the delegated balance, an unbonding record that is being undelegated, or paid out; and the
\* claim account always covers what the swept records still owe (x/stakedym/keeper).
THEOREM NothingEverLost == Spec => []NothingLost
<1>1. DInv /\ [Next]_vars => DInv'
  BY Zenon, NextDInv
<1>2. DInv => NothingLost
  BY Zenon, DInvMeaning
<1> QED BY <1>1, <1>2, InitDInv, PTL DEF Spec

\* The delegated balance Stride keeps is what is staked on the host, up to delegations and
\* undelegations the operators have done and not yet confirmed and slashes not yet adjusted for,
\* and a record is claimable only when its undelegation has completed.
THEOREM HostAlwaysTracked == Spec => []HostTracked
<1>1. DInv /\ [Next]_vars => DInv'
  BY NextDInv
<1>2. DInv => HostTracked
  BY Zenon, DInvMeaning
<1> QED BY <1>1, <1>2, InitDInv, PTL DEF Spec

\* No redemption is worth less than one native token at the current rate. RedeemStake has no
\* such check; MsgRedeemStake asks for at least 100000 stTokens (x/stakedym/types/msgs.go:119),
\* which makes it true at every rate above 0.00001.
Dustless == \A d \in redemptionRecords : NativeAmount(d.st, zone.rate) > 0

\* The escrow account holds the stTokens of the records not yet undelegated, and no redemption
\* is orphaned. PrepareUndelegation archives a record whose refreshed native total is zero
\* (x/stakedym/keeper/unbonding.go:142-146), and with it what its redemptions say, so this part
\* needs Dustless.
EInv ==
    /\ bank.escrow = StTokens(Escrowed)
    /\ \A d \in redemptionRecords : d.unbondingId \in IdsOf(unbondingRecords)

\* The escrow invariant holds at genesis
LEMMA InitEInv == Init => EInv
<1> SUFFICES ASSUME Init PROVE EInv
  OBVIOUS
<1> DEFINE a == AccumulatingRecord(1)
<1>1. a \in unbondingRecords /\ unbondingRecords = {a} /\ a.st = 0 /\ ~Undelegating(a)
  BY Zenon DEF Init, AccumulatingRecord, Undelegating
<1> HIDE DEF a
<1>2. Escrowed = {a}
  BY Zenon, <1>1 DEF Escrowed
<1> DEFINE W == {a}
<1>3. W = {} \cup {a} /\ Amounts("st", W) /\ IsFiniteSet({})
  BY <1>1, FS_EmptySet DEF Amounts
<1> HIDE DEF W
<1>4. StTokens(W) = StTokens({}) + a.st
  BY Zenon, <1>3, TotalAdd DEF StTokens
<1>5. StTokens(W) = 0
  BY <1>1, <1>4, TotalEmpty DEF StTokens
<1> QED BY Zenon, <1>2, <1>5 DEF Init, EInv, W

\* and is preserved by every step after which no redemption is worth zero.
LEMMA NextEInv == DInv /\ EInv /\ Dustless' /\ [Next]_vars => EInv'
<1> SUFFICES ASSUME DInv, EInv, Dustless', [Next]_vars PROVE EInv'
  BY Zenon
<1>a. TInv'
  BY Zenon, NextTInv DEF DInv
<1>b. bank \in Bank /\ StTokens(Escrowed) \in Int
  BY Zenon, TotalsInt DEF DInv, BalancesOK
<1>1. ASSUME UNCHANGED <<unbondingRecords, redemptionRecords>>, bank'.escrow = bank.escrow
      PROVE  EInv'
  <2>1. Escrowed' = Escrowed
    BY Zenon, <1>1 DEF Escrowed, Undelegating
  <2> QED BY Zenon, <1>1, <2>1 DEF EInv
<1>2. CASE UNCHANGED vars
  BY Zenon, <1>1, <1>2 DEF vars
<1>3. ASSUME NEW u \in Users, NEW n \in StakeAmounts, LiquidStake(u, n) PROVE EInv'
  <2>1. bank'.escrow = bank.escrow /\ UNCHANGED <<unbondingRecords, redemptionRecords>>
    BY Zenon, <1>b, <1>3 DEF LiquidStake, Minted, recordVars
  <2> QED BY Zenon, <1>1, <2>1
<1>4. ASSUME NEW u \in Users, NEW n \in RedeemAmounts, RedeemStake(u, n) PROVE EInv'
  <2>1. /\ bank'.escrow = bank.escrow + n
        /\ StTokens(Escrowed)' = StTokens(Escrowed) + n
        /\ IdsOf(unbondingRecords)' = IdsOf(unbondingRecords)
        /\ \A d \in redemptionRecords' :
              \/ d.unbondingId \in IdsOf(unbondingRecords)
              \/ \E c \in redemptionRecords : c.unbondingId = d.unbondingId
    BY Zenon, <1>a, <1>4, RedeemStakeD
  <2> QED BY Zenon, <2>1 DEF EInv
<1>5. ASSUME NEW sent \in BOOLEAN, DayEpoch(sent) PROVE EInv'
  <2>1. /\ bank'.escrow = bank.escrow
        /\ \A d \in redemptionRecords' : \E c \in redemptionRecords : c.unbondingId = d.unbondingId
        /\ (\A d \in redemptionRecords' : NativeAmount(d.st, zone'.rate) > 0) =>
              /\ StTokens(Escrowed)' = StTokens(Escrowed)
              /\ \A d \in redemptionRecords' : d.unbondingId \in IdsOf(unbondingRecords)
                                                  => d.unbondingId \in IdsOf(unbondingRecords')
    BY Zenon, <1>a, <1>5, DayEpochD
  <2>2. \A d \in redemptionRecords' : NativeAmount(d.st, zone'.rate) > 0
    BY Zenon DEF Dustless, NativeAmount, TruncateInt, Mul, NewDecFromInt
  <2> QED BY Zenon, <2>1, <2>2 DEF EInv
<1>6. CASE HourEpoch
  <2>1. /\ bank'.escrow = bank.escrow
        /\ StTokens(Escrowed)' = StTokens(Escrowed)
        /\ redemptionRecords' \subseteq redemptionRecords
        /\ \A d \in redemptionRecords' :
              d.unbondingId \in IdsOf(unbondingRecords) => d.unbondingId \in IdsOf(unbondingRecords')
    BY Zenon, <1>a, <1>6, HourEpochD
  <2> QED BY Zenon, <2>1 DEF EInv
<1>7. CASE LiquidStakeAndDistributeFees
  <2>1. bank'.escrow = bank.escrow /\ UNCHANGED <<unbondingRecords, redemptionRecords>>
    BY Zenon, <1>b, <1>7 DEF LiquidStakeAndDistributeFees, Minted, recordVars
  <2> QED BY Zenon, <1>1, <2>1
<1>8. CASE \/ BeginBlocker \/ ResumeHostZone \/ RefreshRedemptionRate
           \/ \E b \in InnerBounds : UpdateInnerRedemptionRateBounds(b)
           \/ \E t \in transfers, accepted \in BOOLEAN : HostReceivesTransfer(t, accepted)
           \/ \E r \in delegationRecords : HostDelegates(r) \/ ConfirmDelegation(r)
           \/ \E r \in unbondingRecords : HostUndelegates(r)
           \/ HostSlashed \/ AdjustDelegatedBalance
  BY Zenon, <1>1, <1>8 DEF BeginBlocker, ResumeHostZone, RefreshRedemptionRate,
     UpdateInnerRedemptionRateBounds, HostReceivesTransfer, HostDelegates, ConfirmDelegation,
     HostUndelegates, HostSlashed, AdjustDelegatedBalance, recordVars
<1>9. ASSUME NEW t \in transfers, OnAcknowledgementPacket(t) \/ OnTimeoutPacket(t) PROVE EInv'
  <2>1. bank'.escrow = bank.escrow /\ UNCHANGED <<unbondingRecords, redemptionRecords>>
    BY Zenon, <1>b, <1>9 DEF OnAcknowledgementPacket, OnTimeoutPacket, FailedTransfer
  <2> QED BY Zenon, <1>1, <2>1
<1>10. ASSUME NEW r \in unbondingRecords, ConfirmUnbondedTokenSweep(r) PROVE EInv'
  <2>1. /\ bank' = bank /\ redemptionRecords' = redemptionRecords
        /\ StTokens(Escrowed)' = StTokens(Escrowed)
        /\ IdsOf(unbondingRecords)' = IdsOf(unbondingRecords)
    BY Zenon, <1>a, <1>10, ConfirmSweepD
  <2> QED BY Zenon, <2>1 DEF EInv
<1>11. ASSUME NEW r \in unbondingRecords, NEW u \in host.undelegations, ConfirmUndelegation(r, u)
       PROVE  EInv'
  <2>1. /\ bank'.escrow = bank.escrow - r.st /\ Escrowed' = Escrowed \ {r} /\ r \in Escrowed
        /\ IdsOf(unbondingRecords)' = IdsOf(unbondingRecords)
    BY Zenon, <1>a, <1>11, ConfirmUndelegationD
  <2>2. redemptionRecords' = redemptionRecords
    BY Zenon, <1>11 DEF ConfirmUndelegation
  <2>3. IsFiniteSet(Escrowed) /\ Amounts("st", Escrowed)
    BY Zenon, SetsOK DEF DInv, Stores
  <2> DEFINE W == Escrowed'
  <2>4. W = Escrowed \ {r}
    BY Zenon, <2>1
  <2> HIDE DEF W
  <2>5. StTokens(W) = StTokens(Escrowed) - r.st
    BY Zenon, <2>1, <2>3, <2>4, TotalRemove DEF StTokens
  <2> QED BY Zenon, <2>1, <2>2, <2>5 DEF EInv, W
<1>12. ASSUME NEW u \in host.undelegations, HostSweeps(u) PROVE EInv'
  <2>1. bank'.escrow = bank.escrow /\ UNCHANGED <<unbondingRecords, redemptionRecords>>
    BY Zenon, <1>b, <1>12 DEF HostSweeps, recordVars
  <2> QED BY Zenon, <1>1, <2>1
<1>13. CASE RewardsArrive
  <2>1. bank'.escrow = bank.escrow /\ UNCHANGED <<unbondingRecords, redemptionRecords>>
    BY Zenon, <1>b, <1>13 DEF RewardsArrive, recordVars
  <2> QED BY <1>1, <2>1
<1> QED
  BY Zenon, <1>2, <1>3, <1>4, <1>5, <1>6, <1>7, <1>8, <1>9, <1>10, <1>11, <1>12, <1>13 DEF Next

\* As long as no redemption is worth zero, unbonding records and redemption records always
\* agree, every redemption belongs to a record, and the escrow account holds exactly the stTokens
\* that will be burned (x/stakedym/keeper/unbonding.go, RedeemStake to ConfirmUndelegation).
THEOREM RedemptionsAlwaysAddUp == Spec /\ []Dustless => []RedemptionBooksAgree
<1>1. DInv /\ [Next]_vars => DInv'
  BY NextDInv
<1>2. DInv /\ EInv /\ Dustless' /\ [Next]_vars => EInv'
  BY Zenon, NextEInv
<1>3. DInv /\ EInv => RedemptionBooksAgree
  BY Zenon DEF DInv, EInv, Stores, RecordsAddUp, RedemptionBooksAgree, Escrowed
<1> QED BY <1>1, <1>2, <1>3, InitDInv, InitEInv, PTL DEF Spec
=============================================================================
