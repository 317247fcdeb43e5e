----------------------- MODULE UnbondingRecordsProofs -----------------------
(***************************************************************************)
(* For any number of days, users, tokens and faults: a redemption is paid  *)
(* at most once, whatever is lost with a closed channel; the counters of   *)
(* undelegations in flight are exact and no status goes back.              *)
(***************************************************************************)
EXTENDS UnbondingRecords, SumTheorems, SequenceTheorems

Redemption == [exists : BOOLEAN, stTokenAmount : Nat, nativeTokenAmount : Int,
               claimIsPending : BOOLEAN]

ClaimsTypeOK ==
    /\ day \in Nat \ {0} /\ redemptionRate \in Rates
    /\ userRedemptions \in [Days -> [Users -> Redemption]]
    /\ claims \in [Days -> [Users -> {"none", "sent", "success", "failure", "lost"}]]
    /\ paid \in [Days -> [Users -> Int]]

\* The record of today is still open to redemptions and later ones do not exist.
OpenDay ==
    /\ DOMAIN hostZoneUnbondings = Days
    /\ \A d \in Days : "status" \in DOMAIN hostZoneUnbondings[d]
    /\ \A d \in Days : d > day => hostZoneUnbondings[d].status = "NONE"
    /\ \A d \in Days : d = day => hostZoneUnbondings[d].status \in {"NONE", "UNBONDING_QUEUE"}

\* The ICAs in flight are about the records of earlier days.
PacketsOfThePast ==
    /\ \E X : packets \in Seq(X)
    /\ \A n \in DOMAIN packets : /\ "ids" \in DOMAIN packets[n]
                                 /\ packets[n].ids \subseteq {d \in Days : d < day}

\* A claim in flight keeps its redemption pending, and a payment is followed by nothing
\* but its acknowledgement, which removes the redemption for good.
ClaimInv(d, u) ==
    /\ claims[d][u] # "none" => /\ d < day
                                /\ userRedemptions[d][u].exists
                                /\ userRedemptions[d][u].claimIsPending
    /\ paid[d][u] # 0 => /\ d < day
                         /\ userRedemptions[d][u].exists => claims[d][u] \in {"success", "lost"}

PInv == ClaimsTypeOK /\ OpenDay /\ PacketsOfThePast
        /\ \A d \in Days, u \in Users : ClaimInv(d, u)
-----------------------------------------------------------------------------
\* Conversion at a redemption rate of Rates yields an integer.
LEMMA ToNativeInt ==
    ASSUME NEW n \in Nat, redemptionRate \in Rates
    PROVE  ToNative(n) \in Int
<1>1. redemptionRate \in Nat /\ Precision \in Nat \ {0}
  BY UnbondingAssumptions, PrecisionAssumption
<1>2. NewDecFromInt(n) * redemptionRate \in Int
  BY <1>1 DEF NewDecFromInt
<1>3. \A m \in Int : RoundHalfEven(m, Precision) \in Int
  BY <1>1 DEF RoundHalfEven
<1> QED
  BY <1>1, <1>2, <1>3 DEF ToNative, TruncateInt, Mul

\* Replacing one redemption keeps the type and the other redemptions.
LEMMA RedemptionReplaced ==
    ASSUME userRedemptions \in [Days -> [Users -> Redemption]],
           NEW d \in Days, NEW u \in Users, NEW r \in Redemption,
           userRedemptions' = [userRedemptions EXCEPT ![d][u] = r]
    PROVE  /\ userRedemptions' \in [Days -> [Users -> Redemption]]
           /\ userRedemptions'[d][u] = r
           /\ \A e \in Days, v \in Users : ~(e = d /\ v = u) =>
                 userRedemptions'[e][v] = userRedemptions[e][v]
OBVIOUS

\* Setting ClaimIsPending changes nothing else.
LEMMA PendingSet ==
    ASSUME NEW r \in Redemption, NEW b \in BOOLEAN
    PROVE  LET s == [r EXCEPT !.claimIsPending = b]
           IN  s \in Redemption /\ s.claimIsPending = b /\ s.exists = r.exists
BY DEF Redemption

\* The initial states satisfy the invariant.
LEMMA InitPInv == Init => PInv
<1> SUFFICES ASSUME Init PROVE PInv
  OBVIOUS
<1>1. ClaimsTypeOK
  BY UnbondingAssumptions DEF Init, ClaimsTypeOK, NoUserRedemption, Redemption
<1>2. OpenDay
  BY DEF Init, OpenDay, NewHostZoneUnbonding, NoHostZoneUnbonding, Days
<1>3. PacketsOfThePast
  <2>1. packets = <<>> /\ packets \in Seq({})
    BY DEF Init
  <2> QED
    BY <2>1 DEF PacketsOfThePast
<1>4. \A d \in Days, u \in Users : ClaimInv(d, u)
  BY DEF Init, ClaimInv
<1> QED
  BY <1>1, <1>2, <1>3, <1>4 DEF PInv
-----------------------------------------------------------------------------
(* The claims                                                              *)

\* MsgRedeemStake only touches the redemption of today, which was never paid.
LEMMA RedeemStakeStep ==
    ASSUME PInv, NEW u \in Users, NEW amount \in RedeemAmounts, RedeemStake(u, amount)
    PROVE  PInv'
<1>0. /\ day \in Days /\ UNCHANGED <<day, redemptionRate, packets, claims, paid>>
      /\ userRedemptions' = [userRedemptions EXCEPT ![day][u] =
            [exists |-> TRUE, claimIsPending |-> userRedemptions[day][u].claimIsPending,
             stTokenAmount |-> userRedemptions[day][u].stTokenAmount + amount,
             nativeTokenAmount |-> userRedemptions[day][u].nativeTokenAmount + ToNative(amount)]]
      /\ hostZoneUnbondings' = [hostZoneUnbondings EXCEPT ![day] =
            [@ EXCEPT !.stTokenAmount = @ + amount, !.nativeTokenAmount = @ + ToNative(amount)]]
  BY DEF RedeemStake, epochVars, zoneVars, claimVars
<1>1. amount \in Nat /\ ToNative(amount) \in Int
  BY UnbondingAssumptions, ToNativeInt DEF PInv, ClaimsTypeOK
<1>2. ClaimsTypeOK'
  <2>1. userRedemptions[day][u] \in Redemption
    BY <1>0 DEF PInv, ClaimsTypeOK
  <2>2. /\ userRedemptions[day][u].stTokenAmount + amount \in Nat
        /\ userRedemptions[day][u].nativeTokenAmount + ToNative(amount) \in Int
    BY <1>1, <2>1 DEF Redemption
  <2> DEFINE r == [exists |-> TRUE, claimIsPending |-> userRedemptions[day][u].claimIsPending,
                   stTokenAmount |-> userRedemptions[day][u].stTokenAmount + amount,
                   nativeTokenAmount |->
                      userRedemptions[day][u].nativeTokenAmount + ToNative(amount)]
  <2>3. r \in Redemption
    BY <2>1, <2>2 DEF Redemption
  <2>4. userRedemptions' \in [Days -> [Users -> Redemption]]
    <3>1. userRedemptions' = [userRedemptions EXCEPT ![day][u] = r]
      BY <1>0
    <3> HIDE DEF r
    <3> QED
      BY Zenon, <1>0, <2>3, <3>1, RedemptionReplaced DEF PInv, ClaimsTypeOK
  <2> QED
    BY <1>0, <2>4 DEF PInv, ClaimsTypeOK
<1>3. OpenDay'
  BY <1>0 DEF PInv, OpenDay
<1>4. PacketsOfThePast'
  BY <1>0 DEF PInv, PacketsOfThePast
<1>5. ASSUME NEW d \in Days, NEW v \in Users PROVE ClaimInv(d, v)'
  <2>1. CASE d = day
    BY <1>0, <2>1 DEF PInv, ClaimsTypeOK, ClaimInv, Days
  <2>2. CASE d # day
    <3>1. userRedemptions'[d] = userRedemptions[d]
      BY <1>0, <2>2 DEF PInv, ClaimsTypeOK
    <3> QED
      BY <1>0, <3>1 DEF PInv, ClaimInv
  <2> QED
    BY <2>1, <2>2
<1> QED
  BY <1>2, <1>3, <1>4, <1>5 DEF PInv

\* MsgClaimUndelegatedTokens: a redemption that was paid is gone or still pending.
LEMMA ClaimStart ==
    ASSUME PInv, NEW d \in Days, NEW u \in Users, ClaimUndelegatedTokens(d, u)
    PROVE  PInv'
<1>0. /\ UNCHANGED <<day, redemptionRate, packets, paid, hostZoneUnbondings>>
      /\ userRedemptions[d][u].exists /\ ~userRedemptions[d][u].claimIsPending
      /\ hostZoneUnbondings[d].status = "CLAIMABLE"
      /\ claims' = [claims EXCEPT ![d][u] = "sent"]
      /\ userRedemptions' = [userRedemptions EXCEPT ![d][u].claimIsPending = TRUE]
  BY DEF ClaimUndelegatedTokens, epochVars, zoneVars
<1>1. d < day
  BY SMTT(30), <1>0 DEF PInv, OpenDay, ClaimsTypeOK, Days
<1> DEFINE r == [userRedemptions[d][u] EXCEPT !.claimIsPending = TRUE]
<1>5. r \in Redemption /\ r.claimIsPending /\ r.exists
  <2>1. userRedemptions[d][u] \in Redemption
    BY DEF PInv, ClaimsTypeOK
  <2> QED
    BY Zenon, <1>0, <2>1, PendingSet
<1>6. /\ userRedemptions' \in [Days -> [Users -> Redemption]]
      /\ userRedemptions'[d][u] = r
      /\ \A e \in Days, v \in Users : ~(e = d /\ v = u) =>
            userRedemptions'[e][v] = userRedemptions[e][v]
  <2>1. userRedemptions' = [userRedemptions EXCEPT ![d][u] = r]
    BY <1>0
  <2> HIDE DEF r
  <2> QED
    BY <1>5, <2>1, RedemptionReplaced DEF PInv, ClaimsTypeOK
<1>2. ClaimsTypeOK'
  BY <1>0, <1>6 DEF PInv, ClaimsTypeOK
<1>3. OpenDay' /\ PacketsOfThePast'
  BY <1>0 DEF PInv, OpenDay, PacketsOfThePast
<1>4. ASSUME NEW e \in Days, NEW v \in Users PROVE ClaimInv(e, v)'
  <2>1. CASE e = d /\ v = u
    <3>1. paid[d][u] = 0
      BY <1>0 DEF PInv, ClaimInv
    <3>2. paid'[e][v] = 0 /\ userRedemptions'[e][v].exists /\ userRedemptions'[e][v].claimIsPending
      BY <1>0, <1>5, <1>6, <2>1, <3>1
    <3> QED
      BY <1>0, <1>1, <2>1, <3>2 DEF ClaimInv
  <2>2. CASE ~(e = d /\ v = u)
    <3>1. userRedemptions'[e][v] = userRedemptions[e][v] /\ claims'[e][v] = claims[e][v]
      BY <1>0, <1>6, <2>2 DEF PInv, ClaimsTypeOK
    <3> QED
      BY <1>0, <3>1 DEF PInv, ClaimInv
  <2> QED
    BY <2>1, <2>2
<1> QED
  BY <1>2, <1>3, <1>4 DEF PInv

\* The host executes a claim ICA: it has not been paid before.
LEMMA ClaimExecution ==
    ASSUME PInv, NEW d \in Days, NEW u \in Users, HostExecutesClaim(d, u)
    PROVE  /\ PInv'
           /\ \A e \in Days, v \in Users : paid'[e][v] # paid[e][v] =>
                 paid[e][v] = 0 /\ paid'[e][v] = userRedemptions[e][v].nativeTokenAmount
<1> DEFINE amount == userRedemptions[d][u].nativeTokenAmount
<1>0. /\ UNCHANGED <<day, redemptionRate, packets, hostZoneUnbondings, userRedemptions>>
      /\ claims[d][u] = "sent"
      /\ \/ /\ claims' = [claims EXCEPT ![d][u] = "success"]
            /\ paid' = [paid EXCEPT ![d][u] = @ + amount]
         \/ claims' = [claims EXCEPT ![d][u] = "failure"] /\ UNCHANGED paid
  BY DEF HostExecutesClaim, epochVars, zoneVars
<1>1. /\ amount \in Int /\ d < day
      /\ userRedemptions[d][u].exists /\ userRedemptions[d][u].claimIsPending
      /\ paid[d][u] = 0
  <2>1. userRedemptions[d][u] \in Redemption /\ ClaimInv(d, u)
    BY DEF PInv, ClaimsTypeOK
  <2>2. amount \in Int
    BY <2>1 DEF Redemption
  <2> QED
    BY <1>0, <2>1, <2>2 DEF ClaimInv
<1>2. ClaimsTypeOK'
  <2>1. /\ claims' \in [Days -> [Users -> {"none", "sent", "success", "failure", "lost"}]]
        /\ paid' \in [Days -> [Users -> Int]]
    <3>1. paid[d][u] + amount \in Int
      BY <1>1
    <3>2. [paid EXCEPT ![d][u] = paid[d][u] + amount] \in [Days -> [Users -> Int]]
      BY <3>1 DEF PInv, ClaimsTypeOK
    <3>3. claims' \in [Days -> [Users -> {"none", "sent", "success", "failure", "lost"}]]
      <4>1. PICK st \in {"success", "failure"} : claims' = [claims EXCEPT ![d][u] = st]
        BY <1>0
      <4> QED
        BY <4>1 DEF PInv, ClaimsTypeOK
    <3>4. paid' = paid \/ paid' = [paid EXCEPT ![d][u] = paid[d][u] + amount]
      BY <1>0
    <3> QED
      BY Zenon, <3>2, <3>3, <3>4 DEF PInv, ClaimsTypeOK
  <2> QED
    BY <1>0, <2>1 DEF PInv, ClaimsTypeOK
<1>3. OpenDay' /\ PacketsOfThePast'
  BY <1>0 DEF PInv, OpenDay, PacketsOfThePast
<1>4. \A e \in Days, v \in Users : ~(e = d /\ v = u) =>
          paid'[e][v] = paid[e][v] /\ claims'[e][v] = claims[e][v]
  BY <1>0 DEF PInv, ClaimsTypeOK
<1>5. /\ claims'[d][u] \in {"success", "failure"}
      /\ claims'[d][u] = "failure" => paid'[d][u] = 0
      /\ paid'[d][u] # 0 => paid'[d][u] = amount
  BY <1>0, <1>1 DEF PInv, ClaimsTypeOK
<1>6. ASSUME NEW e \in Days, NEW v \in Users PROVE ClaimInv(e, v)'
  <2>1. CASE e = d /\ v = u
    BY <1>0, <1>1, <1>5, <2>1 DEF ClaimInv
  <2>2. CASE ~(e = d /\ v = u)
    BY <1>0, <1>4, <2>2 DEF PInv, ClaimInv
  <2> QED
    BY <2>1, <2>2
<1>7. ASSUME NEW e \in Days, NEW v \in Users, paid'[e][v] # paid[e][v]
      PROVE  paid[e][v] = 0 /\ paid'[e][v] = userRedemptions[e][v].nativeTokenAmount
  BY <1>1, <1>4, <1>5, <1>7
<1> QED
  BY <1>2, <1>3, <1>6, <1>7 DEF PInv

\* The acknowledgement or timeout of a claim ICA.
LEMMA ClaimEnd ==
    ASSUME PInv, NEW d \in Days, NEW u \in Users,
           ClaimAcknowledged(d, u) \/ ClaimTimedOut(d, u)
    PROVE  PInv' /\ UNCHANGED paid
<1>0. PICK status \in {"success", "failure", "timeout"} :
          /\ ClaimCallback(d, u, status)
          /\ claims[d][u] = IF status = "timeout" THEN "sent" ELSE status
  BY DEF ClaimAcknowledged, ClaimTimedOut
<1>1. /\ UNCHANGED <<day, redemptionRate, packets, paid>>
      /\ claims' = [claims EXCEPT ![d][u] = "none"]
      /\ \/ /\ status = "success"
            /\ userRedemptions' = [userRedemptions EXCEPT ![d][u] = NoUserRedemption]
            /\ hostZoneUnbondings' = [hostZoneUnbondings EXCEPT ![d].claimableNativeTokens =
                  @ - userRedemptions[d][u].nativeTokenAmount]
         \/ /\ status # "success"
            /\ userRedemptions' = [userRedemptions EXCEPT ![d][u].claimIsPending = FALSE]
            /\ UNCHANGED hostZoneUnbondings
  BY <1>0 DEF ClaimCallback, epochVars, zoneVars
<1>2. d < day /\ (status # "success" => paid[d][u] = 0)
  BY <1>0 DEF PInv, ClaimInv
<1>3. ClaimsTypeOK'
  <2>1. NoUserRedemption \in Redemption
    BY DEF Redemption, NoUserRedemption
  <2>2. userRedemptions' \in [Days -> [Users -> Redemption]]
    <3> DEFINE r == IF status = "success" THEN NoUserRedemption
                    ELSE [userRedemptions[d][u] EXCEPT !.claimIsPending = FALSE]
    <3>1. userRedemptions[d][u] \in Redemption
      BY DEF PInv, ClaimsTypeOK
    <3>2. r \in Redemption
      BY Zenon, <2>1, <3>1, PendingSet
    <3>3. userRedemptions' = [userRedemptions EXCEPT ![d][u] = r]
      BY <1>1
    <3> HIDE DEF r
    <3> QED
      BY <3>2, <3>3, RedemptionReplaced DEF PInv, ClaimsTypeOK
  <2> QED
    BY <1>1, <2>2 DEF PInv, ClaimsTypeOK
<1>4. OpenDay'
  <2>1. CASE UNCHANGED hostZoneUnbondings
    BY <1>1, <2>1 DEF PInv, OpenDay
  <2>2. CASE hostZoneUnbondings' = [hostZoneUnbondings EXCEPT ![d].claimableNativeTokens =
                                       @ - userRedemptions[d][u].nativeTokenAmount]
    BY <1>1, <2>2 DEF PInv, OpenDay
  <2> QED
    BY <1>1, <2>1, <2>2
<1>5. PacketsOfThePast'
  BY <1>1 DEF PInv, PacketsOfThePast
<1>6. ASSUME NEW e \in Days, NEW v \in Users PROVE ClaimInv(e, v)'
  <2>1. CASE e = d /\ v = u
    <3>1. claims'[d][u] = "none" /\ (status = "success" => ~userRedemptions'[d][u].exists)
      BY <1>1 DEF PInv, ClaimsTypeOK, NoUserRedemption
    <3> QED
      BY <1>1, <1>2, <2>1, <3>1 DEF ClaimInv
  <2>2. CASE ~(e = d /\ v = u)
    <3>1. userRedemptions'[e][v] = userRedemptions[e][v] /\ claims'[e][v] = claims[e][v]
      BY <1>1, <2>2 DEF PInv, ClaimsTypeOK
    <3> QED
      BY <1>1, <3>1 DEF PInv, ClaimInv
  <2> QED
    BY <2>1, <2>2
<1> QED
  BY <1>1, <1>3, <1>4, <1>5, <1>6 DEF PInv

\* MsgRestoreInterchainAccount for the redemption account.
LEMMA RestoreRedemptionStep ==
    ASSUME PInv, RestoreRedemptionAccount
    PROVE  PInv' /\ UNCHANGED paid
<1>1. /\ UNCHANGED <<day, redemptionRate, packets, paid, hostZoneUnbondings, userRedemptions>>
      /\ claims' = [d \in Days |-> [u \in Users |->
                       IF claims[d][u] = "none" THEN "none" ELSE "lost"]]
  BY DEF RestoreRedemptionAccount, epochVars, zoneVars
<1>2. ClaimsTypeOK' /\ OpenDay' /\ PacketsOfThePast'
  BY <1>1 DEF PInv, ClaimsTypeOK, OpenDay, PacketsOfThePast
<1>3. ASSUME NEW d \in Days, NEW u \in Users PROVE ClaimInv(d, u)'
  BY <1>1 DEF PInv, ClaimInv
<1> QED
  BY <1>1, <1>2, <1>3 DEF PInv
-----------------------------------------------------------------------------
(* The records and the delegation channel                                  *)

\* Steps that leave the claims and the redemptions' flags alone only have to keep the
\* records and the packets in order; the day may advance.
LEMMA NoClaimStep ==
    ASSUME PInv, ClaimsTypeOK', OpenDay', PacketsOfThePast', UNCHANGED <<claims, paid>>,
           day' >= day,
           \A d \in Days, u \in Users :
              /\ userRedemptions'[d][u].exists = userRedemptions[d][u].exists
              /\ userRedemptions'[d][u].claimIsPending = userRedemptions[d][u].claimIsPending
    PROVE  PInv'
<1>1. ASSUME NEW d \in Days, NEW u \in Users PROVE ClaimInv(d, u)'
  <2>1. ClaimInv(d, u) /\ day \in Nat /\ day' \in Nat /\ d \in Nat
    BY DEF PInv, ClaimsTypeOK, Days
  <2>2. d < day => d < day'
    BY <2>1
  <2> QED
    BY <2>1, <2>2 DEF ClaimInv
<1> QED
  BY <1>1 DEF PInv

\* The packets stay packets of the past when some are dropped or only their state changes.
LEMMA FewerPackets ==
    ASSUME PacketsOfThePast, day' = day, NEW Y, packets' \in Seq(Y),
           \A n \in DOMAIN packets' : \E m \in DOMAIN packets :
              /\ "ids" \in DOMAIN packets'[n]
              /\ packets'[n].ids = packets[m].ids
    PROVE  PacketsOfThePast'
BY DEF PacketsOfThePast

\* Updating a packet in place keeps the sequence and the ids.
LEMMA PacketsMapped ==
    ASSUME PacketsOfThePast, day' = day, DOMAIN packets' = DOMAIN packets,
           packets' = [n \in DOMAIN packets |-> packets'[n]],
           \A n \in DOMAIN packets : /\ "ids" \in DOMAIN packets'[n]
                                     /\ packets'[n].ids = packets[n].ids
    PROVE  PacketsOfThePast'
<1>1. PICK X : packets \in Seq(X)
  BY DEF PacketsOfThePast
<1> DEFINE Y == {packets'[n] : n \in DOMAIN packets}
<1>2. packets' \in Seq(Y)
  <2>1. Len(packets) \in Nat /\ DOMAIN packets = 1..Len(packets)
    BY <1>1
  <2>2. packets' \in [1..Len(packets) -> Y]
    BY <2>1
  <2> QED
    BY <2>1, <2>2, IsASeq
<1> QED
  BY <1>2, FewerPackets

\* An ICA callback only changes the records of its packet.
LEMMA CallbackChangesIds ==
    ASSUME OpenDay, NEW p, p.ids \subseteq {d \in Days : d < day}, NEW status,
           Callback(p, status)
    PROVE  /\ DOMAIN hostZoneUnbondings' = Days
           /\ \A d \in Days : /\ "status" \in DOMAIN hostZoneUnbondings'[d]
                              /\ d \notin p.ids =>
                                    hostZoneUnbondings'[d].status = hostZoneUnbondings[d].status
<1> DEFINE Shape(records) ==
              /\ DOMAIN records = Days
              /\ \A d \in Days : /\ "status" \in DOMAIN records[d]
                                 /\ d \notin p.ids => records[d].status = hostZoneUnbondings[d].status
<1>1. Shape(hostZoneUnbondings)
  BY DEF OpenDay
<1>2. ASSUME NEW records, Shape(records), NEW S, S \subseteq p.ids, NEW st
      PROVE  Shape(SetStatus(records, S, st))
  BY <1>2 DEF SetStatus
<1>3. CASE p.kind = "undelegate" /\ UndelegateCallback(p, status)
  <2> DEFINE touched == {d \in p.ids : ~Completed(d)}
             updated == [d \in Days |-> IF d \in touched
                            THEN [AfterUndelegation(d, p) EXCEPT !.txs = @ - 1]
                            ELSE Acked(p)[d]]
  <2>1. \/ hostZoneUnbondings' = Acked(p)
        \/ hostZoneUnbondings' = SetStatus(Acked(p), p.ids \cap WithStatus({"UNBONDING_IN_PROGRESS"}),
                                           "UNBONDING_RETRY_QUEUE")
        \/ hostZoneUnbondings' = updated
    BY <1>3 DEF UndelegateCallback, Retried
  <2>2. Shape(Acked(p))
    BY <1>1 DEF Acked
  <2>3. Shape(updated)
    <3>1. \A d \in Days : "status" \in DOMAIN AfterUndelegation(d, p)
      BY <1>1 DEF AfterUndelegation
    <3>2. \A d \in Days : "status" \in DOMAIN [AfterUndelegation(d, p) EXCEPT !.txs = @ - 1]
      BY <3>1
    <3> QED
      BY <2>2, <3>2
  <2> HIDE DEF Shape, updated
  <2>4. Shape(hostZoneUnbondings')
    BY Zenon, <1>2, <2>1, <2>2, <2>3
  <2> QED
    BY <2>4 DEF Shape
<1>4. CASE p.kind = "sweep" /\ RedemptionCallback(p, status)
  <2>1. \/ hostZoneUnbondings' = hostZoneUnbondings
        \/ hostZoneUnbondings' = SetStatus(hostZoneUnbondings, p.ids, "EXIT_TRANSFER_QUEUE")
        \/ hostZoneUnbondings' = [d \in Days |->
              IF d \in p.ids
              THEN [hostZoneUnbondings[d] EXCEPT !.status = "CLAIMABLE",
                       !.claimableNativeTokens = hostZoneUnbondings[d].nativeTokenAmount]
              ELSE hostZoneUnbondings[d]]
    BY Zenon, <1>4 DEF RedemptionCallback
  <2>2. CASE hostZoneUnbondings' = SetStatus(hostZoneUnbondings, p.ids, "EXIT_TRANSFER_QUEUE")
    BY <1>1, <1>2, <2>2
  <2> QED
    BY Zenon, <1>1, <2>1, <2>2
<1> QED
  BY <1>3, <1>4 DEF Callback

\* An acknowledgement or a timeout on the delegation channel.
LEMMA PacketCallbackStep ==
    ASSUME PInv, PacketAcknowledged \/ \E n \in DOMAIN packets : PacketTimedOut(n)
    PROVE  PInv' /\ UNCHANGED paid
<1>0. PICK X : packets \in Seq(X)
  BY DEF PInv, PacketsOfThePast
<1>1. UNCHANGED <<day, redemptionRate, userRedemptions, claims, paid>>
  BY DEF PacketAcknowledged, PacketTimedOut, epochVars, zoneVars, claimVars
<1>2. PICK m \in DOMAIN packets :
          /\ \E status : Callback(packets[m], status)
          /\ (packets' = Tail(packets) /\ packets # <<>>) \/ packets' = Without(m)
  <2>1. CASE PacketAcknowledged
    <3>1. packets # <<>> /\ Head(packets) = packets[1] /\ 1 \in DOMAIN packets
      BY <1>0, <2>1 DEF PacketAcknowledged
    <3> QED
      BY <2>1, <3>1 DEF PacketAcknowledged
  <2>2. CASE \E n \in DOMAIN packets : PacketTimedOut(n)
    BY <2>2 DEF PacketTimedOut
  <2> QED
    BY <2>1, <2>2
<1>3. packets[m].ids \subseteq {d \in Days : d < day}
  BY DEF PInv, PacketsOfThePast
<1>4. OpenDay'
  <2>1. \A d \in Days : /\ "status" \in DOMAIN hostZoneUnbondings'[d]
                        /\ d \notin packets[m].ids =>
                              hostZoneUnbondings'[d].status = hostZoneUnbondings[d].status
    BY <1>2, <1>3, CallbackChangesIds DEF PInv
  <2>2. DOMAIN hostZoneUnbondings' = Days
    BY <1>2, <1>3, CallbackChangesIds DEF PInv
  <2>3. \A d \in Days : d >= day => d \notin packets[m].ids
    BY <1>3 DEF PInv, ClaimsTypeOK, Days
  <2> QED
    BY <1>1, <2>1, <2>2, <2>3 DEF PInv, OpenDay, ClaimsTypeOK, Days
<1>5. PacketsOfThePast'
  <2>1. /\ packets' \in Seq(X)
        /\ \A n \in DOMAIN packets' : \E l \in DOMAIN packets : packets'[n] = packets[l]
    <3>1. CASE packets' = Tail(packets) /\ packets # <<>>
      BY <1>0, <3>1
    <3>2. CASE packets' = Without(m)
      <4>1. m \in 1..Len(packets) /\ Len(packets) \in Nat
        BY <1>0
      <4> DEFINE a == SubSeq(packets, 1, m - 1)
                 b == SubSeq(packets, m + 1, Len(packets))
      <4>2. a \in Seq(X) /\ \A n \in DOMAIN a : \E l \in DOMAIN packets : a[n] = packets[l]
        BY <1>0, <4>1
      <4>3. b \in Seq(X) /\ \A n \in DOMAIN b : \E l \in DOMAIN packets : b[n] = packets[l]
        BY <1>0, <4>1
      <4>4. packets' = a \o b
        BY <3>2 DEF Without
      <4> HIDE DEF a, b
      <4>5. /\ packets' \in Seq(X)
            /\ \A n \in DOMAIN packets' : \/ \E l \in DOMAIN a : packets'[n] = a[l]
                                          \/ \E l \in DOMAIN b : packets'[n] = b[l]
        <5>1. a \in Seq(X) /\ b \in Seq(X) /\ Len(a) \in Nat /\ Len(b) \in Nat
          BY <4>2, <4>3
        <5>2. packets' \in Seq(X) /\ DOMAIN packets' = 1..(Len(a) + Len(b))
          BY <4>4, <5>1
        <5>3. ASSUME NEW n \in DOMAIN packets', n <= Len(a)
              PROVE  n \in DOMAIN a /\ packets'[n] = a[n]
          BY <4>4, <5>1, <5>2, <5>3
        <5>4. ASSUME NEW n \in DOMAIN packets', ~(n <= Len(a))
              PROVE  n - Len(a) \in DOMAIN b /\ packets'[n] = b[n - Len(a)]
          BY <4>4, <5>1, <5>2, <5>4
        <5> QED
          BY <5>2, <5>3, <5>4
      <4> QED
        BY <4>2, <4>3, <4>5
    <3> QED
      BY <1>2, <3>1, <3>2
  <2>2. \A n \in DOMAIN packets : "ids" \in DOMAIN packets[n]
    BY DEF PInv, PacketsOfThePast
  <2> QED
    BY <1>1, <2>1, <2>2, FewerPackets DEF PInv
<1>6. ClaimsTypeOK' /\ day' >= day
  BY <1>1 DEF PInv, ClaimsTypeOK
<1> QED
  BY <1>1, <1>4, <1>5, <1>6, NoClaimStep

\* MsgRestoreInterchainAccount for the delegation account.
LEMMA RestoreDelegationStep ==
    ASSUME PInv, RestoreInterchainAccount
    PROVE  PInv' /\ UNCHANGED paid
<1>1. /\ UNCHANGED <<day, redemptionRate, userRedemptions, claims, paid>>
      /\ packets' = <<>>
      /\ hostZoneUnbondings' = [d \in Days |-> Restored(hostZoneUnbondings[d])]
  BY DEF RestoreInterchainAccount, epochVars, zoneVars, claimVars
<1>2. OpenDay'
  <2>1. \A d \in Days : /\ "status" \in DOMAIN Restored(hostZoneUnbondings[d])
                        /\ hostZoneUnbondings[d].status \in {"NONE", "UNBONDING_QUEUE"} =>
                              Restored(hostZoneUnbondings[d]).status = hostZoneUnbondings[d].status
    BY DEF Restored, PInv, OpenDay
  <2> QED
    BY <1>1, <2>1 DEF PInv, OpenDay
<1>3. PacketsOfThePast'
  <2>1. packets' \in Seq({}) /\ DOMAIN packets' = {}
    BY <1>1
  <2> QED
    BY <2>1 DEF PacketsOfThePast
<1>4. ClaimsTypeOK' /\ day' >= day
  BY <1>1 DEF PInv, ClaimsTypeOK
<1> QED
  BY Zenon, <1>1, <1>2, <1>3, <1>4, NoClaimStep

\* The host's clock and the execution of ICAs do not touch the records' status.
LEMMA HostStepInv ==
    ASSUME PInv, Tick \/ \E n \in DOMAIN packets : HostExecutes(n)
    PROVE  PInv' /\ UNCHANGED paid
<1>1. UNCHANGED <<day, redemptionRate, userRedemptions, claims, paid>>
  BY Zenon DEF Tick, HostExecutes, epochVars, zoneVars, claimVars
<1>2. OpenDay'
  <2>1. CASE Tick
    BY Zenon, <1>1, <2>1 DEF Tick, PInv, OpenDay
  <2>2. CASE \E n \in DOMAIN packets : HostExecutes(n)
    BY Zenon, <1>1, <2>2 DEF HostExecutes, PInv, OpenDay
  <2> QED
    BY <2>1, <2>2
<1>3. PacketsOfThePast'
  <2>0. \A n \in DOMAIN packets : "ids" \in DOMAIN packets[n]
    BY DEF PInv, PacketsOfThePast
  <2>1. /\ DOMAIN packets' = DOMAIN packets
        /\ packets' = [n \in DOMAIN packets |-> packets'[n]]
        /\ \A n \in DOMAIN packets : /\ "ids" \in DOMAIN packets'[n]
                                     /\ packets'[n].ids = packets[n].ids
    <3>1. CASE Tick
      BY <2>0, <3>1 DEF Tick
    <3>2. ASSUME NEW m \in DOMAIN packets, HostExecutes(m)
          PROVE  /\ DOMAIN packets' = DOMAIN packets
                 /\ packets' = [n \in DOMAIN packets |-> packets'[n]]
                 /\ \A n \in DOMAIN packets : /\ "ids" \in DOMAIN packets'[n]
                                              /\ packets'[n].ids = packets[n].ids
      <4>1. \/ packets' = [packets EXCEPT ![m].state = "success", ![m].completion = UnbondingPeriod]
            \/ packets' = [packets EXCEPT ![m].state = "success"]
            \/ packets' = [packets EXCEPT ![m].state = "failure"]
        BY Zenon, <3>2 DEF HostExecutes
      <4> QED
        BY Zenon, <2>0, <4>1
    <3> QED
      BY <3>1, <3>2
  <2> QED
    BY <1>1, <2>1, PacketsMapped DEF PInv
<1>4. ClaimsTypeOK' /\ day' >= day
  BY <1>1 DEF PInv, ClaimsTypeOK
<1> QED
  BY Zenon, <1>1, <1>2, <1>3, <1>4, NoClaimStep

\* Steps that only change variables the invariant does not speak of.
LEMMA UnrelatedUnbondingStep ==
    ASSUME PInv, UNCHANGED <<day, redemptionRate, hostZoneUnbondings, userRedemptions,
                             packets, claims, paid>>
    PROVE  PInv'
BY DEF PInv, ClaimsTypeOK, OpenDay, PacketsOfThePast, ClaimInv

\* Adding packets about records of earlier days.
LEMMA MorePackets ==
    ASSUME PacketsOfThePast, day \in Nat, day' \in Nat, day' >= day, NEW new, NEW Y,
           new \in Seq(Y), packets' = packets \o new,
           \A n \in DOMAIN new : /\ "ids" \in DOMAIN new[n]
                                 /\ new[n].ids \subseteq {d \in Days : d < day'}
    PROVE  PacketsOfThePast'
<1>1. PICK X : packets \in Seq(X)
  BY DEF PacketsOfThePast
<1> DEFINE Z == X \cup Y
<1>2. packets \in Seq(Z) /\ new \in Seq(Z)
  BY <1>1, SeqMonotonic
<1>3. /\ packets' \in Seq(Z) /\ Len(packets) \in Nat /\ Len(new) \in Nat
      /\ DOMAIN packets = 1..Len(packets) /\ DOMAIN new = 1..Len(new)
      /\ DOMAIN packets' = 1..(Len(packets) + Len(new))
  BY <1>2
<1>4. \A d \in Days : d < day => d < day'
  BY DEF Days
<1>5. ASSUME NEW n \in DOMAIN packets'
      PROVE  "ids" \in DOMAIN packets'[n] /\ packets'[n].ids \subseteq {d \in Days : d < day'}
  <2>1. CASE n <= Len(packets)
    <3>1. n \in DOMAIN packets /\ packets'[n] = packets[n]
      BY <1>2, <1>3, <2>1
    <3> QED
      BY <1>4, <3>1 DEF PacketsOfThePast
  <2>2. CASE ~(n <= Len(packets))
    <3>1. n - Len(packets) \in DOMAIN new /\ packets'[n] = new[n - Len(packets)]
      BY <1>2, <1>3, <2>2
    <3> QED
      BY <3>1
  <2> QED
    BY <2>1, <2>2
<1> QED
  BY <1>3, <1>5 DEF PacketsOfThePast

\* The stride epoch sweeps records whose tokens are unbonded, none of them today's.
LEMMA StrideEpochStep ==
    ASSUME PInv, NEW rate \in Rates, NEW ok, StrideEpoch(rate, ok)
    PROVE  PInv' /\ UNCHANGED paid
<1>1. /\ UNCHANGED <<day, userRedemptions, claims, paid>>
      /\ redemptionRate' \in {redemptionRate, rate}
      /\ \/ UNCHANGED <<packets, hostZoneUnbondings>>
         \/ /\ packets' = Append(packets, SweepPacket(Sweepable))
            /\ hostZoneUnbondings' =
                  SetStatus(hostZoneUnbondings, Sweepable, "EXIT_TRANSFER_IN_PROGRESS")
  BY DEF StrideEpoch, epochVars, claimVars
<1>2. Sweepable \subseteq {d \in Days : d < day}
  BY DEF Sweepable, WithStatus, PInv, OpenDay, ClaimsTypeOK, Days
<1>3. OpenDay'
  <2>1. CASE UNCHANGED hostZoneUnbondings
    BY <1>1, <2>1 DEF PInv, OpenDay
  <2>2. CASE hostZoneUnbondings' =
                 SetStatus(hostZoneUnbondings, Sweepable, "EXIT_TRANSFER_IN_PROGRESS")
    <3>1. \A d \in Days : d >= day => d \notin Sweepable
      BY <1>2 DEF PInv, ClaimsTypeOK, Days
    <3> QED
      BY <1>1, <2>2, <3>1 DEF PInv, OpenDay, SetStatus, ClaimsTypeOK, Days
  <2> QED
    BY <1>1, <2>1, <2>2
<1>4. PacketsOfThePast'
  <2>1. CASE UNCHANGED packets
    BY <1>1, <2>1 DEF PInv, PacketsOfThePast
  <2>2. CASE packets' = Append(packets, SweepPacket(Sweepable))
    <3> DEFINE p == SweepPacket(Sweepable)
    <3>1. "ids" \in DOMAIN p /\ p.ids = Sweepable
      BY DEF SweepPacket
    <3> HIDE DEF p
    <3>2. <<p>> \in Seq({p}) /\ \A n \in DOMAIN <<p>> : <<p>>[n] = p
      OBVIOUS
    <3>3. packets' = packets \o <<p>>
      <4>1. PICK X : packets \in Seq(X)
        BY DEF PInv, PacketsOfThePast
      <4>2. packets \in Seq(X \cup {p}) /\ packets' = Append(packets, p)
        BY <2>2, <4>1, SeqMonotonic DEF p
      <4> QED
        BY <4>2, AppendIsConcat
    <3>4. PacketsOfThePast /\ day \in Nat /\ day' \in Nat /\ day' >= day
      BY <1>1 DEF PInv, ClaimsTypeOK
    <3>5. \A n \in DOMAIN <<p>> : /\ "ids" \in DOMAIN <<p>>[n]
                                 /\ <<p>>[n].ids \subseteq {d \in Days : d < day'}
      <4>1. p.ids \subseteq {d \in Days : d < day'}
        BY <1>1, <1>2, <3>1
      <4> QED
        BY <3>1, <3>2, <4>1
    <3>6. <<p>> \in Seq({p})
      BY <3>2
    <3> DEFINE new == <<p>>
    <3> HIDE DEF new
    <3> QED
      BY Zenon, <3>3, <3>4, <3>5, <3>6, MorePackets DEF new
  <2> QED
    BY <1>1, <2>1, <2>2
<1>5. ClaimsTypeOK' /\ day' >= day
  BY <1>1 DEF PInv, ClaimsTypeOK
<1> QED
  BY <1>1, <1>3, <1>4, <1>5, NoClaimStep

\* The day epoch: redemptions are revalued, records of past days submitted, claimed ones
\* removed, and today's successor opened.
LEMMA DayEpochStep ==
    ASSUME PInv, NEW ok, DayEpoch(ok)
    PROVE  PInv' /\ UNCHANGED paid
<1>0. /\ UNCHANGED <<redemptionRate, claims, paid>>
      /\ day' = IF day \in Days THEN day + 1 ELSE day
      /\ \/ \E split :
               /\ hostZoneUnbondings' = CleanedUpAndCreated(Unbonded(split))
               /\ packets' = packets \o UndelegatePackets(split)
               /\ userRedemptions' = RefreshedRedemptions
         \/ /\ hostZoneUnbondings' = CleanedUpAndCreated(hostZoneUnbondings)
            /\ UNCHANGED <<packets, userRedemptions>>
  BY Zenon DEF DayEpoch, zoneVars, claimVars
<1>1. /\ day \in Nat /\ day' \in Nat \ {0} /\ day' >= day
      /\ \A d \in Days : d \in Nat
      /\ \A d \in Days : d >= day' => d > day
      /\ \A d \in Days : d <= day => d < day'
  BY <1>0, UnbondingAssumptions DEF PInv, ClaimsTypeOK, Days
<1>2. Queued \subseteq {d \in Days : d < day'}
  <2>1. \A d \in Queued : d \in Days /\ hostZoneUnbondings[d].status # "NONE"
    BY DEF Queued, WithStatus
  <2> QED
    BY <1>1, <2>1 DEF PInv, OpenDay
<1>3. ASSUME NEW d \in Days, NEW u \in Users
      PROVE  /\ RefreshedRedemptions[d][u] \in Redemption
             /\ RefreshedRedemptions[d][u].exists = userRedemptions[d][u].exists
             /\ RefreshedRedemptions[d][u].claimIsPending = userRedemptions[d][u].claimIsPending
  <2>1. userRedemptions[d][u] \in Redemption
    BY DEF PInv, ClaimsTypeOK
  <2>2. userRedemptions[d][u].stTokenAmount \in Nat
    BY <2>1 DEF Redemption
  <2>3. ToNative(userRedemptions[d][u].stTokenAmount) \in Int
    BY <2>2, ToNativeInt DEF PInv, ClaimsTypeOK
  <2>4. ASSUME NEW a \in Int
        PROVE  LET r == [userRedemptions[d][u] EXCEPT !.nativeTokenAmount = a]
               IN  /\ r \in Redemption /\ r.exists = userRedemptions[d][u].exists
                   /\ r.claimIsPending = userRedemptions[d][u].claimIsPending
    BY <2>1 DEF Redemption
  <2>5. \/ RefreshedRedemptions[d][u] = userRedemptions[d][u]
        \/ RefreshedRedemptions[d][u] = [userRedemptions[d][u] EXCEPT !.nativeTokenAmount =
                                            ToNative(userRedemptions[d][u].stTokenAmount)]
    BY DEF RefreshedRedemptions
  <2> QED
    BY Zenon, <2>1, <2>3, <2>4, <2>5
<1>4. ClaimsTypeOK'
  <2>1. RefreshedRedemptions \in [Days -> [Users -> Redemption]]
    BY <1>3 DEF RefreshedRedemptions
  <2> QED
    BY <1>0, <1>1, <2>1 DEF PInv, ClaimsTypeOK
<1>5. OpenDay'
  <2> DEFINE Shape(records) ==
                /\ \A d \in Days : "status" \in DOMAIN records[d]
                /\ \A d \in Days : d >= day' => records[d].status = "NONE"
  <2>1. Shape(hostZoneUnbondings)
    BY <1>1 DEF PInv, OpenDay
  <2>2. ASSUME NEW split PROVE Shape(Unbonded(split))
    <3>1. \A d \in Days : /\ "status" \in DOMAIN Refreshed[d]
                          /\ d \notin Queued => Refreshed[d] = hostZoneUnbondings[d]
      BY <2>1 DEF Refreshed, ToRefresh
    <3>2. \A d \in Days : d >= day' => d \notin Queued
      BY <1>1, <1>2
    <3>3. \A d \in Days : /\ "status" \in DOMAIN Unbonded(split)[d]
                          /\ d \notin Queued => Unbonded(split)[d] = Refreshed[d]
      BY <3>1 DEF Unbonded
    <3> QED
      BY <2>1, <3>1, <3>2, <3>3
  <2>3. ASSUME NEW records, Shape(records), hostZoneUnbondings' = CleanedUpAndCreated(records)
        PROVE  OpenDay'
    <3>1. \A d \in Days : \/ d = day + 1 /\ hostZoneUnbondings'[d] = NewHostZoneUnbonding
                          \/ hostZoneUnbondings'[d] = NoHostZoneUnbonding
                          \/ hostZoneUnbondings'[d] = records[d]
      BY <2>3 DEF CleanedUpAndCreated
    <3>2. DOMAIN hostZoneUnbondings' = Days
      BY <2>3 DEF CleanedUpAndCreated
    <3>3. /\ "status" \in DOMAIN NewHostZoneUnbonding
          /\ "status" \in DOMAIN NoHostZoneUnbonding
          /\ NewHostZoneUnbonding.status = "UNBONDING_QUEUE"
          /\ NoHostZoneUnbonding.status = "NONE"
      BY DEF NewHostZoneUnbonding, NoHostZoneUnbonding
    <3>4. \A d \in Days : d = day + 1 => ~(d > day')
      BY <1>0, <1>1, UnbondingAssumptions DEF Days
    <3>5. \A d \in Days : d > day' => d >= day'
      BY <1>1
    <3>6. \A d \in Days : d = day' => d >= day'
      BY <1>1
    <3> QED
      BY <2>3, <3>1, <3>2, <3>3, <3>4, <3>5, <3>6 DEF OpenDay
  <2> HIDE DEF Shape
  <2> QED
    BY <1>0, <2>1, <2>2, <2>3
<1>6. PacketsOfThePast'
  <2>1. CASE UNCHANGED packets
    <3>1. \A d \in Days : d < day => d < day'
      BY <1>1
    <3> QED
      BY <2>1, <3>1 DEF PInv, PacketsOfThePast
  <2>2. ASSUME NEW split, packets' = packets \o UndelegatePackets(split)
        PROVE  PacketsOfThePast'
    <3> DEFINE new == UndelegatePackets(split)
               Y == {new[k] : k \in 1..Used(split)}
    <3>1. Used(split) \in Nat
      <4>1. IsFiniteSet(Batches)
        BY FS_Interval, MaxBatchesAssumption DEF Batches
      <4>2. IsFiniteSet({k \in Batches : split[k] > 0})
        BY <4>1, FS_Subset
      <4> QED
        BY <4>2, FS_CardinalityType DEF Used
    <3>2. /\ new \in Seq(Y) /\ DOMAIN new = 1..Used(split)
          /\ \A n \in DOMAIN new : "ids" \in DOMAIN new[n] /\ new[n].ids = Queued
      <4>1. new \in [1..Used(split) -> Y]
        BY DEF UndelegatePackets
      <4>2. \A n \in 1..Used(split) : "ids" \in DOMAIN new[n] /\ new[n].ids = Queued
        BY DEF UndelegatePackets, UndelegatePacket
      <4> QED
        BY <3>1, <4>1, <4>2, IsASeq
    <3> HIDE DEF new, Y
    <3>3. packets' = packets \o new
      BY <2>2 DEF new
    <3> QED
      BY Zenon, <1>1, <1>2, <3>2, <3>3, MorePackets DEF PInv
  <2> QED
    BY <1>0, <2>1, <2>2
<1>7. \A d \in Days, u \in Users :
          /\ userRedemptions'[d][u].exists = userRedemptions[d][u].exists
          /\ userRedemptions'[d][u].claimIsPending = userRedemptions[d][u].claimIsPending
  BY <1>0, <1>3
<1> QED
  BY <1>0, <1>1, <1>4, <1>5, <1>6, <1>7, NoClaimStep

\* What a step does to the payments, as PaidOnce says.
PaidStep ==
    \A d \in Days, u \in Users : paid'[d][u] # paid[d][u] =>
        /\ paid[d][u] = 0
        /\ paid'[d][u] = userRedemptions[d][u].nativeTokenAmount

\* Every step keeps the invariant, and pays a redemption only when it was not paid.
LEMMA NextPInv ==
    ASSUME PInv, [Next]_vars
    PROVE  PInv' /\ PaidStep
<1>0. ASSUME UNCHANGED paid PROVE PaidStep
  BY Zenon, <1>0 DEF PaidStep
<1>1. ASSUME NEW u \in Users, NEW amount \in RedeemAmounts, RedeemStake(u, amount)
      PROVE  PInv' /\ PaidStep
  BY Zenon, <1>0, <1>1, RedeemStakeStep DEF RedeemStake, claimVars
<1>2. ASSUME NEW d \in Days, NEW u \in Users, ClaimStep(d, u)
      PROVE  PInv' /\ PaidStep
  <2>1. CASE ClaimUndelegatedTokens(d, u)
    BY Zenon, <1>0, <2>1, ClaimStart DEF ClaimUndelegatedTokens
  <2>2. CASE HostExecutesClaim(d, u)
    BY <2>2, ClaimExecution DEF PaidStep
  <2>3. CASE ClaimAcknowledged(d, u) \/ ClaimTimedOut(d, u)
    BY <1>0, <2>3, ClaimEnd
  <2> QED
    BY <1>2, <2>1, <2>2, <2>3 DEF ClaimStep
<1>3. ASSUME NEW b \in BOOLEAN, SetHalted(b) PROVE PInv' /\ PaidStep
  BY <1>0, <1>3, UnrelatedUnbondingStep DEF SetHalted, epochVars, claimVars
<1>4. ASSUME NEW b \in BOOLEAN, DayEpoch(b) PROVE PInv' /\ PaidStep
  BY <1>0, <1>4, DayEpochStep
<1>5. ASSUME NEW rate \in Rates, NEW ok \in BOOLEAN, StrideEpoch(rate, ok)
      PROVE  PInv' /\ PaidStep
  BY <1>0, <1>5, StrideEpochStep
<1>6. CASE Tick \/ HostStep
  BY <1>0, <1>6, HostStepInv DEF HostStep
<1>7. CASE PacketAcknowledged \/ TimeoutStep
  BY <1>0, <1>7, PacketCallbackStep DEF TimeoutStep
<1>8. CASE DelegationChannelCloses \/ OnChanOpenAck
  BY <1>0, <1>8, UnrelatedUnbondingStep
     DEF DelegationChannelCloses, OnChanOpenAck, epochVars, zoneVars, claimVars
<1>9. CASE RestoreInterchainAccount
  BY <1>0, <1>9, RestoreDelegationStep
<1>10. CASE RestoreRedemptionAccount
  BY <1>0, <1>10, RestoreRedemptionStep
<1>11. CASE UNCHANGED vars
  BY <1>0, <1>11, UnrelatedUnbondingStep DEF vars, epochVars, zoneVars, claimVars
<1> QED
  BY Zenon, <1>1, <1>2, <1>3, <1>4, <1>5, <1>6, <1>7, <1>8, <1>9, <1>10, <1>11 DEF Next

\* The invariant, the types of the claims included, holds of every behaviour.
THEOREM ClaimsInvariant == Spec => []PInv
<1>1. PInv /\ [Next]_vars => PInv'
  BY NextPInv
<1> QED
  BY InitPInv, <1>1, PTL DEF Spec

\* Whatever the relayers do, acknowledgements lost and channels dropped included, a
\* redemption is paid at most once and its full amount: ClaimIsPending guards every claim
\* ICA, and a record is only claimable once no redemption can be added to it.
THEOREM RedemptionsPaidOnce == Spec => PaidOnce
<1>1. PInv /\ [Next]_vars => [PaidStep]_vars
  BY NextPInv
<1>2. PInv /\ [Next]_vars => PInv'
  BY NextPInv
<1>3. PaidOnce <=> [][PaidStep]_vars
  BY PTL DEF PaidOnce, PaidStep
<1> QED
  BY InitPInv, <1>1, <1>2, <1>3, PTL DEF Spec
-----------------------------------------------------------------------------
(* The statuses of the records and the counters of their transactions    *)

\* The statuses of records whose undelegation may be in flight.
Unswept == {"UNBONDING_IN_PROGRESS", "UNBONDING_RETRY_QUEUE", "EXIT_TRANSFER_QUEUE"}

\* What the counters and the statuses depend on.
RecordOK(r) ==
    {"status", "txs", "unbondingTime"} \subseteq DOMAIN r /\ r.txs \in Int /\ r.unbondingTime \in Int
IcaOK(p) ==
    /\ {"kind", "ids", "state", "completion"} \subseteq DOMAIN p
    /\ p.kind \in {"undelegate", "sweep"} /\ p.completion \in Int
    /\ p.kind = "undelegate" /\ p.state = "success" => p.completion >= 0

\* A record whose undelegation is not yet acknowledged in full: it is not swept, and cannot
\* be, as its unbonding time is still to come.
Awaited(r) ==
    r.status \in Unswept /\ (r.status = "EXIT_TRANSFER_QUEUE" => r.unbondingTime >= 0)
InProgress(r, p) ==
    IF p.kind = "undelegate" THEN Awaited(r) ELSE r.status = "EXIT_TRANSFER_IN_PROGRESS"
Apart(p, q) == p.kind = "sweep" /\ q.kind = "sweep" => p.ids \cap q.ids = {}
Undelegates(d, s) == {n \in DOMAIN s : s[n].kind = "undelegate" /\ d \in s[n].ids}

\* Records and packets agree.
Consistent(records, s) ==
    /\ \A d \in Days : RecordOK(records[d])
    /\ \A n \in DOMAIN s : /\ IcaOK(s[n]) /\ s[n].ids \subseteq Days
                           /\ \A d \in s[n].ids : InProgress(records[d], s[n])
    /\ \A m, n \in DOMAIN s : m = n \/ Apart(s[m], s[n])
    /\ \A d \in Days : records[d].txs = Cardinality(Undelegates(d, s))

UInv == PInv /\ Consistent(hostZoneUnbondings, packets)

\* What a step may do to a status, as NoStatusRegress says.
Forward(old, new) ==
    /\ old \in {"EXIT_TRANSFER_QUEUE", "EXIT_TRANSFER_IN_PROGRESS"} =>
          new \in {"EXIT_TRANSFER_QUEUE", "EXIT_TRANSFER_IN_PROGRESS", "CLAIMABLE"}
    /\ old = "CLAIMABLE" => new \in {"CLAIMABLE", "NONE"}
StatusStep == \A d \in Days : Forward(hostZoneUnbondings[d].status, hostZoneUnbondings'[d].status)
-----------------------------------------------------------------------------
\* s without its element m.
Dropped(s, m, t) ==
    \E L \in Nat : /\ DOMAIN s = 1..L /\ m \in 1..L /\ DOMAIN t = 1..(L - 1)
                   /\ \A n \in 1..(L - 1) : t[n] = s[IF n < m THEN n ELSE n + 1]

\* The concatenation of two sequences, index by index.
LEMMA Concatenated ==
    ASSUME NEW X, NEW a \in Seq(X), NEW b \in Seq(X)
    PROVE  /\ Len(a) \in Nat /\ Len(b) \in Nat /\ DOMAIN (a \o b) = 1..(Len(a) + Len(b))
           /\ \A n \in 1..(Len(a) + Len(b)) :
                 (a \o b)[n] = IF n <= Len(a) THEN a[n] ELSE b[n - Len(a)]
<1>1. a \o b \in Seq(X) /\ Len(a \o b) = Len(a) + Len(b)
  BY Zenon, ConcatProperties
<1>2. DOMAIN (a \o b) = 1..Len(a \o b)
  BY Zenon, <1>1, LenProperties
<1>3. Len(a) \in Nat /\ Len(b) \in Nat
  BY Zenon, LenProperties
<1>4. \A n \in 1..(Len(a) + Len(b)) : (a \o b)[n] = IF n <= Len(a) THEN a[n] ELSE b[n - Len(a)]
  BY Zenon, ConcatProperties
<1> QED
  BY Zenon, <1>1, <1>2, <1>3, <1>4

\* An acknowledgement drops the first packet.
LEMMA TailDrops ==
    ASSUME NEW X, NEW s \in Seq(X), s # <<>>
    PROVE  Dropped(s, 1, Tail(s))
<1>1. /\ Len(s) \in Nat /\ DOMAIN s = 1..Len(s) /\ Len(s) # 0 /\ DOMAIN Tail(s) = 1..(Len(s) - 1)
      /\ \A n \in 1..(Len(s) - 1) : Tail(s)[n] = s[n + 1] /\ ~(n < 1)
  OBVIOUS
<1>2. 1 \in 1..Len(s) /\ \A n \in 1..(Len(s) - 1) : Tail(s)[n] = s[IF n < 1 THEN n ELSE n + 1]
  BY <1>1
<1> QED
  BY Zenon, <1>1, <1>2 DEF Dropped

\* A timeout drops its packet.
LEMMA WithoutDrops ==
    ASSUME NEW X, packets \in Seq(X), NEW m \in DOMAIN packets
    PROVE  Dropped(packets, m, Without(m))
<1>1. PICK L \in Nat : L = Len(packets) /\ DOMAIN packets = 1..L /\ m \in 1..L
  OBVIOUS
<1> DEFINE a == SubSeq(packets, 1, m - 1)
           b == SubSeq(packets, m + 1, L)
<1>2. a \in Seq(X) /\ Len(a) = m - 1 /\ \A n \in 1..(m - 1) : a[n] = packets[n]
  BY <1>1
<1>3. b \in Seq(X) /\ Len(b) = L - m /\ \A n \in 1..(L - m) : b[n] = packets[m + n]
  BY <1>1
<1>4. Without(m) = a \o b
  BY <1>1 DEF Without
<1> HIDE DEF a, b
<1>5. /\ DOMAIN (a \o b) = 1..(L - 1)
      /\ \A n \in 1..(L - 1) : (a \o b)[n] = IF n < m THEN a[n] ELSE b[n - (m - 1)]
  <2>1. /\ Len(a) \in Nat /\ Len(b) \in Nat /\ Len(a) + Len(b) = L - 1
        /\ \A n \in 1..(L - 1) : n < m <=> n <= Len(a)
    BY <1>1, <1>2, <1>3
  <2>2. DOMAIN (a \o b) = 1..(Len(a) + Len(b))
    BY Zenon, <1>2, <1>3, Concatenated
  <2>3. \A n \in 1..(Len(a) + Len(b)) : (a \o b)[n] = IF n <= Len(a) THEN a[n] ELSE b[n - Len(a)]
    BY Zenon, <1>2, <1>3, Concatenated
  <2> QED
    BY Zenon, <1>2, <2>1, <2>2, <2>3
<1>6. ASSUME NEW n \in 1..(L - 1) PROVE (a \o b)[n] = packets[IF n < m THEN n ELSE n + 1]
  <2>1. CASE n < m
    BY <1>1, <1>2, <1>5, <2>1
  <2>2. CASE ~(n < m)
    <3>1. n - (m - 1) \in 1..(L - m) /\ m + (n - (m - 1)) = n + 1
      BY <1>1, <2>2
    <3> QED
      BY Zenon, <1>3, <1>5, <2>2, <3>1
  <2> QED
    BY Zenon, <2>1, <2>2
<1> QED
  BY Zenon, <1>1, <1>4, <1>5, <1>6 DEF Dropped

\* The other elements are kept, each at one place.
LEMMA DroppedMap ==
    ASSUME NEW s, NEW t, NEW m, Dropped(s, m, t)
    PROVE  \E f \in [DOMAIN t -> DOMAIN s] :
              /\ \A n \in DOMAIN t : f[n] # m /\ t[n] = s[f[n]]
              /\ \A k, n \in DOMAIN t : f[k] = f[n] => k = n
              /\ \A k \in DOMAIN s \ {m} : \E n \in DOMAIN t : f[n] = k
              /\ m \in DOMAIN s
<1>1. PICK L \in Nat : /\ DOMAIN s = 1..L /\ m \in 1..L /\ DOMAIN t = 1..(L - 1)
                       /\ \A n \in 1..(L - 1) : t[n] = s[IF n < m THEN n ELSE n + 1]
  BY DEF Dropped
<1> DEFINE f == [n \in 1..(L - 1) |-> IF n < m THEN n ELSE n + 1]
<1>2. f \in [DOMAIN t -> DOMAIN s] /\ \A n \in DOMAIN t : f[n] # m /\ t[n] = s[f[n]]
  BY <1>1
<1>3. \A k, n \in DOMAIN t : f[k] = f[n] => k = n
  BY <1>1
<1>4. ASSUME NEW k \in DOMAIN s \ {m} PROVE \E n \in DOMAIN t : f[n] = k
  <2>1. CASE k < m
    BY <1>1, <2>1
  <2>2. CASE ~(k < m)
    <3>1. k - 1 \in 1..(L - 1) /\ f[k - 1] = k
      BY <1>1, <2>2
    <3> QED
      BY <1>1, <3>1
  <2> QED
    BY <2>1, <2>2
<1> QED
  BY Zenon, <1>1, <1>2, <1>3, <1>4

\* Dropping a packet takes it out of the count.
LEMMA CountDropped ==
    ASSUME NEW s, NEW t, NEW m, Dropped(s, m, t), NEW d
    PROVE  /\ Cardinality(Undelegates(d, s)) \in Nat
           /\ Cardinality(Undelegates(d, t)) =
                 Cardinality(Undelegates(d, s)) - (IF m \in Undelegates(d, s) THEN 1 ELSE 0)
<1>1. PICK f \in [DOMAIN t -> DOMAIN s] :
              /\ \A n \in DOMAIN t : f[n] # m /\ t[n] = s[f[n]]
              /\ \A k, n \in DOMAIN t : f[k] = f[n] => k = n
              /\ \A k \in DOMAIN s \ {m} : \E n \in DOMAIN t : f[n] = k
  BY DroppedMap
<1>2. IsFiniteSet(DOMAIN s) /\ IsFiniteSet(DOMAIN t)
  <2>1. PICK L \in Nat : DOMAIN s = 1..L /\ DOMAIN t = 1..(L - 1)
    BY Zenon DEF Dropped
  <2>2. 1 \in Int /\ L \in Int /\ L - 1 \in Int
    OBVIOUS
  <2> QED
    BY Zenon, <2>1, <2>2, FS_Interval
<1> DEFINE U == Undelegates(d, s)
           V == Undelegates(d, t)
           g == [n \in V |-> f[n]]
<1>3. IsFiniteSet(U) /\ IsFiniteSet(V)
  BY <1>2, FS_Subset DEF Undelegates
<1>4. g \in [V -> U \ {m}]
  BY <1>1 DEF Undelegates
<1>5. g \in Bijection(V, U \ {m})
  <2>1. \A k, n \in V : g[k] = g[n] => k = n
    BY <1>1 DEF Undelegates
  <2>2. \A k \in U \ {m} : \E n \in V : g[n] = k
    BY <1>1 DEF Undelegates
  <2> HIDE DEF g, U, V
  <2> QED
    BY <1>4, <2>1, <2>2 DEF Bijection, Injection, Surjection, IsInjective
<1> HIDE DEF g, U, V
<1>6. Cardinality(V) = Cardinality(U \ {m})
  BY <1>3, <1>5, FS_Bijection DEF ExistsBijection
<1>7. /\ Cardinality(U) \in Nat
      /\ Cardinality(U \ {m}) = Cardinality(U) - (IF m \in U THEN 1 ELSE 0)
  BY <1>3, FS_CardinalityType, FS_RemoveElement
<1> QED
  BY <1>6, <1>7 DEF U, V

\* Packets with the same kinds and ids count the same.
LEMMA CountSame ==
    ASSUME NEW s, NEW t, DOMAIN t = DOMAIN s,
           \A n \in DOMAIN s : t[n].kind = s[n].kind /\ t[n].ids = s[n].ids, NEW d
    PROVE  Undelegates(d, t) = Undelegates(d, s)
BY Zenon DEF Undelegates

\* t is s with new at its end.
Extended(s, new, t) ==
    \E L \in Nat, k \in Nat :
        /\ DOMAIN s = 1..L /\ DOMAIN new = 1..k /\ DOMAIN t = 1..(L + k)
        /\ \A n \in 1..L : t[n] = s[n]
        /\ \A n \in 1..k : t[L + n] = new[n]

\* Concatenation, as the epochs use it.
LEMMA ConcatExtends ==
    ASSUME NEW X, NEW s \in Seq(X), NEW Y, NEW new \in Seq(Y)
    PROVE  Extended(s, new, s \o new)
<1> DEFINE Z == X \cup Y
<1>1. s \in Seq(Z) /\ new \in Seq(Z)
  BY SeqMonotonic
<1> HIDE DEF Z
<1>2. PICK L \in Nat : L = Len(s) /\ DOMAIN s = 1..L
  BY Zenon, <1>1, LenProperties
<1>3. PICK k \in Nat : k = Len(new) /\ DOMAIN new = 1..k
  BY Zenon, <1>1, LenProperties
<1>4. /\ DOMAIN (s \o new) = 1..(L + k)
      /\ \A n \in 1..(L + k) : (s \o new)[n] = IF n <= L THEN s[n] ELSE new[n - L]
  BY Zenon, <1>1, <1>2, <1>3, Concatenated
<1>5. \A n \in 1..L : (s \o new)[n] = s[n]
  BY <1>4
<1>6. ASSUME NEW n \in 1..k PROVE (s \o new)[L + n] = new[n]
  <2>1. L + n \in 1..(L + k) /\ ~(L + n <= L) /\ (L + n) - L = n
    OBVIOUS
  <2> QED
    BY Zenon, <1>4, <2>1
<1> QED
  BY Zenon, <1>2, <1>3, <1>4, <1>5, <1>6 DEF Extended

\* Packets at the end that are about other records, or are sweeps, do not count.
LEMMA CountExtended ==
    ASSUME NEW s, NEW new, NEW t, Extended(s, new, t), NEW d
    PROVE  /\ Undelegates(d, new) = {} => Undelegates(d, t) = Undelegates(d, s)
           /\ \A k \in Nat :
                 Undelegates(d, s) = {} /\ DOMAIN new = 1..k /\ Undelegates(d, new) = 1..k =>
                    Cardinality(Undelegates(d, t)) = k
<1>1. PICK L \in Nat, k \in Nat :
        /\ DOMAIN s = 1..L /\ DOMAIN new = 1..k /\ DOMAIN t = 1..(L + k)
        /\ \A n \in 1..L : t[n] = s[n]
        /\ \A n \in 1..k : t[L + n] = new[n]
  BY Zenon DEF Extended
<1>2. \A n \in DOMAIN t : \/ n \in DOMAIN s /\ t[n] = s[n]
                          \/ n - L \in 1..k /\ t[n] = new[n - L]
  <2> TAKE n \in DOMAIN t
  <2>1. n \in 1..L \/ (n - L \in 1..k /\ L + (n - L) = n)
    BY <1>1
  <2> QED
    BY Zenon, <1>1, <2>1
<1>3. \A n \in DOMAIN s : n \in DOMAIN t
  BY <1>1
<1>4. ASSUME Undelegates(d, new) = {} PROVE Undelegates(d, t) = Undelegates(d, s)
  <2>1. ASSUME NEW n \in Undelegates(d, t) PROVE n \in Undelegates(d, s)
    <3>1. n \in DOMAIN t /\ t[n].kind = "undelegate" /\ d \in t[n].ids
      BY Zenon DEF Undelegates
    <3>2. CASE n \in DOMAIN s /\ t[n] = s[n]
      BY Zenon, <3>1, <3>2 DEF Undelegates
    <3>3. CASE n - L \in 1..k /\ t[n] = new[n - L]
      <4>1. n - L \in Undelegates(d, new)
        BY Zenon, <1>1, <3>1, <3>3 DEF Undelegates
      <4> QED
        BY Zenon, <1>4, <4>1
    <3> QED
      BY Zenon, <1>2, <3>1, <3>2, <3>3
  <2>2. ASSUME NEW n \in Undelegates(d, s) PROVE n \in Undelegates(d, t)
    BY Zenon, <1>1, <1>3 DEF Undelegates
  <2> QED
    BY Zenon, <2>1, <2>2
<1>5. ASSUME NEW j \in Nat, Undelegates(d, s) = {}, DOMAIN new = 1..j, Undelegates(d, new) = 1..j
      PROVE  Cardinality(Undelegates(d, t)) = j
  <2>1. j = k
    BY <1>1, <1>5
  <2>2. Undelegates(d, t) = (L + 1)..(L + k)
    <3>1. ASSUME NEW n \in (L + 1)..(L + k) PROVE n \in Undelegates(d, t)
      <4>1. n \in DOMAIN t /\ n \notin DOMAIN s /\ n - L \in 1..k
        BY <1>1
      <4>2. t[n] = new[n - L]
        BY Zenon, <1>2, <4>1
      <4> QED
        BY Zenon, <1>5, <2>1, <4>1, <4>2 DEF Undelegates
    <3>2. ASSUME NEW n \in Undelegates(d, t) PROVE n \in (L + 1)..(L + k)
      <4>1. n \in DOMAIN t /\ n \notin DOMAIN s
        BY Zenon, <1>1, <1>5, <3>2 DEF Undelegates
      <4> QED
        BY <1>1, <4>1
    <3> QED
      BY Zenon, <3>1, <3>2
  <2>3. L + 1 \in Int /\ L + k \in Int /\ (L + k) - (L + 1) + 1 = k
    OBVIOUS
  <2> QED
    BY <2>1, <2>2, <2>3, FS_Interval
<1> QED
  BY Zenon, <1>4, <1>5

\* A counter at zero means that nothing is in flight.
LEMMA CountZero ==
    ASSUME NEW X, NEW s \in Seq(X), NEW d
    PROVE  /\ Cardinality(Undelegates(d, s)) = 0 <=> Undelegates(d, s) = {}
           /\ Cardinality(Undelegates(d, s)) \in Nat
<1>1. IsFiniteSet(1..Len(s)) /\ DOMAIN s = 1..Len(s)
  BY LenProperties, FS_Interval
<1>2. IsFiniteSet(Undelegates(d, s))
  BY <1>1, FS_Subset DEF Undelegates
<1> QED
  BY <1>2, FS_EmptySet, FS_CardinalityType
-----------------------------------------------------------------------------
(* Counters and statuses                                                   *)

\* The statuses of the records, and what is known of the packets, at the start.
LEMMA InitUInv == Init => UInv
<1> SUFFICES ASSUME Init PROVE UInv
  BY Zenon
<1>1. packets = <<>> /\ DOMAIN packets = {}
  BY DEF Init
<1>2. \A d \in Days : RecordOK(hostZoneUnbondings[d]) /\ hostZoneUnbondings[d].txs = 0
  BY DEF Init, RecordOK, NewHostZoneUnbonding, NoHostZoneUnbonding, Unset
<1>3. \A d \in Days : Cardinality(Undelegates(d, packets)) = 0
  BY <1>1, FS_EmptySet DEF Undelegates
<1>4. Consistent(hostZoneUnbondings, packets)
  BY Zenon, <1>1, <1>2, <1>3 DEF Consistent
<1> QED
  BY Zenon, <1>4, InitPInv DEF UInv

\* Records with the same status, counter and unbonding time agree with the same packets.
LEMMA SameRecords ==
    ASSUME NEW old, NEW s, Consistent(old, s), NEW new,
           \A d \in Days : /\ RecordOK(new[d]) /\ new[d].status = old[d].status
                           /\ new[d].txs = old[d].txs
                           /\ new[d].unbondingTime = old[d].unbondingTime
    PROVE  Consistent(new, s)
<1>1. ASSUME NEW n \in DOMAIN s, NEW d \in s[n].ids PROVE InProgress(new[d], s[n])
  BY Zenon DEF Consistent, InProgress, Awaited
<1> QED
  BY Zenon, <1>1 DEF Consistent

\* Every status may stay.
LEMMA ForwardSame == \A st : Forward(st, st)
BY Zenon DEF Forward

\* MsgRedeemStake changes amounts of today's record.
LEMMA RedeemStakeU ==
    ASSUME UInv, NEW u \in Users, NEW amount \in RedeemAmounts, RedeemStake(u, amount)
    PROVE  UInv' /\ StatusStep
<1>1. /\ packets' = packets /\ day \in Days
      /\ hostZoneUnbondings' = [hostZoneUnbondings EXCEPT ![day] =
            [@ EXCEPT !.stTokenAmount = @ + amount, !.nativeTokenAmount = @ + ToNative(amount)]]
  BY Zenon DEF RedeemStake
<1>2. DOMAIN hostZoneUnbondings = Days /\ \A d \in Days : RecordOK(hostZoneUnbondings[d])
  BY Zenon DEF UInv, PInv, OpenDay, Consistent
<1>3. ASSUME NEW d \in Days
      PROVE  /\ RecordOK(hostZoneUnbondings'[d])
             /\ hostZoneUnbondings'[d].status = hostZoneUnbondings[d].status
             /\ hostZoneUnbondings'[d].txs = hostZoneUnbondings[d].txs
             /\ hostZoneUnbondings'[d].unbondingTime = hostZoneUnbondings[d].unbondingTime
  <2>1. RecordOK(hostZoneUnbondings[d])
    BY Zenon, <1>2
  <2>2. CASE d # day
    BY Zenon, <1>1, <1>2, <2>1, <2>2
  <2>3. CASE d = day
    <3>1. PICK v, w : hostZoneUnbondings'[d] =
              [hostZoneUnbondings[d] EXCEPT !.stTokenAmount = v, !.nativeTokenAmount = w]
      BY Zenon, <1>1, <1>2, <2>3
    <3> QED
      BY <2>1, <3>1 DEF RecordOK
  <2> QED
    BY Zenon, <2>2, <2>3
<1>4. Consistent(hostZoneUnbondings', packets')
  BY Zenon, <1>1, <1>3, SameRecords DEF UInv
<1>5. PInv'
  BY Zenon, RedeemStakeStep DEF UInv
<1> QED
  BY Zenon, <1>3, <1>4, <1>5, ForwardSame DEF UInv, StatusStep

\* Steps that leave the records and the packets alone.
LEMMA SameRecordsU ==
    ASSUME UInv, PInv', UNCHANGED <<hostZoneUnbondings, packets>>
    PROVE  UInv' /\ StatusStep
<1>1. hostZoneUnbondings' = hostZoneUnbondings /\ packets' = packets
  BY Zenon
<1>2. Consistent(hostZoneUnbondings', packets')
  BY Zenon, <1>1 DEF UInv
<1> QED
  BY Zenon, <1>1, <1>2, ForwardSame DEF UInv, StatusStep

\* A successful claim changes what can still be claimed.
LEMMA ClaimEndU ==
    ASSUME UInv, NEW d \in Days, NEW u \in Users,
           ClaimAcknowledged(d, u) \/ ClaimTimedOut(d, u)
    PROVE  UInv' /\ StatusStep
<1>0. PInv'
  BY Zenon, ClaimEnd DEF UInv
<1>1. /\ packets' = packets
      /\ \/ UNCHANGED hostZoneUnbondings
         \/ hostZoneUnbondings' = [hostZoneUnbondings EXCEPT ![d].claimableNativeTokens =
                                      @ - userRedemptions[d][u].nativeTokenAmount]
  BY Zenon DEF ClaimAcknowledged, ClaimTimedOut, ClaimCallback
<1>2. DOMAIN hostZoneUnbondings = Days /\ \A e \in Days : RecordOK(hostZoneUnbondings[e])
  BY Zenon DEF UInv, PInv, OpenDay, Consistent
<1>3. CASE UNCHANGED hostZoneUnbondings
  BY Zenon, <1>0, <1>1, <1>3, SameRecordsU
<1>4. CASE hostZoneUnbondings' = [hostZoneUnbondings EXCEPT ![d].claimableNativeTokens =
                                      @ - userRedemptions[d][u].nativeTokenAmount]
  <2>1. ASSUME NEW e \in Days
        PROVE  /\ RecordOK(hostZoneUnbondings'[e])
               /\ hostZoneUnbondings'[e].status = hostZoneUnbondings[e].status
               /\ hostZoneUnbondings'[e].txs = hostZoneUnbondings[e].txs
               /\ hostZoneUnbondings'[e].unbondingTime = hostZoneUnbondings[e].unbondingTime
    BY <1>2, <1>4 DEF RecordOK
  <2>2. Consistent(hostZoneUnbondings', packets')
    BY Zenon, <1>1, <2>1, SameRecords DEF UInv
  <2> QED
    BY Zenon, <1>0, <2>1, <2>2, ForwardSame DEF UInv, StatusStep
<1> QED
  BY Zenon, <1>1, <1>3, <1>4

\* The host's clock: no acknowledgement of an undelegation is awaited once it is mature.
LEMMA TickU ==
    ASSUME AcksBeforeMaturity, UInv, PInv', Tick
    PROVE  UInv' /\ StatusStep
<1> DEFINE older(left) == IF left >= 0 THEN left - 1 ELSE left
<1>1. /\ \A n \in DOMAIN packets : packets[n].kind = "undelegate" =>
            /\ packets[n].completion # 0
            /\ \A d \in packets[n].ids : hostZoneUnbondings[d].unbondingTime # 0
      /\ hostZoneUnbondings' = [d \in Days |->
            [hostZoneUnbondings[d] EXCEPT !.unbondingTime = older(@)]]
      /\ packets' = [n \in DOMAIN packets |-> [packets[n] EXCEPT !.completion = older(@)]]
  BY Zenon DEF Tick
<1>2. \A left \in Int : older(left) \in Int /\ (left >= 0 /\ left # 0 => older(left) >= 0)
  OBVIOUS
<1> HIDE DEF older
<1>3. ASSUME NEW d \in Days
      PROVE  /\ RecordOK(hostZoneUnbondings'[d])
             /\ hostZoneUnbondings'[d].status = hostZoneUnbondings[d].status
             /\ hostZoneUnbondings'[d].txs = hostZoneUnbondings[d].txs
             /\ hostZoneUnbondings'[d].unbondingTime = older(hostZoneUnbondings[d].unbondingTime)
  <2>1. RecordOK(hostZoneUnbondings[d])
    BY Zenon DEF UInv, Consistent
  <2>2. hostZoneUnbondings'[d] = [hostZoneUnbondings[d] EXCEPT
            !.unbondingTime = older(hostZoneUnbondings[d].unbondingTime)]
    BY Zenon, <1>1
  <2> QED
    BY Zenon, <1>2, <2>1, <2>2 DEF RecordOK
<1>4. ASSUME NEW n \in DOMAIN packets
      PROVE  /\ IcaOK(packets'[n]) /\ packets'[n].kind = packets[n].kind
             /\ packets'[n].ids = packets[n].ids
  <2>1. IcaOK(packets[n])
    BY Zenon DEF UInv, Consistent
  <2>2. packets'[n] = [packets[n] EXCEPT !.completion = older(packets[n].completion)]
    BY Zenon, <1>1
  <2>3. packets[n].kind = "undelegate" => packets[n].completion # 0
    BY Zenon, <1>1
  <2> QED
    BY Zenon, <1>2, <2>1, <2>2, <2>3 DEF IcaOK
<1>5. DOMAIN packets' = DOMAIN packets
  BY Zenon, <1>1
<1>6. ASSUME NEW n \in DOMAIN packets, NEW d \in packets[n].ids
      PROVE  InProgress(hostZoneUnbondings'[d], packets'[n])
  <2>1. d \in Days /\ InProgress(hostZoneUnbondings[d], packets[n])
    BY Zenon DEF UInv, Consistent
  <2>2. hostZoneUnbondings[d].unbondingTime \in Int
    BY Zenon, <2>1 DEF UInv, Consistent, RecordOK
  <2> QED
    BY Zenon, <1>1, <1>2, <1>3, <1>4, <2>1, <2>2 DEF InProgress, Awaited
<1>7. \A d \in Days : Undelegates(d, packets') = Undelegates(d, packets)
  BY Zenon, <1>4, <1>5, CountSame
<1>8. Consistent(hostZoneUnbondings', packets')
  BY Zenon, <1>3, <1>4, <1>5, <1>6, <1>7 DEF UInv, Consistent, Apart
<1> QED
  BY Zenon, <1>3, <1>8, ForwardSame DEF UInv, StatusStep

\* The host executes an ICA; an undelegation completes after the unbonding period.
LEMMA HostExecutesU ==
    ASSUME UInv, PInv', NEW m \in DOMAIN packets, HostExecutes(m)
    PROVE  UInv' /\ StatusStep
<1>1. /\ hostZoneUnbondings' = hostZoneUnbondings
      /\ \/ packets' = [packets EXCEPT ![m].state = "success", ![m].completion = UnbondingPeriod]
         \/ packets' = [packets EXCEPT ![m].state = "success"] /\ packets[m].kind = "sweep"
         \/ packets' = [packets EXCEPT ![m].state = "failure"]
  BY Zenon DEF HostExecutes
<1>2. DOMAIN packets' = DOMAIN packets /\ \A n \in DOMAIN packets : n # m => packets'[n] = packets[n]
  BY Zenon, <1>1
<1>3. IcaOK(packets'[m]) /\ packets'[m].kind = packets[m].kind /\ packets'[m].ids = packets[m].ids
  <2>1. IcaOK(packets[m]) /\ UnbondingPeriod \in Nat
    BY Zenon, UnbondingAssumptions DEF UInv, Consistent
  <2>2. UnbondingPeriod \in Int /\ UnbondingPeriod >= 0
    BY <2>1
  <2>3. \/ packets'[m] = [packets[m] EXCEPT !.state = "success", !.completion = UnbondingPeriod]
        \/ packets'[m] = [packets[m] EXCEPT !.state = "success"] /\ packets[m].kind = "sweep"
        \/ packets'[m] = [packets[m] EXCEPT !.state = "failure"]
    BY <1>1
  <2> QED
    BY Zenon, <2>1, <2>2, <2>3 DEF IcaOK
<1>4. \A n \in DOMAIN packets : /\ IcaOK(packets'[n]) /\ packets'[n].kind = packets[n].kind
                                /\ packets'[n].ids = packets[n].ids
  BY Zenon, <1>2, <1>3 DEF UInv, Consistent
<1>5. \A d \in Days : Undelegates(d, packets') = Undelegates(d, packets)
  BY Zenon, <1>2, <1>4, CountSame
<1>6. \A n \in DOMAIN packets : \A d \in packets[n].ids :
          InProgress(hostZoneUnbondings'[d], packets'[n])
  BY Zenon, <1>1, <1>4 DEF UInv, Consistent, InProgress
<1>7. \A k, n \in DOMAIN packets : k = n \/ Apart(packets'[k], packets'[n])
  BY Zenon, <1>4 DEF UInv, Consistent, Apart
<1>8. \A n \in DOMAIN packets : packets'[n].ids \subseteq Days
  BY Zenon, <1>4 DEF UInv, Consistent
<1>9. \A d \in Days : /\ RecordOK(hostZoneUnbondings'[d])
                       /\ hostZoneUnbondings'[d].txs = Cardinality(Undelegates(d, packets'))
  BY Zenon, <1>1, <1>5 DEF UInv, Consistent
<1>10. Consistent(hostZoneUnbondings', packets')
  BY Zenon, <1>2, <1>4, <1>6, <1>7, <1>8, <1>9 DEF Consistent
<1> QED
  BY Zenon, <1>1, <1>10, ForwardSame DEF UInv, StatusStep

\* MsgRestoreInterchainAccount: no packet is left, and no counter.
LEMMA RestoreDelegationU ==
    ASSUME UInv, RestoreInterchainAccount
    PROVE  UInv' /\ StatusStep
<1>0. PInv'
  BY Zenon, RestoreDelegationStep DEF UInv
<1>1. packets' = <<>> /\ hostZoneUnbondings' = [d \in Days |-> Restored(hostZoneUnbondings[d])]
  BY Zenon DEF RestoreInterchainAccount
<1>2. ASSUME NEW d \in Days
      PROVE  /\ RecordOK(hostZoneUnbondings'[d]) /\ hostZoneUnbondings'[d].txs = 0
             /\ Forward(hostZoneUnbondings[d].status, hostZoneUnbondings'[d].status)
  <2>1. RecordOK(hostZoneUnbondings[d])
    BY Zenon DEF UInv, Consistent
  <2>2. PICK st : /\ hostZoneUnbondings'[d] = [hostZoneUnbondings[d] EXCEPT !.txs = 0, !.status = st]
                  /\ Forward(hostZoneUnbondings[d].status, st)
    BY Zenon, <1>1, <2>1 DEF Restored, Forward, RecordOK
  <2> QED
    BY <2>1, <2>2 DEF RecordOK
<1>3. DOMAIN packets' = {}
  BY <1>1
<1>4. \A d \in Days : Cardinality(Undelegates(d, packets')) = 0
  BY <1>3, FS_EmptySet DEF Undelegates
<1>5. Consistent(hostZoneUnbondings', packets')
  BY Zenon, <1>2, <1>3, <1>4 DEF Consistent
<1> QED
  BY Zenon, <1>0, <1>2, <1>5 DEF UInv, StatusStep

\* What UndelegateCallback does to the records of its packet.
LEMMA UndelegateRecords ==
    ASSUME UInv, NEW p, IcaOK(p), p.kind = "undelegate", p.ids \subseteq Days,
           \A d \in p.ids : Awaited(hostZoneUnbondings[d]),
           NEW status, status \in {p.state, "timeout"}, UndelegateCallback(p, status), NEW d \in Days
    PROVE  /\ RecordOK(hostZoneUnbondings'[d])
           /\ d \notin p.ids => hostZoneUnbondings'[d] = hostZoneUnbondings[d]
           /\ d \in p.ids => /\ hostZoneUnbondings'[d].txs = hostZoneUnbondings[d].txs - 1
                             /\ Awaited(hostZoneUnbondings'[d])
                             /\ hostZoneUnbondings[d].status = "EXIT_TRANSFER_QUEUE" =>
                                   hostZoneUnbondings'[d].status = "EXIT_TRANSFER_QUEUE"
<1> DEFINE r == hostZoneUnbondings[d]
           q == hostZoneUnbondings'[d]
<1>1. RecordOK(r) /\ r.txs - 1 \in Int /\ (d \in p.ids => Awaited(r))
  <2>1. RecordOK(r)
    BY Zenon DEF UInv, Consistent
  <2> QED
    BY <2>1 DEF RecordOK
<1>2. CASE d \notin p.ids
  <2>1. q = r
    BY Zenon, <1>2 DEF UndelegateCallback, Acked, SetStatus, Retried
  <2> QED
    BY Zenon, <1>1, <1>2, <2>1
<1>3. CASE d \in p.ids
  <2>1. \/ q = [r EXCEPT !.txs = r.txs - 1] /\ (status = "success" => r.status = "EXIT_TRANSFER_QUEUE")
        \/ /\ q = [[r EXCEPT !.txs = r.txs - 1] EXCEPT !.status = "UNBONDING_RETRY_QUEUE"]
           /\ r.status = "UNBONDING_IN_PROGRESS"
        \/ /\ q = [AfterUndelegation(d, p) EXCEPT !.txs = @ - 1]
           /\ status = "success" /\ r.status # "EXIT_TRANSFER_QUEUE"
    BY Zenon, <1>3 DEF UndelegateCallback, Acked, SetStatus, Retried, WithStatus, Completed
  <2>2. CASE q = [r EXCEPT !.txs = r.txs - 1]
    BY Zenon, <1>1, <1>3, <2>2 DEF RecordOK, Awaited
  <2>3. CASE /\ q = [[r EXCEPT !.txs = r.txs - 1] EXCEPT !.status = "UNBONDING_RETRY_QUEUE"]
             /\ r.status = "UNBONDING_IN_PROGRESS"
    BY <1>1, <1>3, <2>3 DEF RecordOK, Awaited, Unswept
  <2>4. CASE /\ q = [AfterUndelegation(d, p) EXCEPT !.txs = @ - 1]
             /\ status = "success" /\ r.status # "EXIT_TRANSFER_QUEUE"
    <3>1. p.completion \in Int /\ p.completion >= 0
      BY Zenon, <2>4 DEF IcaOK
    <3>2. PICK native, burn, st, time :
             /\ AfterUndelegation(d, p) =
                   [r EXCEPT !.nativeTokensToUnbond = native, !.stTokensToBurn = burn,
                             !.status = st, !.unbondingTime = time]
             /\ st \in {"EXIT_TRANSFER_QUEUE", r.status}
             /\ time = IF p.completion > r.unbondingTime THEN p.completion ELSE r.unbondingTime
      BY Zenon DEF AfterUndelegation
    <3>3. time \in Int /\ time >= 0
      BY <1>1, <3>1, <3>2 DEF RecordOK
    <3>4. /\ RecordOK(AfterUndelegation(d, p)) /\ AfterUndelegation(d, p).txs = r.txs
          /\ AfterUndelegation(d, p).status = st /\ AfterUndelegation(d, p).unbondingTime = time
      BY <1>1, <3>2, <3>3 DEF RecordOK
    <3>5. RecordOK(q) /\ q.txs = r.txs - 1 /\ q.status = st /\ q.unbondingTime = time
      BY Zenon, <1>1, <2>4, <3>4 DEF RecordOK
    <3>6. st \in Unswept
      BY Zenon, <1>1, <1>3, <3>2 DEF Awaited, Unswept
    <3> QED
      BY Zenon, <1>3, <2>4, <3>3, <3>5, <3>6 DEF Awaited
  <2> QED
    BY Zenon, <2>1, <2>2, <2>3, <2>4
<1> QED
  BY Zenon, <1>2, <1>3

\* What RedemptionCallback does to the records of its sweep.
LEMMA SweepRecords ==
    ASSUME UInv, NEW p, p.ids \subseteq Days,
           \A d \in p.ids : hostZoneUnbondings[d].status = "EXIT_TRANSFER_IN_PROGRESS",
           NEW status, RedemptionCallback(p, status), NEW d \in Days
    PROVE  /\ RecordOK(hostZoneUnbondings'[d])
           /\ hostZoneUnbondings'[d].txs = hostZoneUnbondings[d].txs
           /\ d \notin p.ids => hostZoneUnbondings'[d] = hostZoneUnbondings[d]
           /\ d \in p.ids => hostZoneUnbondings'[d].status \in
                 {"EXIT_TRANSFER_IN_PROGRESS", "EXIT_TRANSFER_QUEUE", "CLAIMABLE"}
<1> DEFINE r == hostZoneUnbondings[d]
           q == hostZoneUnbondings'[d]
<1>1. RecordOK(r)
  BY Zenon DEF UInv, Consistent
<1>2. CASE d \notin p.ids
  <2>1. q = r
    BY Zenon, <1>2 DEF RedemptionCallback, SetStatus
  <2> QED
    BY Zenon, <1>1, <1>2, <2>1
<1>3. CASE d \in p.ids
  <2>1. \/ q = r \/ q = [r EXCEPT !.status = "EXIT_TRANSFER_QUEUE"]
        \/ \E v : q = [r EXCEPT !.status = "CLAIMABLE", !.claimableNativeTokens = v]
    BY Zenon, <1>3 DEF RedemptionCallback, SetStatus
  <2>2. CASE q = r
    BY Zenon, <1>1, <1>3, <2>2
  <2>3. CASE q = [r EXCEPT !.status = "EXIT_TRANSFER_QUEUE"]
    BY <1>1, <1>3, <2>3 DEF RecordOK
  <2>4. CASE \E v : q = [r EXCEPT !.status = "CLAIMABLE", !.claimableNativeTokens = v]
    <3>1. PICK v : q = [r EXCEPT !.status = "CLAIMABLE", !.claimableNativeTokens = v]
      BY Zenon, <2>4
    <3> QED
      BY <1>1, <1>3, <3>1 DEF RecordOK
  <2> QED
    BY Zenon, <2>1, <2>2, <2>3, <2>4
<1> QED
  BY Zenon, <1>2, <1>3

\* An acknowledgement or a timeout takes its packet away.
LEMMA CallbackU ==
    ASSUME UInv, PInv', NEW m \in DOMAIN packets, Dropped(packets, m, packets'),
           NEW status, status \in {packets[m].state, "timeout"}, Callback(packets[m], status)
    PROVE  UInv' /\ StatusStep
<1> DEFINE p == packets[m]
<1>1. IcaOK(p) /\ p.ids \subseteq Days /\ \A d \in p.ids : InProgress(hostZoneUnbondings[d], p)
  BY Zenon DEF UInv, Consistent
<1>2. PICK f \in [DOMAIN packets' -> DOMAIN packets] :
              /\ \A n \in DOMAIN packets' : f[n] # m /\ packets'[n] = packets[f[n]]
              /\ \A k, n \in DOMAIN packets' : f[k] = f[n] => k = n
              /\ \A k \in DOMAIN packets \ {m} : \E n \in DOMAIN packets' : f[n] = k
              /\ m \in DOMAIN packets
  BY DroppedMap
<1>3. ASSUME NEW n \in DOMAIN packets'
      PROVE  /\ f[n] \in DOMAIN packets /\ IcaOK(packets'[n]) /\ packets'[n].ids \subseteq Days
             /\ Apart(p, packets'[n])
             /\ \A d \in packets'[n].ids : InProgress(hostZoneUnbondings[d], packets'[n])
  <2>1. f[n] \in DOMAIN packets /\ f[n] # m /\ packets'[n] = packets[f[n]]
    BY Zenon, <1>2
  <2> QED
    BY Zenon, <2>1 DEF UInv, Consistent
<1>4. \A k, n \in DOMAIN packets' : k = n \/ Apart(packets'[k], packets'[n])
  <2> TAKE k, n \in DOMAIN packets'
  <2>1. f[k] \in DOMAIN packets /\ f[n] \in DOMAIN packets /\ (f[k] = f[n] => k = n)
    BY Zenon, <1>2
  <2>2. f[k] = f[n] \/ Apart(packets[f[k]], packets[f[n]])
    BY Zenon, <2>1 DEF UInv, Consistent
  <2> QED
    BY Zenon, <1>2, <2>1, <2>2
<1>5. ASSUME NEW d \in Days
      PROVE  /\ hostZoneUnbondings[d].txs \in Int
             /\ Cardinality(Undelegates(d, packets')) = hostZoneUnbondings[d].txs
                   - (IF p.kind = "undelegate" /\ d \in p.ids THEN 1 ELSE 0)
  <2>1. /\ hostZoneUnbondings[d].txs = Cardinality(Undelegates(d, packets))
        /\ hostZoneUnbondings[d].txs \in Int
    BY Zenon DEF UInv, Consistent, RecordOK
  <2>2. m \in Undelegates(d, packets) <=> p.kind = "undelegate" /\ d \in p.ids
    BY Zenon DEF Undelegates
  <2>3. Cardinality(Undelegates(d, packets')) = Cardinality(Undelegates(d, packets))
            - (IF m \in Undelegates(d, packets) THEN 1 ELSE 0)
    BY CountDropped
  <2> QED
    BY <2>1, <2>2, <2>3
<1> HIDE DEF p
<1>6. CASE p.kind = "undelegate"
  <2>1. UndelegateCallback(p, status) /\ status \in {p.state, "timeout"}
    BY Zenon, <1>6 DEF Callback, p
  <2>2. \A d \in p.ids : Awaited(hostZoneUnbondings[d])
    BY Zenon, <1>1, <1>6 DEF InProgress
  <2>3. ASSUME NEW d \in Days
        PROVE  /\ RecordOK(hostZoneUnbondings'[d])
               /\ d \notin p.ids => hostZoneUnbondings'[d] = hostZoneUnbondings[d]
               /\ d \in p.ids => /\ hostZoneUnbondings'[d].txs = hostZoneUnbondings[d].txs - 1
                                 /\ Awaited(hostZoneUnbondings'[d])
                                 /\ hostZoneUnbondings[d].status = "EXIT_TRANSFER_QUEUE" =>
                                       hostZoneUnbondings'[d].status = "EXIT_TRANSFER_QUEUE"
    BY Zenon, <1>1, <1>6, <2>1, <2>2, UndelegateRecords
  <2>4. ASSUME NEW d \in Days
        PROVE  hostZoneUnbondings'[d].txs = Cardinality(Undelegates(d, packets'))
    <3>1. CASE d \in p.ids
      BY Zenon, <1>5, <1>6, <2>3, <3>1
    <3>2. CASE d \notin p.ids
      BY <1>5, <1>6, <2>3, <3>2
    <3> QED
      BY Zenon, <3>1, <3>2
  <2>5. ASSUME NEW n \in DOMAIN packets', NEW d \in packets'[n].ids
        PROVE  InProgress(hostZoneUnbondings'[d], packets'[n])
    <3>1. d \in Days /\ InProgress(hostZoneUnbondings[d], packets'[n]) /\ IcaOK(packets'[n])
      BY Zenon, <1>3
    <3>2. CASE d \notin p.ids
      BY Zenon, <2>3, <3>1, <3>2
    <3>3. CASE d \in p.ids
      <4>1. packets'[n].kind = "undelegate"
        BY Zenon, <2>2, <3>1, <3>3 DEF InProgress, Awaited, Unswept, IcaOK
      <4> QED
        BY Zenon, <2>3, <3>1, <3>3, <4>1 DEF InProgress
    <3> QED
      BY Zenon, <3>2, <3>3
  <2>6. ASSUME NEW d \in Days
        PROVE  Forward(hostZoneUnbondings[d].status, hostZoneUnbondings'[d].status)
    <3>1. CASE d \in p.ids
      BY Zenon, <2>2, <2>3, <3>1 DEF Forward, Awaited, Unswept
    <3>2. CASE d \notin p.ids
      BY Zenon, <2>3, <3>2, ForwardSame
    <3> QED
      BY Zenon, <3>1, <3>2
  <2>7. Consistent(hostZoneUnbondings', packets')
    BY Zenon, <1>3, <1>4, <2>3, <2>4, <2>5 DEF Consistent
  <2> QED
    BY Zenon, <2>6, <2>7 DEF UInv, StatusStep
<1>7. CASE p.kind = "sweep"
  <2>1. RedemptionCallback(p, status)
    BY Zenon, <1>7 DEF Callback, p
  <2>2. \A d \in p.ids : hostZoneUnbondings[d].status = "EXIT_TRANSFER_IN_PROGRESS"
    BY Zenon, <1>1, <1>7 DEF InProgress
  <2>3. ASSUME NEW d \in Days
        PROVE  /\ RecordOK(hostZoneUnbondings'[d])
               /\ hostZoneUnbondings'[d].txs = hostZoneUnbondings[d].txs
               /\ d \notin p.ids => hostZoneUnbondings'[d] = hostZoneUnbondings[d]
               /\ d \in p.ids => hostZoneUnbondings'[d].status \in
                     {"EXIT_TRANSFER_IN_PROGRESS", "EXIT_TRANSFER_QUEUE", "CLAIMABLE"}
    BY Zenon, <1>1, <2>1, <2>2, SweepRecords
  <2>4. \A d \in Days : hostZoneUnbondings'[d].txs = Cardinality(Undelegates(d, packets'))
    BY <1>5, <1>7, <2>3
  <2>5. ASSUME NEW n \in DOMAIN packets', NEW d \in packets'[n].ids
        PROVE  InProgress(hostZoneUnbondings'[d], packets'[n])
    <3>1. /\ d \in Days /\ InProgress(hostZoneUnbondings[d], packets'[n]) /\ IcaOK(packets'[n])
          /\ Apart(p, packets'[n])
      BY Zenon, <1>3
    <3>2. d \notin p.ids
      <4>1. CASE packets'[n].kind = "undelegate"
        BY Zenon, <2>2, <3>1, <4>1 DEF InProgress, Awaited, Unswept
      <4>2. CASE packets'[n].kind = "sweep"
        BY Zenon, <1>7, <3>1, <4>2 DEF Apart
      <4> QED
        BY Zenon, <3>1, <4>1, <4>2 DEF IcaOK
    <3> QED
      BY Zenon, <2>3, <3>1, <3>2
  <2>6. ASSUME NEW d \in Days
        PROVE  Forward(hostZoneUnbondings[d].status, hostZoneUnbondings'[d].status)
    <3>1. CASE d \in p.ids
      BY Zenon, <2>2, <2>3, <3>1 DEF Forward
    <3>2. CASE d \notin p.ids
      BY Zenon, <2>3, <3>2, ForwardSame
    <3> QED
      BY Zenon, <3>1, <3>2
  <2>7. Consistent(hostZoneUnbondings', packets')
    BY Zenon, <1>3, <1>4, <2>3, <2>4, <2>5 DEF Consistent
  <2> QED
    BY Zenon, <2>6, <2>7 DEF UInv, StatusStep
<1> QED
  BY Zenon, <1>1, <1>6, <1>7 DEF IcaOK

\* The two ways a packet ends.
LEMMA PacketCallbackU ==
    ASSUME UInv, PacketAcknowledged \/ TimeoutStep
    PROVE  UInv' /\ StatusStep
<1>0. PInv'
  BY Zenon, PacketCallbackStep DEF UInv, TimeoutStep
<1>1. PICK X : packets \in Seq(X)
  BY Zenon DEF UInv, PInv, PacketsOfThePast
<1>2. CASE PacketAcknowledged
  <2>1. /\ packets # <<>> /\ Callback(Head(packets), Head(packets).state)
        /\ packets' = Tail(packets)
    BY Zenon, <1>2 DEF PacketAcknowledged
  <2>2. 1 \in DOMAIN packets /\ Head(packets) = packets[1]
    BY <1>1, <2>1
  <2>3. Dropped(packets, 1, packets')
    BY Zenon, <1>1, <2>1, TailDrops
  <2> QED
    BY Zenon, <1>0, <2>1, <2>2, <2>3, CallbackU
<1>3. ASSUME NEW m \in DOMAIN packets, PacketTimedOut(m) PROVE UInv' /\ StatusStep
  <2>1. Callback(packets[m], "timeout") /\ packets' = Without(m)
    BY Zenon, <1>3 DEF PacketTimedOut
  <2>2. Dropped(packets, m, packets')
    BY Zenon, <1>1, <2>1, WithoutDrops
  <2> QED
    BY Zenon, <1>0, <2>1, <2>2, CallbackU
<1> QED
  BY Zenon, <1>2, <1>3 DEF TimeoutStep

\* New packets for the records of Q, which no packet of s is about.
Submitted(old, s, records, new, Q) ==
    /\ Q \in SUBSET Days
    /\ \A d \in Days : RecordOK(records[d]) /\ (d \notin Q =>
                           /\ records[d].status = old[d].status
                           /\ records[d].unbondingTime = old[d].unbondingTime)
    /\ \A n \in DOMAIN s : s[n].ids \cap Q = {}
    /\ \A n \in DOMAIN new : /\ IcaOK(new[n]) /\ new[n].ids = Q
                             /\ \A d \in Q : InProgress(records[d], new[n])
                             /\ \A m \in DOMAIN new : m = n \/ Apart(new[m], new[n])

\* Packets for records that no other packet is about.
LEMMA AddPackets ==
    ASSUME NEW old, NEW s, Consistent(old, s), NEW new, NEW t, Extended(s, new, t),
           NEW records, NEW Q, Submitted(old, s, records, new, Q),
           \A d \in Days : records[d].txs = Cardinality(Undelegates(d, t))
    PROVE  Consistent(records, t)
<1> USE DEF Submitted
<1>1. PICK L \in Nat, k \in Nat :
        /\ DOMAIN s = 1..L /\ DOMAIN new = 1..k /\ DOMAIN t = 1..(L + k)
        /\ \A n \in 1..L : t[n] = s[n]
        /\ \A n \in 1..k : t[L + n] = new[n]
  BY Zenon DEF Extended
<1>2. ASSUME NEW n \in DOMAIN t
      PROVE  \/ n \in DOMAIN s /\ t[n] = s[n]
             \/ \E j \in DOMAIN new : n = L + j /\ t[n] = new[j]
  <2>1. n \in 1..L \/ (n - L \in 1..k /\ n = L + (n - L))
    BY <1>1
  <2> QED
    BY Zenon, <1>1, <2>1
<1>3. ASSUME NEW n \in DOMAIN s PROVE /\ IcaOK(s[n]) /\ s[n].ids \subseteq Days
                                      /\ \A d \in s[n].ids : InProgress(records[d], s[n])
  <2>1. /\ IcaOK(s[n]) /\ s[n].ids \subseteq Days
        /\ \A d \in s[n].ids : InProgress(old[d], s[n]) /\ d \notin Q
    BY Zenon DEF Consistent
  <2>2. ASSUME NEW d \in s[n].ids PROVE InProgress(records[d], s[n])
    BY Zenon, <2>1 DEF InProgress, Awaited
  <2> QED
    BY Zenon, <2>1, <2>2
<1>4. ASSUME NEW n \in DOMAIN t PROVE /\ IcaOK(t[n]) /\ t[n].ids \subseteq Days
                                      /\ \A d \in t[n].ids : InProgress(records[d], t[n])
  <2>1. CASE n \in DOMAIN s /\ t[n] = s[n]
    BY Zenon, <1>3, <2>1
  <2>2. CASE \E j \in DOMAIN new : n = L + j /\ t[n] = new[j]
    BY Zenon, <2>2
  <2> QED
    BY Zenon, <1>2, <2>1, <2>2
<1>5. ASSUME NEW m \in DOMAIN t, NEW n \in DOMAIN t PROVE m = n \/ Apart(t[m], t[n])
  <2>0. ASSUME NEW a \in DOMAIN s, NEW b \in DOMAIN new
        PROVE  Apart(s[a], new[b]) /\ Apart(new[b], s[a])
    <3>1. s[a].ids \cap Q = {} /\ Q \cap s[a].ids = {} /\ new[b].ids = Q
      BY Zenon
    <3> QED
      BY Zenon, <3>1 DEF Apart
  <2>1. CASE (m \in DOMAIN s /\ t[m] = s[m]) /\ (n \in DOMAIN s /\ t[n] = s[n])
    BY Zenon, <2>1 DEF Consistent
  <2>2. CASE \/ /\ m \in DOMAIN s /\ t[m] = s[m]
                /\ \E j \in DOMAIN new : n = L + j /\ t[n] = new[j]
             \/ /\ n \in DOMAIN s /\ t[n] = s[n]
                /\ \E j \in DOMAIN new : m = L + j /\ t[m] = new[j]
    BY Zenon, <2>0, <2>2
  <2>3. CASE /\ \E j \in DOMAIN new : m = L + j /\ t[m] = new[j]
             /\ \E j \in DOMAIN new : n = L + j /\ t[n] = new[j]
    BY Zenon, <2>3
  <2> QED
    BY Zenon, <1>2, <2>1, <2>2, <2>3
<1> QED
  BY Zenon, <1>4, <1>5 DEF Consistent

\* The stride epoch sweeps records without undelegations in flight.
LEMMA StrideEpochU ==
    ASSUME UInv, NEW rate \in Rates, NEW ok, StrideEpoch(rate, ok)
    PROVE  UInv' /\ StatusStep
<1>0. PInv'
  BY Zenon, StrideEpochStep DEF UInv
<1> DEFINE p == SweepPacket(Sweepable)
<1>1. \/ UNCHANGED <<packets, hostZoneUnbondings>>
      \/ /\ packets' = Append(packets, p)
         /\ hostZoneUnbondings' =
               SetStatus(hostZoneUnbondings, Sweepable, "EXIT_TRANSFER_IN_PROGRESS")
  BY Zenon DEF StrideEpoch
<1>2. CASE UNCHANGED <<packets, hostZoneUnbondings>>
  BY Zenon, <1>0, <1>2, SameRecordsU
<1>3. CASE /\ packets' = Append(packets, p)
           /\ hostZoneUnbondings' =
                 SetStatus(hostZoneUnbondings, Sweepable, "EXIT_TRANSFER_IN_PROGRESS")
  <2>1. p.kind = "sweep" /\ p.ids = Sweepable /\ IcaOK(p)
    <3>1. Unset \in Int
      BY DEF Unset
    <3> QED
      BY <3>1 DEF SweepPacket, IcaOK
  <2> HIDE DEF p
  <2>2. \A d \in Sweepable : /\ d \in Days /\ hostZoneUnbondings[d].status = "EXIT_TRANSFER_QUEUE"
                             /\ ~(hostZoneUnbondings[d].unbondingTime >= 0)
    BY DEF Sweepable, WithStatus, Passed
  <2>3. ASSUME NEW d \in Days
        PROVE  /\ RecordOK(hostZoneUnbondings'[d])
               /\ hostZoneUnbondings'[d].txs = hostZoneUnbondings[d].txs
               /\ d \notin Sweepable => hostZoneUnbondings'[d] = hostZoneUnbondings[d]
               /\ d \in Sweepable => hostZoneUnbondings'[d].status = "EXIT_TRANSFER_IN_PROGRESS"
    <3>1. RecordOK(hostZoneUnbondings[d])
      BY Zenon DEF UInv, Consistent
    <3>2. hostZoneUnbondings'[d] = IF d \in Sweepable
             THEN [hostZoneUnbondings[d] EXCEPT !.status = "EXIT_TRANSFER_IN_PROGRESS"]
             ELSE hostZoneUnbondings[d]
      BY Zenon, <1>3 DEF SetStatus
    <3> QED
      BY <3>1, <3>2 DEF RecordOK
  <2>4. \A n \in DOMAIN packets : packets[n].ids \cap Sweepable = {}
    <3>1. ASSUME NEW n \in DOMAIN packets, NEW d \in packets[n].ids, d \in Sweepable PROVE FALSE
      <4>1. InProgress(hostZoneUnbondings[d], packets[n])
        BY Zenon DEF UInv, Consistent
      <4> QED
        BY Zenon, <2>2, <3>1, <4>1 DEF InProgress, Awaited
    <3> QED
      BY Zenon, <3>1
  <2>5. Extended(packets, <<p>>, packets')
    <3>1. PICK X : packets \in Seq(X)
      BY Zenon DEF UInv, PInv, PacketsOfThePast
    <3>2. packets \in Seq(X \cup {p}) /\ p \in X \cup {p}
      BY <3>1, SeqMonotonic
    <3>3. packets' = packets \o <<p>>
      BY Zenon, <1>3, <3>2, AppendIsConcat
    <3>4. <<p>> \in Seq({p})
      OBVIOUS
    <3> QED
      BY Zenon, <3>1, <3>3, <3>4, ConcatExtends
  <2>6. DOMAIN <<p>> = {1} /\ <<p>>[1] = p
    OBVIOUS
  <2> DEFINE new == <<p>>
  <2> HIDE DEF new
  <2>7. \A d \in Days : Undelegates(d, new) = {}
    BY Zenon, <2>1, <2>6 DEF Undelegates, new
  <2>8. \A d \in Days : hostZoneUnbondings'[d].txs = Cardinality(Undelegates(d, packets'))
    <3> TAKE d \in Days
    <3>1. Undelegates(d, new) = {} => Undelegates(d, packets') = Undelegates(d, packets)
      BY <2>5, CountExtended DEF new
    <3> QED
      BY Zenon, <2>3, <2>7, <3>1 DEF UInv, Consistent
  <2>9. /\ \A n \in DOMAIN new : /\ IcaOK(new[n]) /\ new[n].ids = Sweepable
                                 /\ \A d \in Sweepable : InProgress(hostZoneUnbondings'[d], new[n])
                                 /\ \A m \in DOMAIN new : m = n \/ Apart(new[m], new[n])
        /\ Sweepable \in SUBSET Days
    <3>1. "sweep" # "undelegate"
      OBVIOUS
    <3> QED
      BY Zenon, <2>1, <2>2, <2>3, <2>6, <3>1 DEF InProgress, new
  <2>10. Consistent(hostZoneUnbondings, packets) /\ Extended(packets, new, packets')
    BY Zenon, <2>5 DEF UInv, new
  <2>11. Consistent(hostZoneUnbondings', packets')
    <3>1. \A d \in Days : RecordOK(hostZoneUnbondings'[d]) /\ (d \notin Sweepable =>
                              /\ hostZoneUnbondings'[d].status = hostZoneUnbondings[d].status
                              /\ hostZoneUnbondings'[d].unbondingTime
                                    = hostZoneUnbondings[d].unbondingTime)
      BY Zenon, <2>3
    <3>2. Submitted(hostZoneUnbondings, packets, hostZoneUnbondings', new, Sweepable)
      BY Zenon, <2>4, <2>9, <3>1 DEF Submitted
    <3> QED
      BY <2>8, <2>10, <3>2, AddPackets
  <2>12. \A d \in Days : Forward(hostZoneUnbondings[d].status, hostZoneUnbondings'[d].status)
    BY Zenon, <2>2, <2>3 DEF Forward
  <2> QED
    BY Zenon, <1>0, <2>11, <2>12 DEF UInv, StatusStep
<1> QED
  BY Zenon, <1>1, <1>2, <1>3

\* A split whose first batch is empty is empty.
LEMMA NoBatches ==
    ASSUME NEW total, NEW split \in Splits(total), ~(split[1] > 0)
    PROVE  Used(split) = 0
<1>1. PICK c \in Cuts(total) : split = [k \in Batches |-> c[k] - c[k - 1]]
  BY Zenon DEF Splits
<1>2. /\ \A k \in 0..MaxBatches : c[k] \in Int
      /\ \A k \in 2..MaxBatches : c[k] > c[k - 1] => c[k - 1] > c[k - 2]
  BY <1>1 DEF Cuts
<1>3. MaxBatches \in Nat /\ 1 \in Batches
  BY MaxBatchesAssumption DEF Batches
<1> DEFINE G == {n \in Nat : \A k \in Batches : k <= n => ~(split[k] > 0)}
<1>4. 0 \in G
  BY DEF Batches
<1>5. ASSUME NEW n \in G PROVE n + 1 \in G
  <2>1. n + 1 \in Nat /\ \A k \in Batches : k <= n + 1 => k <= n \/ k = n + 1
    BY DEF Batches
  <2>2. ASSUME n + 1 \in Batches PROVE ~(split[n + 1] > 0)
    <3>1. CASE n = 0
      BY <3>1
    <3>2. CASE n # 0
      <4>1. /\ n + 1 \in 2..MaxBatches /\ n \in Batches /\ (n + 1) - 1 = n /\ (n + 1) - 2 = n - 1
            /\ n - 1 \in 0..MaxBatches /\ n \in 0..MaxBatches /\ n + 1 \in 0..MaxBatches
        BY <1>3, <2>2, <3>2 DEF Batches
      <4>2. split[n] = c[n] - c[n - 1] /\ split[n + 1] = c[n + 1] - c[n]
        BY Zenon, <1>1, <2>2, <4>1
      <4>3. c[n + 1] > c[n] => c[n] > c[n - 1]
        BY Zenon, <1>2, <4>1
      <4>4. ~(split[n] > 0)
        BY <4>1
      <4>5. c[n - 1] \in Int /\ c[n] \in Int /\ c[n + 1] \in Int
        BY Zenon, <1>2, <4>1
      <4> QED
        BY <4>2, <4>3, <4>4, <4>5
    <3> QED
      BY Zenon, <3>1, <3>2
  <2> QED
    BY Zenon, <2>1, <2>2
<1>6. G = Nat
  BY Zenon, <1>4, <1>5, SuccessorClosed
<1>7. \A k \in Batches : k \in Nat /\ k <= k
  BY DEF Batches
<1>8. {k \in Batches : split[k] > 0} = {}
  BY Zenon, <1>6, <1>7
<1> QED
  BY Zenon, <1>8, FS_EmptySet DEF Used

\* The number of batches of a split is natural.
LEMMA UsedNat == ASSUME NEW split PROVE Used(split) \in Nat
<1>1. IsFiniteSet(Batches)
  BY FS_Interval, MaxBatchesAssumption DEF Batches
<1>2. IsFiniteSet({k \in Batches : split[k] > 0})
  BY <1>1, FS_Subset
<1> QED
  BY <1>2, FS_CardinalityType DEF Used

\* No packet is about a queued record: a retry waits for its transactions.
LEMMA QueuedIdle ==
    ASSUME UInv, NEW d \in Queued
    PROVE  /\ d \in Days /\ hostZoneUnbondings[d].txs = 0 /\ Undelegates(d, packets) = {}
           /\ hostZoneUnbondings[d].status \in {"UNBONDING_QUEUE", "UNBONDING_RETRY_QUEUE"}
           /\ \A n \in DOMAIN packets : d \notin packets[n].ids
<1>1. /\ d \in Days
      /\ hostZoneUnbondings[d].status \in {"UNBONDING_QUEUE", "UNBONDING_RETRY_QUEUE"}
      /\ hostZoneUnbondings[d].status = "UNBONDING_RETRY_QUEUE" => hostZoneUnbondings[d].txs = 0
  BY Zenon DEF Queued, WithStatus
<1>2. PICK X : packets \in Seq(X)
  BY Zenon DEF UInv, PInv, PacketsOfThePast
<1>3. hostZoneUnbondings[d].txs = Cardinality(Undelegates(d, packets))
  BY Zenon, <1>1 DEF UInv, Consistent
<1>4. Cardinality(Undelegates(d, packets)) = 0 <=> Undelegates(d, packets) = {}
  BY Zenon, <1>2, CountZero
<1>5. ASSUME NEW n \in DOMAIN packets, d \in packets[n].ids PROVE FALSE
  <2>1. InProgress(hostZoneUnbondings[d], packets[n]) /\ IcaOK(packets[n])
    BY Zenon, <1>5 DEF UInv, Consistent
  <2>2. packets[n].kind = "undelegate" /\ hostZoneUnbondings[d].status = "UNBONDING_RETRY_QUEUE"
    BY Zenon, <1>1, <2>1 DEF InProgress, Awaited, Unswept, IcaOK
  <2>3. n \in Undelegates(d, packets)
    BY Zenon, <1>5, <2>2 DEF Undelegates
  <2> QED
    BY Zenon, <1>1, <1>3, <1>4, <2>2, <2>3
<1>6. Undelegates(d, packets) = {}
  BY Zenon, <1>5 DEF Undelegates
<1> QED
  BY Zenon, <1>1, <1>3, <1>4, <1>5, <1>6

\* What UnbondFromHostZone does to a record.
LEMMA UnbondedRecords ==
    ASSUME UInv, NEW split, NEW d \in Days
    PROVE  LET r == hostZoneUnbondings[d]
               q == Unbonded(split)[d]
           IN  /\ RecordOK(q)
               /\ ~(d \in Queued /\ split[1] > 0) =>
                     q.status = r.status /\ q.txs = r.txs /\ q.unbondingTime = r.unbondingTime
               /\ d \in Queued /\ split[1] > 0 =>
                     q.status = "UNBONDING_IN_PROGRESS" /\ q.txs = r.txs + Used(split)
<1> DEFINE r == hostZoneUnbondings[d]
           e == Refreshed[d]
           q == Unbonded(split)[d]
<1>1. RecordOK(r)
  BY Zenon DEF UInv, Consistent
<1>2. RecordOK(e) /\ e.status = r.status /\ e.txs = r.txs /\ e.unbondingTime = r.unbondingTime
  <2>1. \/ e = r
        \/ \E v, w, x : e = [r EXCEPT !.nativeTokenAmount = v, !.nativeTokensToUnbond = w,
                                      !.stTokensToBurn = x]
    BY Zenon DEF Refreshed
  <2>2. ASSUME NEW v, NEW w, NEW x,
               e = [r EXCEPT !.nativeTokenAmount = v, !.nativeTokensToUnbond = w,
                             !.stTokensToBurn = x]
        PROVE  RecordOK(e) /\ e.status = r.status /\ e.txs = r.txs /\ e.unbondingTime = r.unbondingTime
    <3> HIDE DEF e
    <3> QED
      BY <1>1, <2>2 DEF RecordOK
  <2> QED
    BY Zenon, <1>1, <2>1, <2>2
<1>3. q = IF d \in Queued /\ split[1] > 0
          THEN [e EXCEPT !.status = "UNBONDING_IN_PROGRESS", !.txs = e.txs + Used(split)]
          ELSE e
  BY Zenon DEF Unbonded
<1>4. e.txs + Used(split) \in Int
  BY <1>2, UsedNat DEF RecordOK
<1> HIDE DEF e, q
<1>5. CASE d \in Queued /\ split[1] > 0
  <2>1. PICK t \in Int : t = e.txs + Used(split)
    BY Zenon, <1>4
  <2>2. q = [e EXCEPT !.status = "UNBONDING_IN_PROGRESS", !.txs = t]
    BY Zenon, <1>3, <1>5, <2>1
  <2>3. RecordOK(q) /\ q.status = "UNBONDING_IN_PROGRESS" /\ q.txs = t
    BY <1>2, <2>2 DEF RecordOK
  <2> QED
    BY Zenon, <1>2, <1>5, <2>1, <2>3 DEF q
<1>6. CASE ~(d \in Queued /\ split[1] > 0)
  BY Zenon, <1>2, <1>3, <1>6 DEF q
<1> QED
  BY Zenon, <1>5, <1>6

\* Cleanup and the new record do not touch records that packets are about.
LEMMA CleanupConsistent ==
    ASSUME NEW records, NEW X, NEW s \in Seq(X), Consistent(records, s), day \in Nat,
           \A n \in DOMAIN s : \A d \in s[n].ids : d <= day,
           \A d \in Days : d > day => records[d].status = "NONE"
    PROVE  LET new == CleanedUpAndCreated(records)
           IN  /\ Consistent(new, s)
               /\ \A d \in Days : Forward(records[d].status, new[d].status)
<1> DEFINE new == CleanedUpAndCreated(records)
<1>1. /\ RecordOK(NewHostZoneUnbonding) /\ NewHostZoneUnbonding.txs = 0
      /\ RecordOK(NoHostZoneUnbonding) /\ NoHostZoneUnbonding.txs = 0
      /\ NoHostZoneUnbonding.status = "NONE"
  BY DEF NewHostZoneUnbonding, NoHostZoneUnbonding, RecordOK, Unset
<1>2. ASSUME NEW d \in Days
      PROVE  \/ new[d] = records[d]
             \/ d = day + 1 /\ new[d] = NewHostZoneUnbonding
             \/ records[d].status = "CLAIMABLE" /\ new[d] = NoHostZoneUnbonding
  BY Zenon DEF CleanedUpAndCreated
<1>3. ASSUME NEW n \in DOMAIN s, NEW d \in s[n].ids
      PROVE  d \in Days /\ new[d] = records[d] /\ InProgress(records[d], s[n])
  <2>1. d \in Days /\ InProgress(records[d], s[n]) /\ d <= day
    BY Zenon DEF Consistent
  <2>2. d # day + 1
    BY <2>1 DEF Days
  <2>3. records[d].status # "CLAIMABLE"
    BY Zenon, <2>1 DEF InProgress, Awaited, Unswept
  <2> QED
    BY Zenon, <1>2, <2>1, <2>2, <2>3
<1> HIDE DEF new
<1>4. ASSUME NEW d \in Days
      PROVE  /\ RecordOK(new[d]) /\ new[d].txs = Cardinality(Undelegates(d, s))
             /\ Forward(records[d].status, new[d].status)
  <2>1. CASE new[d] = records[d]
    BY Zenon, <2>1, ForwardSame DEF Consistent
  <2>2. CASE new[d] # records[d]
    <3>1. Undelegates(d, s) = {}
      BY Zenon, <1>3, <2>2 DEF Undelegates
    <3>2. Cardinality(Undelegates(d, s)) = 0
      BY Zenon, <3>1, FS_EmptySet
    <3>3. CASE d = day + 1 /\ new[d] = NewHostZoneUnbonding
      <4>1. records[d].status = "NONE"
        BY <3>3
      <4> QED
        BY Zenon, <1>1, <3>2, <3>3, <4>1 DEF Forward
    <3>4. CASE records[d].status = "CLAIMABLE" /\ new[d] = NoHostZoneUnbonding
      BY Zenon, <1>1, <3>2, <3>4 DEF Forward
    <3> QED
      BY Zenon, <1>2, <2>2, <3>3, <3>4
  <2> QED
    BY Zenon, <2>1, <2>2
<1>5. Consistent(new, s)
  BY Zenon, <1>3, <1>4 DEF Consistent
<1> QED
  BY Zenon, <1>4, <1>5 DEF new

\* The records and packets after UnbondFromHostZone agree.
LEMMA UnbondConsistent ==
    ASSUME UInv, NEW total, NEW split \in Splits(total)
    PROVE  Consistent(Unbonded(split), packets \o UndelegatePackets(split))
<1> DEFINE new == UndelegatePackets(split)
           t == packets \o new
           records == Unbonded(split)
           Q == IF split[1] > 0 THEN Queued ELSE {}
<1>1. PICK k \in Nat : k = Used(split)
  BY Zenon, UsedNat
<1>2. /\ new = [j \in 1..k |-> UndelegatePacket(split[j])] /\ DOMAIN new = 1..k
      /\ \A j \in 1..k : new[j] = UndelegatePacket(split[j])
  BY Zenon, <1>1 DEF UndelegatePackets
<1>3. ASSUME NEW j \in 1..k
      PROVE  new[j].kind = "undelegate" /\ new[j].ids = Queued /\ IcaOK(new[j])
  <2>1. new[j] = UndelegatePacket(split[j]) /\ Unset \in Int
    BY <1>2 DEF Unset
  <2> HIDE DEF new
  <2> QED
    BY <2>1 DEF UndelegatePacket, IcaOK
<1>4. PICK X : packets \in Seq(X)
  BY Zenon DEF UInv, PInv, PacketsOfThePast
<1>5. Extended(packets, new, t)
  <2> DEFINE Y == {new[j] : j \in 1..k}
  <2>1. \A j \in 1..k : UndelegatePacket(split[j]) \in Y
    BY Zenon, <1>2
  <2> HIDE DEF Y
  <2>2. [j \in 1..k |-> UndelegatePacket(split[j])] \in Seq(Y)
    BY <2>1, IsASeq
  <2>3. new \in Seq(Y)
    BY Zenon, <1>2, <2>2
  <2> HIDE DEF new
  <2> QED
    BY Zenon, <1>4, <2>3, ConcatExtends
<1> HIDE DEF new, t, records
<1>6. k # 0 => split[1] > 0
  BY Zenon, <1>1, NoBatches
<1>7. \A j \in 1..k : new[j].ids = Q
  <2>1. \A j \in 1..k : k # 0
    OBVIOUS
  <2> QED
    BY Zenon, <1>3, <1>6, <2>1
<1>8. ASSUME NEW d \in Q
      PROVE  /\ d \in Days /\ d \in Queued /\ split[1] > 0
             /\ \A n \in DOMAIN packets : d \notin packets[n].ids
             /\ Undelegates(d, packets) = {} /\ hostZoneUnbondings[d].txs = 0
  BY Zenon, QueuedIdle
<1>9. ASSUME NEW d \in Days
      PROVE  /\ RecordOK(records[d])
             /\ d \notin Q => /\ records[d].status = hostZoneUnbondings[d].status
                              /\ records[d].txs = hostZoneUnbondings[d].txs
                              /\ records[d].unbondingTime = hostZoneUnbondings[d].unbondingTime
             /\ d \in Q => /\ records[d].status = "UNBONDING_IN_PROGRESS"
                           /\ records[d].txs = hostZoneUnbondings[d].txs + k
  <2>1. d \in Q <=> d \in Queued /\ split[1] > 0
    BY Zenon
  <2> HIDE DEF Q
  <2> QED
    BY Zenon, <1>1, <2>1, UnbondedRecords DEF records
<1> HIDE DEF Q
<1>10. ASSUME NEW d \in Days PROVE records[d].txs = Cardinality(Undelegates(d, t))
  <2>1. CASE d \in Q
    <3>1. Undelegates(d, new) = 1..k
      BY Zenon, <1>2, <1>3, <1>7, <2>1 DEF Undelegates
    <3>2. Undelegates(d, packets) = {} /\ DOMAIN new = 1..k /\ Undelegates(d, new) = 1..k =>
              Cardinality(Undelegates(d, t)) = k
      BY <1>5, CountExtended
    <3> QED
      BY <1>2, <1>8, <1>9, <2>1, <3>1, <3>2
  <2>2. CASE d \notin Q
    <3>1. Undelegates(d, new) = {}
      BY Zenon, <1>2, <1>7, <2>2 DEF Undelegates
    <3>2. Undelegates(d, new) = {} => Undelegates(d, t) = Undelegates(d, packets)
      BY <1>5, CountExtended
    <3> QED
      BY Zenon, <1>9, <2>2, <3>1, <3>2 DEF UInv, Consistent
  <2> QED
    BY Zenon, <2>1, <2>2
<1>11. \A d \in Q : \A j \in 1..k : InProgress(records[d], new[j])
  BY Zenon, <1>3, <1>8, <1>9 DEF InProgress, Awaited, Unswept
<1>12. \A m, n \in 1..k : Apart(new[m], new[n])
  <2>1. "sweep" # "undelegate"
    OBVIOUS
  <2> QED
    BY Zenon, <1>3, <2>1 DEF Apart
<1>13. Q \in SUBSET Days /\ Consistent(hostZoneUnbondings, packets)
  BY Zenon, <1>8 DEF UInv
<1>14. \A n \in DOMAIN packets : packets[n].ids \cap Q = {}
  BY Zenon, <1>8
<1>15. \A d \in Days : RecordOK(records[d]) /\ (d \notin Q =>
                              /\ records[d].status = hostZoneUnbondings[d].status
                              /\ records[d].unbondingTime = hostZoneUnbondings[d].unbondingTime)
  BY Zenon, <1>9
<1>16. \A n \in DOMAIN new : /\ IcaOK(new[n]) /\ new[n].ids = Q
                             /\ \A d \in Q : InProgress(records[d], new[n])
                             /\ \A m \in DOMAIN new : m = n \/ Apart(new[m], new[n])
  BY Zenon, <1>2, <1>3, <1>7, <1>11, <1>12
<1>17. Consistent(records, t)
  <2>1. Submitted(hostZoneUnbondings, packets, records, new, Q)
    BY Zenon, <1>13, <1>14, <1>15, <1>16 DEF Submitted
  <2> QED
    BY <1>5, <1>10, <1>13, <2>1, AddPackets
<1> QED
  BY Zenon, <1>17 DEF records, t, new

\* The day epoch submits idle records, removes claimed ones and opens the next day's.
LEMMA DayEpochU ==
    ASSUME UInv, PInv', NEW ok, DayEpoch(ok)
    PROVE  UInv' /\ StatusStep
<1>1. \/ \E total : \E split \in Splits(total) :
            /\ hostZoneUnbondings' = CleanedUpAndCreated(Unbonded(split))
            /\ packets' = packets \o UndelegatePackets(split)
      \/ /\ hostZoneUnbondings' = CleanedUpAndCreated(hostZoneUnbondings)
         /\ UNCHANGED packets
  BY Zenon DEF DayEpoch
<1>2. /\ day \in Nat /\ day' = (IF day \in Days THEN day + 1 ELSE day)
      /\ \A d \in Days : d \in Nat /\ (d < day' => d <= day) /\ (d < day => d <= day)
                         /\ (d > day => ~(d < day'))
  BY UnbondingAssumptions DEF UInv, PInv, ClaimsTypeOK, Days, DayEpoch
<1>3. \A d \in Days : d > day => hostZoneUnbondings[d].status = "NONE"
  BY Zenon DEF UInv, PInv, OpenDay
<1>4. PICK X : packets' \in Seq(X)
  BY Zenon DEF PInv, PacketsOfThePast
<1>5. \A n \in DOMAIN packets' : \A d \in packets'[n].ids : d \in Days /\ d <= day
  BY Zenon, <1>2 DEF PInv, PacketsOfThePast
<1>6. CASE /\ hostZoneUnbondings' = CleanedUpAndCreated(hostZoneUnbondings)
           /\ UNCHANGED packets
  <2>1. packets' = packets /\ Consistent(hostZoneUnbondings, packets')
    BY Zenon, <1>6 DEF UInv
  <2>2. /\ Consistent(hostZoneUnbondings', packets')
        /\ \A d \in Days : Forward(hostZoneUnbondings[d].status, hostZoneUnbondings'[d].status)
    BY Zenon, <1>2, <1>3, <1>4, <1>5, <1>6, <2>1, CleanupConsistent
  <2> QED
    BY Zenon, <2>2 DEF UInv, StatusStep
<1>7. ASSUME NEW total, NEW split \in Splits(total),
             hostZoneUnbondings' = CleanedUpAndCreated(Unbonded(split)),
             packets' = packets \o UndelegatePackets(split)
      PROVE  UInv' /\ StatusStep
  <2>1. Consistent(Unbonded(split), packets')
    BY Zenon, <1>7, UnbondConsistent
  <2>2. ASSUME NEW d \in Days
        PROVE  \/ Unbonded(split)[d].status = hostZoneUnbondings[d].status
               \/ hostZoneUnbondings[d].status \in {"UNBONDING_QUEUE", "UNBONDING_RETRY_QUEUE"}
    BY Zenon, UnbondedRecords, QueuedIdle
  <2>3. \A d \in Days : d > day => Unbonded(split)[d].status = "NONE"
    BY Zenon, <1>3, <2>2
  <2>4. /\ Consistent(hostZoneUnbondings', packets')
        /\ \A d \in Days : Forward(Unbonded(split)[d].status, hostZoneUnbondings'[d].status)
    BY Zenon, <1>2, <1>4, <1>5, <1>7, <2>1, <2>3, CleanupConsistent
  <2>5. ASSUME NEW d \in Days
        PROVE  Forward(hostZoneUnbondings[d].status, hostZoneUnbondings'[d].status)
    BY Zenon, <2>2, <2>4 DEF Forward
  <2> QED
    BY Zenon, <2>4, <2>5 DEF UInv, StatusStep
<1> QED
  BY Zenon, <1>1, <1>6, <1>7

\* Every step keeps the invariant and moves statuses forward.
LEMMA NextUInv ==
    ASSUME AcksBeforeMaturity, UInv, [Next]_vars
    PROVE  UInv' /\ StatusStep
<1>0. PInv'
  BY Zenon, NextPInv DEF UInv
<1>1. ASSUME NEW u \in Users, NEW amount \in RedeemAmounts, RedeemStake(u, amount)
      PROVE  UInv' /\ StatusStep
  BY Zenon, <1>1, RedeemStakeU
<1>2. ASSUME NEW d \in Days, NEW u \in Users, ClaimStep(d, u)
      PROVE  UInv' /\ StatusStep
  <2>1. CASE ClaimUndelegatedTokens(d, u) \/ HostExecutesClaim(d, u)
    <3>1. UNCHANGED <<hostZoneUnbondings, packets>>
      BY Zenon, <2>1 DEF ClaimUndelegatedTokens, HostExecutesClaim
    <3> QED
      BY Zenon, <1>0, <3>1, SameRecordsU
  <2>2. CASE ClaimAcknowledged(d, u) \/ ClaimTimedOut(d, u)
    BY Zenon, <2>2, ClaimEndU
  <2> QED
    BY Zenon, <1>2, <2>1, <2>2 DEF ClaimStep
<1>3. ASSUME NEW b \in BOOLEAN, SetHalted(b) PROVE UInv' /\ StatusStep
  BY Zenon, <1>0, <1>3, SameRecordsU DEF SetHalted
<1>4. ASSUME NEW b \in BOOLEAN, DayEpoch(b) PROVE UInv' /\ StatusStep
  BY Zenon, <1>0, <1>4, DayEpochU
<1>5. ASSUME NEW rate \in Rates, NEW ok \in BOOLEAN, StrideEpoch(rate, ok)
      PROVE  UInv' /\ StatusStep
  BY Zenon, <1>0, <1>5, StrideEpochU
<1>6. CASE Tick
  BY Zenon, <1>0, <1>6, TickU
<1>7. CASE HostStep
  BY Zenon, <1>0, <1>7, HostExecutesU DEF HostStep
<1>8. CASE PacketAcknowledged \/ TimeoutStep
  BY Zenon, <1>0, <1>8, PacketCallbackU
<1>9. CASE DelegationChannelCloses \/ OnChanOpenAck \/ RestoreRedemptionAccount
  <2>1. UNCHANGED <<hostZoneUnbondings, packets>>
    BY Zenon, <1>9 DEF DelegationChannelCloses, OnChanOpenAck, RestoreRedemptionAccount
  <2> QED
    BY Zenon, <1>0, <2>1, SameRecordsU
<1>10. CASE RestoreInterchainAccount
  BY Zenon, <1>0, <1>10, RestoreDelegationU
<1>11. CASE UNCHANGED vars
  <2>1. UNCHANGED <<hostZoneUnbondings, packets>>
    BY <1>11 DEF vars
  <2> QED
    BY Zenon, <1>0, <2>1, SameRecordsU
<1> QED
  BY Zenon, <1>1, <1>2, <1>3, <1>4, <1>5, <1>6, <1>7, <1>8, <1>9, <1>10, <1>11 DEF Next

\* The counter of the in-progress transactions of a record is exact.
LEMMA CountersExact == UInv => UndelegationTxsExact
BY Zenon DEF UInv, Consistent, Undelegates, UndelegationTxsExact

\* UndelegationTxsInProgress is exact as long as the acknowledgements of a submission come
\* before its unbonding period is over: UndelegateCallback always finds a counter to
\* decrement, a retry never starts while an ICA of the record is in flight, and after
\* MsgRestoreInterchainAccount nothing is counted.
THEOREM TxsAlwaysExact ==
    ASSUME AcksBeforeMaturity
    PROVE  Spec => []UndelegationTxsExact
<1>1. UInv /\ [Next]_vars => UInv'
  BY Zenon, NextUInv
<1> QED
  BY InitUInv, <1>1, CountersExact, PTL DEF Spec

\* Under the same assumption, a record that was completely unbonded is never unbonded again
\* by the failure of a late batch, a claimable one is never swept again, and cleanup only
\* removes claimable ones.
THEOREM StatusNeverRegresses ==
    ASSUME AcksBeforeMaturity
    PROVE  Spec => NoStatusRegress
<1>1. UInv /\ [Next]_vars => [StatusStep]_vars
  BY Zenon, NextUInv
<1>2. UInv /\ [Next]_vars => UInv'
  BY Zenon, NextUInv
<1>3. NoStatusRegress <=> [][StatusStep]_vars
  <2> DEFINE old(d) == hostZoneUnbondings[d].status
             new(d) == hostZoneUnbondings'[d].status
             exit == {"EXIT_TRANSFER_QUEUE", "EXIT_TRANSFER_IN_PROGRESS"}
             Moved == \A d \in Days : /\ old(d) \in exit => new(d) \in exit \cup {"CLAIMABLE"}
                                      /\ old(d) = "CLAIMABLE" => new(d) \in {"CLAIMABLE", "NONE"}
  <2>1. Moved <=> StatusStep
    BY DEF StatusStep, Forward
  <2>2. NoStatusRegress <=> [][Moved]_vars
    BY PTL DEF NoStatusRegress
  <2> QED
    BY <2>1, <2>2, PTL
<1> QED
  BY InitUInv, <1>1, <1>2, <1>3, PTL DEF Spec
=============================================================================
