----------------------- MODULE LSMTokenDepositsProofs -----------------------
(***************************************************************************)
(* For any stakers, validators, tokens, slashes and faults:                *)
(*  - a stake waits for a slash query exactly while its record is          *)
(*    DEPOSIT_PENDING, and the record is the one its query finishes or     *)
(*    removes;                                                             *)
(*  - the status of a deposit says where its tokens are.                   *)
(* LSMCreditProofs takes these invariants further.                         *)
(***************************************************************************)
EXTENDS LSMTokenDeposits, FiniteSetTheorems, TLAPS

\* The stores are functions, and every record has a status.
StoreOK ==
    /\ deposits = [d \in Denoms |-> deposits[d]]
    /\ \A d \in Denoms : "status" \in DOMAIN deposits[d]
    /\ queries = [q \in Queries |-> queries[q]]

\* A query is manual, or carries the pending record of its denom.
QueryOK(query, stored) ==
    /\ {"state", "rate", "denom", "deposit"} \subseteq DOMAIN query
    /\ query.state # "none"
    /\ \/ query.denom = "none" /\ query.deposit = NoDeposit
       \/ /\ query.denom \in Denoms /\ stored[query.denom] = query.deposit
          /\ query.deposit.status = "DEPOSIT_PENDING"

\* q is the one query of denom d.
OnlyQuery(qs, d, q) ==
    \A p \in Queries : (qs[p] # NoQuery /\ qs[p].denom = d) <=> p = q

QueriesOK ==
    /\ \A q \in Queries : queries[q] = NoQuery \/ QueryOK(queries[q], deposits)
    /\ \A d \in WithStatus("DEPOSIT_PENDING") : \E q \in Queries : OnlyQuery(queries, d, q)

\* A packet carries a record, and the record of its denom is in the status of its kind.
PacketOK(packet, stored, status) ==
    /\ {"state", "response", "denom", "deposit"} \subseteq DOMAIN packet
    /\ "status" \in DOMAIN packet.deposit
    /\ packet.state \in {"sent", "success", "failure"}
    /\ packet.denom \in Denoms /\ stored[packet.denom].status = status

\* No two packets of a kind are of the same denom.
InFlight(packets, stored, status) ==
    /\ \E X : packets \in Seq(X)
    /\ \A i \in DOMAIN packets : PacketOK(packets[i], stored, status)
    /\ \A i, j \in DOMAIN packets : packets[i].denom = packets[j].denom => i = j

\* The inductive invariant.
LInv ==
    /\ StoreOK
    /\ QueriesOK
    /\ InFlight(transfers, deposits, "TRANSFER_IN_PROGRESS")
    /\ InFlight(icas, deposits, "DETOKENIZATION_IN_PROGRESS")
-----------------------------------------------------------------------------
(* Packets *)

\* Nothing changes for the packets when their records keep their status.
LEMMA SamePackets ==
    ASSUME NEW s, NEW stored, NEW status, InFlight(s, stored, status), NEW after,
           \A n \in DOMAIN s : after[s[n].denom].status = status
    PROVE  InFlight(s, after, status)
BY DEF InFlight, PacketOK

\* t has the packets of s at the positions in D, each once.
Picked(t, s, D) ==
    /\ D \subseteq DOMAIN s
    /\ \E X : t \in Seq(X)
    /\ \E f \in [DOMAIN t -> D] :
          /\ \A n \in DOMAIN t : t[n] = s[f[n]]
          /\ \A m, n \in DOMAIN t : f[m] = f[n] => m = n
          /\ \A d \in D : \E n \in DOMAIN t : f[n] = d

\* The position in s of each member of t.
Located(f, t, s, D) ==
    /\ \A n \in DOMAIN t : f[n] \in D /\ t[n] = s[f[n]]
    /\ \A m, n \in DOMAIN t : f[m] = f[n] => m = n
    /\ \A d \in D : \E n \in DOMAIN t : f[n] = d /\ s[d] = t[n]

LEMMA PickedLocated ==
    ASSUME NEW t, NEW s, NEW D, Picked(t, s, D)
    PROVE  \E f : Located(f, t, s, D)
<1>1. PICK f \in [DOMAIN t -> D] :
         /\ \A n \in DOMAIN t : t[n] = s[f[n]]
         /\ \A m, n \in DOMAIN t : f[m] = f[n] => m = n
         /\ \A d \in D : \E n \in DOMAIN t : f[n] = d
  BY Zenon DEF Picked
<1>2. \A n \in DOMAIN t : f[n] \in D
  BY Zenon, <1>1
<1>3. ASSUME NEW d \in D
      PROVE  \E n \in DOMAIN t : f[n] = d /\ s[d] = t[n]
  <2>1. PICK n \in DOMAIN t : f[n] = d
    BY Zenon, <1>1
  <2>2. s[d] = t[n]
    BY Zenon, <1>1, <2>1
  <2> QED BY Zenon, <2>1, <2>2
<1>4. Located(f, t, s, D)
  BY Zenon, <1>1, <1>2, <1>3 DEF Located
<1> QED BY Zenon, <1>4

\* What a concatenation holds.
LEMMA ConcatSeq ==
    ASSUME NEW X, NEW a \in Seq(X), NEW b \in Seq(X)
    PROVE  /\ a \o b \in Seq(X) /\ Len(a \o b) = Len(a) + Len(b)
           /\ \A n \in 1 .. Len(a) + Len(b) :
                 (a \o b)[n] = IF n <= Len(a) THEN a[n] ELSE b[n - Len(a)]
OBVIOUS

\* What Without leaves.
LEMMA WithoutPicked ==
    ASSUME NEW X, NEW s \in Seq(X), NEW i \in DOMAIN s
    PROVE  Picked(Without(s, i), s, DOMAIN s \ {i})
<1> DEFINE t == Without(s, i)
           a == SubSeq(s, 1, i - 1)
           b == SubSeq(s, i + 1, Len(s))
           f == [n \in DOMAIN t |-> IF n < i THEN n ELSE n + 1]
<1>2. Len(s) \in Nat /\ DOMAIN s = 1 .. Len(s) /\ i \in 1 .. Len(s)
  OBVIOUS
<1>3. /\ a \in Seq(X) /\ Len(a) = i - 1
      /\ \A n \in 1 .. i - 1 : a[n] = s[n]
  BY <1>2
<1>4. /\ b \in Seq(X) /\ Len(b) = Len(s) - i
      /\ \A n \in 1 .. Len(s) - i : b[n] = s[n + i]
  BY <1>2
<1>5. t = a \o b
  BY DEF Without
<1> HIDE DEF t, a, b
<1>6. /\ t \in Seq(X) /\ Len(t) = Len(s) - 1
      /\ \A n \in 1 .. Len(s) - 1 : t[n] = IF n <= i - 1 THEN a[n] ELSE b[n - (i - 1)]
  <2>1. /\ t \in Seq(X) /\ Len(t) = Len(a) + Len(b)
        /\ \A n \in 1 .. Len(a) + Len(b) : t[n] = IF n <= Len(a) THEN a[n] ELSE b[n - Len(a)]
    BY Zenon, <1>3, <1>4, <1>5, ConcatSeq
  <2>2. Len(a) + Len(b) = Len(s) - 1
    BY <1>2, <1>3, <1>4
  <2> QED BY <1>3, <2>1, <2>2, Zenon
<1>7. DOMAIN t = 1 .. Len(s) - 1
  BY <1>6
<1>8. ASSUME NEW n \in DOMAIN t
      PROVE  f[n] \in DOMAIN s /\ f[n] # i /\ t[n] = s[f[n]]
  <2>1. CASE n < i
    BY <1>2, <1>3, <1>6, <1>7, <2>1
  <2>2. CASE ~(n < i)
    <3>1. n - (i - 1) \in 1 .. Len(s) - i /\ (n - (i - 1)) + i = n + 1 /\ ~(n <= i - 1)
      BY <1>2, <1>7, <2>2
    <3>2. t[n] = s[n + 1]
      BY Zenon, <1>4, <1>6, <1>7, <3>1
    <3> QED BY <1>2, <1>7, <3>2, <2>2
  <2> QED BY <2>1, <2>2
<1>9. \A n, m \in DOMAIN t : f[n] = f[m] => n = m
  BY <1>2, <1>7
<1>10. ASSUME NEW d \in DOMAIN s \ {i}
       PROVE  \E n \in DOMAIN t : f[n] = d
  <2>1. CASE d < i
    <3>1. d \in DOMAIN t /\ f[d] = d
      BY <1>2, <1>7, <2>1
    <3> QED BY <3>1
  <2>2. CASE ~(d < i)
    <3>1. d - 1 \in DOMAIN t /\ f[d - 1] = d
      BY <1>2, <1>7, <2>2
    <3> QED BY <3>1
  <2> QED BY <2>1, <2>2
<1>11. f \in [DOMAIN t -> DOMAIN s \ {i}]
  BY <1>8
<1> HIDE DEF f
<1> QED BY <1>6, <1>8, <1>9, <1>10, <1>11 DEF Picked, t

\* The packets after the first k, and those first k.
LEMMA SuffixPicked ==
    ASSUME NEW X, NEW s \in Seq(X), NEW k \in Nat
    PROVE  LET t == SubSeq(s, k + 1, Len(s))
           IN  /\ Picked(t, s, {n \in DOMAIN s : n > k})
               /\ \A n \in DOMAIN t : n \in Nat /\ n + k \in DOMAIN s /\ t[n] = s[n + k]
<1> DEFINE t == SubSeq(s, k + 1, Len(s))
           D == {n \in DOMAIN s : n > k}
           f == [n \in DOMAIN t |-> n + k]
<1>2. Len(s) \in Nat /\ DOMAIN s = 1 .. Len(s)
  OBVIOUS
<1>3. \A n \in k + 1 .. Len(s) : s[n] \in X
  BY <1>2
<1>4. /\ t \in Seq(X) /\ Len(t) = IF k + 1 <= Len(s) THEN Len(s) - (k + 1) + 1 ELSE 0
      /\ \A n \in 1 .. Len(s) - (k + 1) + 1 : t[n] = s[k + 1 + n - 1]
  BY <1>2, <1>3
<1> HIDE DEF t
<1>5. DOMAIN t = 1 .. Len(t)
  BY <1>4
<1>6. ASSUME NEW n \in DOMAIN t
      PROVE  n \in Nat /\ n + k \in DOMAIN s /\ n > 0 /\ t[n] = s[n + k]
  <2>1. CASE k + 1 <= Len(s)
    <3>1. n \in 1 .. Len(s) - (k + 1) + 1
      BY <1>4, <1>5, <2>1
    <3>2. k + 1 + n - 1 = n + k /\ n \in Nat /\ n > 0 /\ n + k \in 1 .. Len(s)
      BY <1>2, <3>1
    <3> QED BY <1>2, <1>4, <3>1, <3>2, Zenon
  <2>2. CASE ~(k + 1 <= Len(s))
    <3>1. Len(t) = 0
      BY <1>4, <2>2
    <3> QED BY <1>5, <3>1
  <2> QED BY <2>1, <2>2
<1>7. \A n \in DOMAIN t : f[n] \in D /\ t[n] = s[f[n]]
  BY <1>6
<1>8. \A n, m \in DOMAIN t : f[n] = f[m] => n = m
  BY <1>6
<1>9. ASSUME NEW d \in D
      PROVE  \E n \in DOMAIN t : f[n] = d
  <2>1. d \in 1 .. Len(s) /\ d > k
    BY <1>2
  <2>5. Len(t) = IF k + 1 <= Len(s) THEN Len(s) - (k + 1) + 1 ELSE 0
    BY Zenon, <1>4
  <2>6. k + 1 <= Len(s)
    BY <1>2, <2>1
  <2>7. Len(t) = Len(s) - (k + 1) + 1
    BY Zenon, <2>5, <2>6
  <2>2. Len(t) = Len(s) - k
    BY <1>2, <2>7
  <2>3. d - k \in 1 .. Len(t) /\ d - k + k = d
    BY <1>2, <2>1, <2>2
  <2>4. f[d - k] = d - k + k
    BY Zenon, <1>5, <2>3
  <2> HIDE DEF f
  <2> QED BY Zenon, <1>5, <2>3, <2>4
<1>10. f \in [DOMAIN t -> D]
  BY <1>7
<1> HIDE DEF f, D
<1>11. D \subseteq DOMAIN s
  BY DEF D
<1>12. Picked(t, s, D)
  BY Zenon, <1>4, <1>7, <1>8, <1>9, <1>10, <1>11 DEF Picked
<1> QED BY <1>6, <1>12 DEF t, D

LEMMA PrefixPicked ==
    ASSUME NEW X, NEW s \in Seq(X), NEW k \in 0 .. Len(s)
    PROVE  LET t == SubSeq(s, 1, k)
           IN  /\ Picked(t, s, {n \in DOMAIN s : ~(n > k)})
               /\ \A n \in DOMAIN t : n \in DOMAIN s /\ n <= k /\ t[n] = s[n]
<1> DEFINE t == SubSeq(s, 1, k)
           D == {n \in DOMAIN s : ~(n > k)}
           f == [n \in DOMAIN t |-> n]
<1>1. Len(s) \in Nat /\ DOMAIN s = 1 .. Len(s)
  OBVIOUS
<1>2. /\ t \in Seq(X) /\ Len(t) = k /\ DOMAIN t = 1 .. k
      /\ \A n \in 1 .. k : t[n] = s[n]
  BY <1>1
<1> HIDE DEF t
<1>3. \A n \in DOMAIN t : n \in DOMAIN s /\ n <= k /\ t[n] = s[n]
  BY <1>1, <1>2
<1>4. D = DOMAIN t
  BY <1>1, <1>2
<1>5. f \in [DOMAIN t -> D] /\ \A n \in DOMAIN t : f[n] = n
  BY <1>4
<1> HIDE DEF f, D
<1>6. D \subseteq DOMAIN s
  BY DEF D
<1>7. Picked(t, s, D)
  BY <1>2, <1>3, <1>4, <1>5, <1>6 DEF Picked
<1> QED BY <1>3, <1>7 DEF t, D

\* t consists of a and then b: A are the positions of a.
Joined(t, a, b, A) ==
    /\ \E X : t \in Seq(X)
    /\ Picked(a, t, A) /\ Picked(b, t, DOMAIN t \ A)
    /\ \A n \in A : n \in DOMAIN a /\ t[n] = a[n]
    /\ \A i \in DOMAIN t : \A j \in A : i < j => i \in A

LEMMA ConcatJoined ==
    ASSUME NEW X, NEW a \in Seq(X), NEW Y, NEW b \in Seq(Y)
    PROVE  \E A : Joined(a \o b, a, b, A)
<1> DEFINE t == a \o b
           A == {n \in DOMAIN t : n <= Len(a)}
           B == DOMAIN t \ A
           f == [n \in DOMAIN a |-> n]
           g == [n \in DOMAIN b |-> n + Len(a)]
<1>1. a \in Seq(X \cup Y) /\ b \in Seq(X \cup Y)
  OBVIOUS
<1>2. /\ Len(a) \in Nat /\ DOMAIN a = 1 .. Len(a)
      /\ Len(b) \in Nat /\ DOMAIN b = 1 .. Len(b)
  OBVIOUS
<1>3. /\ t \in Seq(X \cup Y) /\ Len(t) = Len(a) + Len(b)
      /\ \A n \in 1 .. Len(a) + Len(b) : t[n] = IF n <= Len(a) THEN a[n] ELSE b[n - Len(a)]
  BY <1>1
<1> HIDE DEF t
<1>4. DOMAIN t = 1 .. Len(a) + Len(b)
  BY <1>3
<1>5. A = DOMAIN a /\ \A n \in DOMAIN a : n \in DOMAIN t /\ t[n] = a[n]
  BY <1>2, <1>3, <1>4
<1>6. f \in [DOMAIN a -> A] /\ \A n \in DOMAIN a : f[n] = n
  BY <1>5
<1>7. ASSUME NEW n \in DOMAIN b
      PROVE  g[n] \in B /\ t[g[n]] = b[n]
  <2>1. n + Len(a) \in 1 .. Len(a) + Len(b) /\ ~(n + Len(a) <= Len(a)) /\ (n + Len(a)) - Len(a) = n
    BY <1>2
  <2> QED BY <1>3, <1>4, <2>1
<1>8. \A m, n \in DOMAIN b : g[m] = g[n] => m = n
  BY <1>2
<1>9. ASSUME NEW d \in B
      PROVE  \E n \in DOMAIN b : g[n] = d
  <2>1. d - Len(a) \in DOMAIN b /\ g[d - Len(a)] = d
    BY <1>2, <1>4
  <2> QED BY <2>1
<1>10. g \in [DOMAIN b -> B]
  BY <1>7
<1>11. A \subseteq DOMAIN t /\ B \subseteq DOMAIN t
  OBVIOUS
<1>12. \A i \in DOMAIN t : \A j \in A : i < j => i \in A
  BY <1>2, <1>4
<1> HIDE DEF f, g, A, B
<1>13. Picked(a, t, A)
  BY <1>5, <1>6, <1>11 DEF Picked
<1>14. Picked(b, t, B)
  BY <1>7, <1>8, <1>9, <1>10, <1>11 DEF Picked
<1>15. Joined(t, a, b, A)
  BY <1>3, <1>5, <1>12, <1>13, <1>14 DEF Joined, B
<1> QED BY <1>15 DEF t

\* What is picked from packets in flight is in flight.
LEMMA PickedInFlight ==
    ASSUME NEW s, NEW stored, NEW status, InFlight(s, stored, status),
           NEW t, NEW D, Picked(t, s, D),
           NEW after, \A n \in D : after[s[n].denom].status = status
    PROVE  InFlight(t, after, status)
<1>1. PICK f \in [DOMAIN t -> D] :
         /\ \A n \in DOMAIN t : t[n] = s[f[n]]
         /\ \A m, n \in DOMAIN t : f[m] = f[n] => m = n
  BY DEF Picked
<1>2. \A n \in DOMAIN t : f[n] \in DOMAIN s /\ after[s[f[n]].denom].status = status
  BY DEF Picked
<1>3. \A m \in DOMAIN t : PacketOK(t[m], after, status)
  BY <1>1, <1>2 DEF InFlight, PacketOK
<1>4. ASSUME NEW m \in DOMAIN t, NEW n \in DOMAIN t, t[m].denom = t[n].denom
      PROVE  m = n
  <2>1. f[m] = f[n]
    BY <1>1, <1>2, <1>4 DEF InFlight
  <2> QED BY <1>1, <2>1
<1> QED BY <1>3, <1>4 DEF InFlight, Picked

\* EndBlocker sends one packet for each denom of a set.
LEMMA PacketsOfSet ==
    ASSUME NEW S \in SUBSET Denoms
    PROVE  /\ \E X : Packets(S) \in Seq(X)
           /\ \A i \in DOMAIN Packets(S) :
                 /\ Packets(S)[i].denom \in S
                 /\ Packets(S)[i] = Packet(Packets(S)[i].denom, deposits[Packets(S)[i].denom])
           /\ \A i, j \in DOMAIN Packets(S) : Packets(S)[i].denom = Packets(S)[j].denom => i = j
           /\ \A d \in S : \E i \in DOMAIN Packets(S) : Packets(S)[i].denom = d
<1> DEFINE D == 1 .. Cardinality(S)
           ds == CHOOSE f \in Bijection(D, S) : TRUE
<1>1. IsFiniteSet(S)
  BY LSMAssumptions, FS_Subset
<1>2. Cardinality(S) \in Nat /\ ExistsBijection(D, S)
  BY <1>1, FS_CardinalityType
<1>3. ds \in Bijection(D, S)
  BY <1>2 DEF ExistsBijection
<1> HIDE DEF ds
<1>4. /\ ds \in [D -> S] /\ IsInjective(ds)
      /\ \A d \in S : \E i \in D : ds[i] = d
  BY <1>3 DEF Bijection, Injection, Surjection
<1>5. Packets(S) = [i \in D |-> Packet(ds[i], deposits[ds[i]])]
  BY <1>4 DEF Packets, ds
<1>6. Packets(S) \in Seq({Packet(ds[i], deposits[ds[i]]) : i \in D})
  BY <1>2, <1>5
<1>7. \A i \in D : Packets(S)[i].denom = ds[i] /\ ds[i] \in S
  BY <1>4, <1>5 DEF Packet
<1>8. DOMAIN Packets(S) = D /\ DOMAIN ds = D
  BY <1>4, <1>5
<1>9. \A i \in D : Packets(S)[i] = Packet(Packets(S)[i].denom, deposits[Packets(S)[i].denom])
  BY <1>5, <1>7
<1>10. \A i, j \in D : Packets(S)[i].denom = Packets(S)[j].denom => i = j
  BY <1>4, <1>7, <1>8 DEF IsInjective
<1>11. \A d \in S : \E i \in D : Packets(S)[i].denom = d
  BY <1>4, <1>7
<1> HIDE DEF D
<1> QED BY Zenon, <1>6, <1>7, <1>8, <1>9, <1>10, <1>11

\* Packets sent for records that had none in flight.
LEMMA PacketsSent ==
    ASSUME StoreOK, NEW S \in SUBSET Denoms, NEW s, NEW stored, NEW status, NEW after,
           InFlight(s, stored, status),
           \A n \in DOMAIN s : s[n].denom \notin S /\ after[s[n].denom].status = status,
           \A d \in S : after[d].status = status
    PROVE  InFlight(s \o Packets(S), after, status)
<1> DEFINE new == Packets(S)
           t == s \o new
<1>1. PICK X : s \in Seq(X)
  BY DEF InFlight
<1>2. PICK Y : new \in Seq(Y)
  BY PacketsOfSet
<1>3. /\ \A i \in DOMAIN new :
            /\ new[i].denom \in S
            /\ new[i] = Packet(new[i].denom, deposits[new[i].denom])
      /\ \A i, j \in DOMAIN new : new[i].denom = new[j].denom => i = j
  BY PacketsOfSet
<1> HIDE DEF new
<1>4. PICK A : Joined(t, s, new, A)
  BY Zenon, <1>1, <1>2, ConcatJoined
<1> HIDE DEF t
<1>5. PICK f \in [DOMAIN s -> A] :
         /\ \A n \in DOMAIN s : s[n] = t[f[n]]
         /\ \A e \in A : \E n \in DOMAIN s : f[n] = e
  BY Zenon, <1>4 DEF Joined, Picked
<1>6. PICK g \in [DOMAIN new -> DOMAIN t \ A] :
         /\ \A n \in DOMAIN new : new[n] = t[g[n]]
         /\ \A e \in DOMAIN t \ A : \E n \in DOMAIN new : g[n] = e
  BY Zenon, <1>4 DEF Joined, Picked
<1>7. \A i \in A : \E n \in DOMAIN s : f[n] = i /\ t[i] = s[n]
  BY <1>5
<1>8. \A i \in DOMAIN t \ A : \E n \in DOMAIN new : g[n] = i /\ t[i] = new[n]
  BY <1>6
<1>9. ASSUME NEW i \in DOMAIN new
      PROVE  PacketOK(new[i], after, status)
  BY <1>3 DEF PacketOK, Packet, StoreOK
<1>10. ASSUME NEW i \in DOMAIN s
       PROVE  PacketOK(s[i], after, status)
  BY DEF InFlight, PacketOK
<1>11. \A i \in DOMAIN t : PacketOK(t[i], after, status)
  BY <1>7, <1>8, <1>9, <1>10
<1>12. ASSUME NEW i \in DOMAIN t, NEW j \in DOMAIN t, t[i].denom = t[j].denom
       PROVE  i = j
  <2>1. CASE i \in A /\ j \in A
    BY <1>7, <1>12, <2>1 DEF InFlight
  <2>2. CASE i \notin A /\ j \notin A
    BY <1>3, <1>8, <1>12, <2>2
  <2>3. (i \in A) <=> (j \in A)
    BY <1>3, <1>7, <1>8, <1>12
  <2> QED BY <2>1, <2>2, <2>3
<1>13. InFlight(t, after, status)
  BY <1>4, <1>11, <1>12 DEF InFlight, Joined
<1> QED BY <1>13 DEF t, new

\* The host executes a packet: its state and response change, no more.
LEMMA PacketExecuted ==
    ASSUME NEW s, NEW stored, NEW status, InFlight(s, stored, status), NEW i \in DOMAIN s,
           NEW result \in {"success", "failure"}, NEW response,
           NEW t, \/ t = [s EXCEPT ![i].state = result]
                  \/ t = [s EXCEPT ![i].state = result, ![i].response = response]
    PROVE  InFlight(t, stored, status)
<1>1. PICK X : s \in Seq(X)
  BY DEF InFlight
<1>2. Len(s) \in Nat /\ DOMAIN s = 1 .. Len(s)
  BY <1>1
<1>3. t \in [1 .. Len(s) -> {t[n] : n \in 1 .. Len(s)}]
  BY <1>2
<1>4. t \in Seq({t[n] : n \in 1 .. Len(s)})
  BY <1>2, <1>3
<1>5. DOMAIN t = DOMAIN s
  BY <1>2, <1>3
<1>6. ASSUME NEW n \in DOMAIN s
      PROVE  PacketOK(t[n], stored, status) /\ t[n].denom = s[n].denom
  <2>1. PacketOK(s[n], stored, status)
    BY DEF InFlight
  <2>2. CASE n = i
    BY <2>1, <2>2 DEF PacketOK
  <2>3. CASE n # i
    BY <2>1, <2>3
  <2> QED BY <2>2, <2>3
<1> QED BY <1>4, <1>5, <1>6 DEF InFlight
-----------------------------------------------------------------------------
(* The steps *)

\* The invariant holds in the initial state.
LEMMA InitLInv == Init => LInv
<1> SUFFICES ASSUME Init PROVE LInv
  OBVIOUS
<1>1. StoreOK
  BY DEF Init, StoreOK, NoDeposit
<1>2. QueriesOK
  BY DEF Init, QueriesOK, WithStatus, NoDeposit
<1>3. \A stored, status : InFlight(<<>>, stored, status)
  BY DEF InFlight
<1> QED BY <1>1, <1>2, <1>3 DEF Init, LInv

\* A step that leaves records, queries and packets alone.
LEMMA OtherStep ==
    ASSUME LInv, UNCHANGED <<deposits, queries, transfers, icas>>
    PROVE  LInv'
BY DEF LInv, StoreOK, QueriesOK, WithStatus

\* A step that changes no query, and no pending record.
LEMMA SameQueries ==
    ASSUME LInv, queries' = queries,
           \A d \in Denoms : \/ deposits'[d] = deposits[d]
                             \/ /\ deposits[d].status # "DEPOSIT_PENDING"
                                /\ deposits'[d].status # "DEPOSIT_PENDING"
    PROVE  QueriesOK'
BY DEF LInv, QueriesOK, QueryOK, WithStatus

\* The records of packets in flight are not pending, and not absent.
LEMMA PacketStatus ==
    ASSUME LInv
    PROVE  /\ \A n \in DOMAIN transfers :
                 /\ transfers[n].denom \in Denoms
                 /\ deposits[transfers[n].denom].status = "TRANSFER_IN_PROGRESS"
           /\ \A n \in DOMAIN icas :
                 /\ icas[n].denom \in Denoms
                 /\ deposits[icas[n].denom].status = "DETOKENIZATION_IN_PROGRESS"
BY DEF LInv, InFlight, PacketOK

\* A step that changes one record, that of d, which is not in flight.
LEMMA OneRecord ==
    ASSUME LInv, NEW d \in Denoms, NEW deposit, deposits' = [deposits EXCEPT ![d] = deposit],
           "status" \in DOMAIN deposit,
           deposits[d].status \in {"NONE", "DEPOSIT_PENDING"},
           UNCHANGED <<transfers, icas>>
    PROVE  /\ deposits' = [e \in Denoms |-> deposits'[e]]
           /\ \A e \in Denoms : "status" \in DOMAIN deposits'[e]
           /\ InFlight(transfers, deposits, "TRANSFER_IN_PROGRESS")'
           /\ InFlight(icas, deposits, "DETOKENIZATION_IN_PROGRESS")'
<1>1. \A e \in Denoms : deposits'[e] = IF e = d THEN deposit ELSE deposits[e]
  BY DEF LInv, StoreOK
<1>2. /\ \A n \in DOMAIN transfers :
            deposits'[transfers[n].denom].status = "TRANSFER_IN_PROGRESS"
      /\ \A n \in DOMAIN icas :
            deposits'[icas[n].denom].status = "DETOKENIZATION_IN_PROGRESS"
  BY <1>1, PacketStatus
<1>3. InFlight(transfers, deposits', "TRANSFER_IN_PROGRESS")
  BY <1>2 DEF LInv, InFlight, PacketOK
<1>4. InFlight(icas, deposits', "DETOKENIZATION_IN_PROGRESS")
  BY <1>2 DEF LInv, InFlight, PacketOK
<1>5. deposits' = [e \in Denoms |-> deposits'[e]]
  BY DEF LInv, StoreOK
<1>6. \A e \in Denoms : "status" \in DOMAIN deposits'[e]
  BY <1>1 DEF LInv, StoreOK
<1> QED BY <1>3, <1>4, <1>5, <1>6

\* A query is stored in a free slot.
LEMMA QuerySubmitted ==
    ASSUME LInv, NEW v, NEW d, NEW deposit, SubmitRateQuery(v, d, deposit)
    PROVE  /\ queries' = [q \in Queries |-> queries'[q]]
           /\ \E q \in Queries :
                 /\ queries[q] = NoQuery
                 /\ queries'[q] = [state |-> "sent", validator |-> v, rate |-> 0, denom |-> d,
                                   deposit |-> deposit]
                 /\ \A p \in Queries \ {q} : queries'[p] = queries[p]
<1> DEFINE free == {q \in Queries : queries[q] = NoQuery}
           slot == CHOOSE q \in free : TRUE
<1>1. slot \in free
  BY DEF SubmitRateQuery
<1> HIDE DEF slot
<1>2. queries' = [queries EXCEPT ![slot] = [state |-> "sent", validator |-> v, rate |-> 0,
                                            denom |-> d, deposit |-> deposit]]
  BY DEF SubmitRateQuery, slot
<1>3. queries = [q \in Queries |-> queries[q]] /\ slot \in Queries
  BY Zenon, <1>1 DEF LInv, StoreOK
<1> QED BY <1>1, <1>2, <1>3

\* A stake either waits, with a query of its own, or gets its record at once.
LEMMA LSMLiquidStakeStep ==
    ASSUME LInv, NEW staker, NEW d \in Denoms, NEW amount, LSMLiquidStake(staker, d, amount)
    PROVE  LInv'
<1> DEFINE v == ValidatorOf[d]
           token == LSMStToken(amount, validators[v].rate)
           deposit == [status |-> "DEPOSIT_PENDING", staker |-> staker, amount |-> amount,
                       stToken |-> token]
<1>1. deposits[d] = NoDeposit /\ UNCHANGED <<transfers, icas>>
  BY DEF LSMLiquidStake, StartLSMLiquidStake, icaVars
<1>2. deposits[d].status = "NONE"
  BY <1>1 DEF NoDeposit
<1>3. CASE SubmitRateQuery(v, d, deposit) /\ deposits' = [deposits EXCEPT ![d] = deposit]
  <2> HIDE DEF token
  <2>1. "status" \in DOMAIN deposit /\ deposit.status = "DEPOSIT_PENDING" /\ deposit # NoDeposit
    BY DEF NoDeposit
  <2>2. /\ deposits' = [e \in Denoms |-> deposits'[e]]
        /\ \A e \in Denoms : "status" \in DOMAIN deposits'[e]
        /\ InFlight(transfers, deposits, "TRANSFER_IN_PROGRESS")'
        /\ InFlight(icas, deposits, "DETOKENIZATION_IN_PROGRESS")'
    BY <1>1, <1>2, <1>3, <2>1, OneRecord, Zenon
  <2>3. PICK q \in Queries :
           /\ queries[q] = NoQuery
           /\ queries'[q] = [state |-> "sent", validator |-> v, rate |-> 0, denom |-> d,
                             deposit |-> deposit]
           /\ \A p \in Queries \ {q} : queries'[p] = queries[p]
    BY <1>3, QuerySubmitted
  <2>4. StoreOK'
    BY <1>3, <2>2, QuerySubmitted, Zenon DEF StoreOK
  <2>5. deposits'[d] = deposit /\ \A e \in Denoms \ {d} : deposits'[e] = deposits[e]
    BY Zenon, <1>3 DEF LInv, StoreOK
  <2> HIDE DEF deposit
  <2>6. \A p \in Queries : queries[p] # NoQuery => queries[p].denom # d
    BY <1>1, <1>2, LSMAssumptions DEF LInv, QueriesOK, QueryOK
  <2>7. queries'[q] # NoQuery /\ queries'[q].denom = d /\ QueryOK(queries'[q], deposits')
    BY <2>1, <2>3, <2>5 DEF QueryOK, NoQuery
  <2>8. \A p \in Queries : queries'[p] = NoQuery \/ QueryOK(queries'[p], deposits')
    BY <2>3, <2>5, <2>6, <2>7 DEF LInv, QueriesOK, QueryOK
  <2>9. OnlyQuery(queries', d, q)
    BY <2>3, <2>6, <2>7 DEF OnlyQuery
  <2>10. ASSUME NEW e \in Denoms, deposits'[e].status = "DEPOSIT_PENDING", e # d
         PROVE  \E p \in Queries : OnlyQuery(queries', e, p)
    <3>1. PICK p \in Queries : OnlyQuery(queries, e, p)
      BY <2>5, <2>10 DEF LInv, QueriesOK, WithStatus
    <3>2. OnlyQuery(queries', e, p)
      BY Zenon, <2>3, <2>7, <2>10, <3>1 DEF OnlyQuery
    <3> QED BY Zenon, <3>2
  <2>11. QueriesOK'
    BY <2>8, <2>9, <2>10 DEF QueriesOK, WithStatus
  <2> QED BY Zenon, <2>2, <2>4, <2>11 DEF LInv
<1>4. CASE /\ deposits' = [deposits EXCEPT ![d] = WithStatusOf(deposit, "TRANSFER_QUEUE")]
           /\ queries' = queries
  <2> HIDE DEF token
  <2> DEFINE record == WithStatusOf(deposit, "TRANSFER_QUEUE")
  <2>1. "status" \in DOMAIN record /\ record.status = "TRANSFER_QUEUE"
    BY DEF WithStatusOf
  <2> HIDE DEF record
  <2>2. /\ deposits' = [e \in Denoms |-> deposits'[e]]
        /\ \A e \in Denoms : "status" \in DOMAIN deposits'[e]
        /\ InFlight(transfers, deposits, "TRANSFER_IN_PROGRESS")'
        /\ InFlight(icas, deposits, "DETOKENIZATION_IN_PROGRESS")'
    BY <1>1, <1>2, <1>4, <2>1, OneRecord, Zenon DEF record
  <2>3. StoreOK'
    BY <1>4, <2>2 DEF StoreOK, LInv
  <2>4. \A e \in Denoms : deposits'[e] = IF e = d THEN record ELSE deposits[e]
    BY <1>4 DEF LInv, StoreOK, record
  <2>5. QueriesOK'
    BY <1>2, <1>4, <2>1, <2>4, SameQueries
  <2> QED BY <2>2, <2>3, <2>5 DEF LInv
<1> QED BY Zenon, <1>3, <1>4 DEF LSMLiquidStake, FinishLSMLiquidStake

\* A manual query is of no denom, and carries no stake.
LEMMA UpdateValidatorSharesExchRateStep ==
    ASSUME LInv, NEW v, UpdateValidatorSharesExchRate(v)
    PROVE  LInv'
<1>1. SubmitRateQuery(v, "none", NoDeposit) /\ UNCHANGED <<deposits, transfers, icas>>
  BY DEF UpdateValidatorSharesExchRate, icaVars
<1>2. PICK q \in Queries :
         /\ queries[q] = NoQuery
         /\ queries'[q] = [state |-> "sent", validator |-> v, rate |-> 0, denom |-> "none",
                           deposit |-> NoDeposit]
         /\ \A p \in Queries \ {q} : queries'[p] = queries[p]
  BY <1>1, QuerySubmitted
<1>3. StoreOK'
  BY <1>1, QuerySubmitted, Zenon DEF LInv, StoreOK
<1>4. QueryOK(queries'[q], deposits) /\ queries'[q].denom = "none"
  BY <1>2 DEF QueryOK
<1>5. ASSUME NEW e \in WithStatus("DEPOSIT_PENDING")
      PROVE  \E p \in Queries : OnlyQuery(queries', e, p)
  <2>1. PICK p \in Queries : OnlyQuery(queries, e, p)
    BY DEF LInv, QueriesOK
  <2>2. e # "none"
    BY LSMAssumptions DEF WithStatus
  <2>3. OnlyQuery(queries', e, p)
    BY Zenon, <1>2, <1>4, <2>1, <2>2 DEF OnlyQuery
  <2> QED BY <2>3
<1>6. QueriesOK'
  BY Zenon, <1>1, <1>2, <1>4, <1>5 DEF LInv, QueriesOK, WithStatus
<1> QED BY <1>1, <1>3, <1>6 DEF LInv

\* The host reads a rate: the query keeps its denom and its stake.
LEMMA HostReadsRateStep ==
    ASSUME LInv, NEW q \in Queries, HostReadsRate(q)
    PROVE  LInv'
<1>1. UNCHANGED <<deposits, transfers, icas>> /\ queries[q].state = "sent"
  BY DEF HostReadsRate, icaVars
<1>2. queries[q] # NoQuery
  BY <1>1 DEF NoQuery
<1>3. QueryOK(queries[q], deposits)
  BY <1>2 DEF LInv, QueriesOK
<1> DEFINE rate == hostRate[queries[q].validator]
<1>4. queries' = [queries EXCEPT ![q].state = "read", ![q].rate = rate]
  BY DEF HostReadsRate
<1> HIDE DEF rate
<1>5. queries = [p \in Queries |-> queries[p]]
  BY DEF LInv, StoreOK
<1>6. /\ queries' = [p \in Queries |-> queries'[p]]
      /\ \A p \in Queries \ {q} : queries'[p] = queries[p]
  BY <1>4, <1>5
<1>7. /\ queries'[q].state = "read" /\ queries'[q].denom = queries[q].denom
      /\ queries'[q].deposit = queries[q].deposit /\ DOMAIN queries'[q] = DOMAIN queries[q]
  BY Zenon, <1>3, <1>4, <1>5 DEF QueryOK
<1>8. QueryOK(queries'[q], deposits) /\ queries'[q] # NoQuery
  BY <1>3, <1>7 DEF QueryOK, NoQuery
<1>9. \A d \in Denoms, p \in Queries : OnlyQuery(queries, d, p) => OnlyQuery(queries', d, p)
  BY <1>2, <1>6, <1>7, <1>8 DEF OnlyQuery
<1>10. QueriesOK'
  BY Zenon, <1>1, <1>6, <1>8, <1>9 DEF LInv, QueriesOK, WithStatus
<1> QED BY <1>1, <1>6, <1>10 DEF LInv, StoreOK

\* A query ends: its stake, if any, is no longer pending.
LEMMA QueryEnds ==
    ASSUME LInv, NEW q \in Queries, queries[q] # NoQuery, NEW record,
           queries' = [queries EXCEPT ![q] = NoQuery],
           \/ /\ queries[q].deposit = NoDeposit /\ deposits' = deposits
           \/ /\ queries[q].deposit # NoDeposit
              /\ deposits' = [deposits EXCEPT ![queries[q].denom] = record]
              /\ "status" \in DOMAIN record /\ record.status # "DEPOSIT_PENDING",
           UNCHANGED <<transfers, icas>>
    PROVE  LInv'
<1> DEFINE d == queries[q].denom
<1>1. QueryOK(queries[q], deposits)
  BY DEF LInv, QueriesOK
<1>2. /\ queries' = [p \in Queries |-> queries'[p]] /\ queries'[q] = NoQuery
      /\ \A p \in Queries \ {q} : queries'[p] = queries[p]
  BY DEF LInv, StoreOK
<1>3. CASE queries[q].deposit = NoDeposit
  <2>1. deposits' = deposits
    BY <1>3
  <2>2. d = "none"
    BY <1>1, <1>3 DEF QueryOK, NoDeposit
  <2>3. ASSUME NEW e \in WithStatus("DEPOSIT_PENDING")
        PROVE  \E p \in Queries : OnlyQuery(queries', e, p)
    <3>1. PICK p \in Queries : OnlyQuery(queries, e, p)
      BY DEF LInv, QueriesOK
    <3>2. e # d
      BY <2>2, LSMAssumptions DEF WithStatus
    <3>3. OnlyQuery(queries', e, p)
      BY <1>2, <3>1, <3>2 DEF OnlyQuery
    <3> QED BY <3>3
  <2>4. QueriesOK'
    BY <1>2, <2>1, <2>3, Zenon DEF LInv, QueriesOK, WithStatus
  <2> QED BY <1>2, <2>1, <2>4 DEF LInv, StoreOK
<1>4. CASE queries[q].deposit # NoDeposit
  <2>1. /\ deposits' = [deposits EXCEPT ![d] = record]
        /\ "status" \in DOMAIN record /\ record.status # "DEPOSIT_PENDING"
    BY Zenon, <1>4
  <2>2. d \in Denoms /\ deposits[d].status = "DEPOSIT_PENDING"
    BY <1>1, <1>4 DEF QueryOK
  <2> HIDE DEF d
  <2>3. /\ deposits' = [e \in Denoms |-> deposits'[e]]
        /\ \A e \in Denoms : "status" \in DOMAIN deposits'[e]
        /\ InFlight(transfers, deposits, "TRANSFER_IN_PROGRESS")'
        /\ InFlight(icas, deposits, "DETOKENIZATION_IN_PROGRESS")'
    BY <2>1, <2>2, OneRecord, Zenon
  <2>4. deposits'[d] = record /\ \A e \in Denoms \ {d} : deposits'[e] = deposits[e]
    BY <2>1, <2>2 DEF LInv, StoreOK
  <2>5. PICK o \in Queries : OnlyQuery(queries, d, o)
    BY <2>2 DEF LInv, QueriesOK, WithStatus
  <2>6. o = q
    BY <2>5 DEF OnlyQuery, d
  <2>7. \A p \in Queries : queries'[p] # NoQuery => queries'[p].denom # d
    BY Zenon, <1>2, <2>5, <2>6 DEF OnlyQuery
  <2>8. \A p \in Queries : queries'[p] = NoQuery \/ QueryOK(queries'[p], deposits')
    BY <1>2, <2>4, <2>7 DEF LInv, QueriesOK, QueryOK
  <2>9. ASSUME NEW e \in Denoms, deposits'[e].status = "DEPOSIT_PENDING"
        PROVE  \E p \in Queries : OnlyQuery(queries', e, p)
    <3>1. e # d /\ e \in WithStatus("DEPOSIT_PENDING")
      BY Zenon, <2>1, <2>4, <2>9 DEF WithStatus
    <3>2. PICK p \in Queries : OnlyQuery(queries, e, p)
      BY Zenon, <3>1 DEF LInv, QueriesOK
    <3>3. OnlyQuery(queries', e, p)
      BY <1>2, <3>1, <3>2 DEF OnlyQuery, d
    <3> QED BY <3>3
  <2>10. QueriesOK'
    BY <2>8, <2>9, Zenon DEF QueriesOK, WithStatus
  <2>11. StoreOK'
    BY Zenon, <1>2, <2>3 DEF StoreOK
  <2> QED BY Zenon, <2>3, <2>10, <2>11 DEF LInv
<1> QED BY Zenon, <1>3, <1>4

\* The callback of a query finishes or removes its stake.
LEMMA RateCallbackStep ==
    ASSUME LInv, NEW q \in Queries, ValidatorSharesToTokensRateCallback(q)
    PROVE  LInv'
<1> DEFINE deposit == queries[q].deposit
<1>1. /\ queries[q].state = "read" /\ queries' = [queries EXCEPT ![q] = NoQuery]
      /\ UNCHANGED <<transfers, icas>>
  BY Zenon DEF ValidatorSharesToTokensRateCallback, icaVars
<1>2. queries[q] # NoQuery
  BY <1>1 DEF NoQuery
<1>3. QueryOK(queries[q], deposits)
  BY <1>2 DEF LInv, QueriesOK
<1>4. \/ deposit = NoDeposit /\ deposits' = deposits
      \/ deposit # NoDeposit /\ deposits' = [deposits EXCEPT ![queries[q].denom] = NoDeposit]
      \/ /\ deposit # NoDeposit
         /\ deposits' = [deposits EXCEPT ![queries[q].denom] =
                            WithStatusOf(deposit, "TRANSFER_QUEUE")]
  BY Zenon DEF ValidatorSharesToTokensRateCallback, FailLSMLiquidStake, FinishLSMLiquidStake
<1>5. "status" \in DOMAIN NoDeposit /\ NoDeposit.status # "DEPOSIT_PENDING"
  BY DEF NoDeposit
<1>6. deposit # NoDeposit => "status" \in DOMAIN deposit
  BY <1>3 DEF QueryOK, LInv, StoreOK
<1>7. deposit # NoDeposit =>
         LET record == WithStatusOf(deposit, "TRANSFER_QUEUE")
         IN  "status" \in DOMAIN record /\ record.status # "DEPOSIT_PENDING"
  BY <1>6 DEF WithStatusOf
<1>8. CASE deposit = NoDeposit /\ deposits' = deposits
  BY <1>1, <1>2, <1>8, QueryEnds, Zenon
<1>9. CASE /\ deposit # NoDeposit
           /\ deposits' = [deposits EXCEPT ![queries[q].denom] = NoDeposit]
  BY <1>1, <1>2, <1>5, <1>9, QueryEnds, Zenon
<1>10. CASE /\ deposit # NoDeposit
            /\ deposits' = [deposits EXCEPT ![queries[q].denom] =
                               WithStatusOf(deposit, "TRANSFER_QUEUE")]
  BY <1>1, <1>2, <1>7, <1>10, QueryEnds, Zenon
<1> QED BY <1>4, <1>8, <1>9, <1>10

\* A query that times out removes its stake.
LEMMA RateQueryTimesOutStep ==
    ASSUME LInv, NEW q \in Queries, RateQueryTimesOut(q)
    PROVE  LInv'
<1>1. /\ queries[q] # NoQuery /\ queries' = [queries EXCEPT ![q] = NoQuery]
      /\ UNCHANGED <<transfers, icas>>
      /\ \/ queries[q].deposit = NoDeposit /\ deposits' = deposits
         \/ /\ queries[q].deposit # NoDeposit
            /\ deposits' = [deposits EXCEPT ![queries[q].denom] = NoDeposit]
  BY DEF RateQueryTimesOut, FailLSMLiquidStake, icaVars
<1>2. "status" \in DOMAIN NoDeposit /\ NoDeposit.status # "DEPOSIT_PENDING"
  BY DEF NoDeposit
<1> QED BY <1>1, <1>2, QueryEnds, Zenon

\* The end of a block sends the queued records, and records what it sent.
LEMMA EndBlockerStep ==
    ASSUME LInv, NEW S, NEW T, EndBlockerWith(S, T)
    PROVE  LInv'
<1> DEFINE transferred == WithStatus("TRANSFER_QUEUE") \ S
           queued == IF channel = "open" THEN WithStatus("DETOKENIZATION_QUEUE") ELSE {}
           sent == queued \ T
<1>1. /\ S \subseteq WithStatus("TRANSFER_QUEUE")
      /\ transfers' = transfers \o Packets(transferred)
      /\ icas' = icas \o Packets(sent)
      /\ queries' = queries
      /\ deposits' = [d \in Denoms |->
              CASE d \in transferred -> WithStatusOf(deposits[d], "TRANSFER_IN_PROGRESS")
                [] d \in S -> WithStatusOf(deposits[d], "TRANSFER_FAILED")
                [] d \in queued -> DetokenizeLSMDeposit(deposits[d], d \in sent)
                [] OTHER -> deposits[d]]
  BY DEF EndBlockerWith
<1>2. /\ transferred \in SUBSET Denoms /\ sent \in SUBSET Denoms
      /\ \A d \in transferred \cup S : deposits[d].status = "TRANSFER_QUEUE"
      /\ \A d \in queued : d \in Denoms /\ deposits[d].status = "DETOKENIZATION_QUEUE"
      /\ sent \subseteq queued /\ transferred \cap S = {}
  BY <1>1 DEF WithStatus
<1> HIDE DEF transferred, queued, sent
<1>3. \A d \in Denoms : \A status :
         /\ "status" \in DOMAIN WithStatusOf(deposits[d], status)
         /\ WithStatusOf(deposits[d], status).status = status
  BY DEF LInv, StoreOK, WithStatusOf
<1>4. /\ \A d \in transferred : deposits'[d] = WithStatusOf(deposits[d], "TRANSFER_IN_PROGRESS")
      /\ \A d \in S : d \in Denoms => deposits'[d] = WithStatusOf(deposits[d], "TRANSFER_FAILED")
      /\ \A d \in sent : deposits'[d] = WithStatusOf(deposits[d], "DETOKENIZATION_IN_PROGRESS")
      /\ \A d \in Denoms \ (transferred \cup S \cup sent) : deposits'[d] = deposits[d]
  BY Zenon, <1>1, <1>2 DEF DetokenizeLSMDeposit
<1>5. \A d \in Denoms :
         \/ deposits'[d] = deposits[d]
         \/ /\ deposits[d].status \in {"TRANSFER_QUEUE", "DETOKENIZATION_QUEUE"}
            /\ deposits'[d].status # "DEPOSIT_PENDING" /\ "status" \in DOMAIN deposits'[d]
  BY <1>2, <1>3, <1>4
<1>6. StoreOK'
  BY <1>1, <1>5 DEF LInv, StoreOK
<1>7. QueriesOK'
  BY Zenon, <1>1, <1>5, SameQueries
<1>8. /\ \A d \in transferred : deposits'[d].status = "TRANSFER_IN_PROGRESS"
      /\ \A d \in sent : deposits'[d].status = "DETOKENIZATION_IN_PROGRESS"
  BY <1>2, <1>3, <1>4
<1>9. /\ \A n \in DOMAIN transfers :
            /\ transfers[n].denom \notin transferred
            /\ deposits'[transfers[n].denom].status = "TRANSFER_IN_PROGRESS"
      /\ \A n \in DOMAIN icas :
            /\ icas[n].denom \notin sent
            /\ deposits'[icas[n].denom].status = "DETOKENIZATION_IN_PROGRESS"
  BY Zenon, <1>2, <1>5, PacketStatus
<1>10. InFlight(transfers \o Packets(transferred), deposits', "TRANSFER_IN_PROGRESS")
  BY Zenon, <1>2, <1>8, <1>9, PacketsSent DEF LInv
<1>11. InFlight(icas \o Packets(sent), deposits', "DETOKENIZATION_IN_PROGRESS")
  BY <1>2, <1>8, <1>9, PacketsSent DEF LInv
<1> QED BY <1>1, <1>6, <1>7, <1>10, <1>11 DEF LInv

\* The host executes a transfer or an ICA.
LEMMA HostPacketStep ==
    ASSUME LInv, \/ \E i \in DOMAIN transfers : HostReceivesTransfer(i)
                 \/ \E i \in DOMAIN icas : HostExecutesDetokenization(i)
    PROVE  LInv'
<1>1. ASSUME NEW i \in DOMAIN transfers, HostReceivesTransfer(i)
      PROVE  LInv'
  <2>1. PICK result \in {"success", "failure"} : transfers' = [transfers EXCEPT ![i].state = result]
    BY <1>1 DEF HostReceivesTransfer
  <2>2. UNCHANGED <<deposits, queries, icas>>
    BY <1>1 DEF HostReceivesTransfer, icaVars
  <2>3. InFlight(transfers, deposits, "TRANSFER_IN_PROGRESS")
    BY DEF LInv
  <2>4. InFlight(transfers', deposits, "TRANSFER_IN_PROGRESS")
    BY <2>1, <2>3, PacketExecuted, Zenon
  <2> QED BY <2>2, <2>4 DEF LInv, StoreOK, QueriesOK, WithStatus
<1>2. ASSUME NEW i \in DOMAIN icas, HostExecutesDetokenization(i)
      PROVE  LInv'
  <2>1. PICK result \in {"success", "failure"} : \E response :
           \/ icas' = [icas EXCEPT ![i].state = result]
           \/ icas' = [icas EXCEPT ![i].state = result, ![i].response = response]
    BY <1>2, Zenon DEF HostExecutesDetokenization
  <2>2. UNCHANGED <<deposits, queries, transfers>>
    BY <1>2, Zenon DEF HostExecutesDetokenization
  <2>3. InFlight(icas, deposits, "DETOKENIZATION_IN_PROGRESS")
    BY DEF LInv
  <2>4. InFlight(icas', deposits, "DETOKENIZATION_IN_PROGRESS")
    BY <2>1, <2>3, PacketExecuted, Zenon
  <2> QED BY <2>2, <2>4 DEF LInv, StoreOK, QueriesOK, WithStatus
<1> QED BY Zenon, <1>1, <1>2

\* The record d of a packet in flight gets another status or is removed; the records of the
\* other denoms stay as they are.
LEMMA RecordOfPacket ==
    ASSUME LInv, NEW d \in Denoms, NEW record, deposits' = [deposits EXCEPT ![d] = record],
           "status" \in DOMAIN record, record.status # "DEPOSIT_PENDING",
           deposits[d].status # "DEPOSIT_PENDING", queries' = queries
    PROVE  /\ StoreOK' /\ QueriesOK'
           /\ deposits'[d] = record
           /\ \A e \in Denoms \ {d} : deposits'[e] = deposits[e]
<1>1. deposits'[d] = record /\ \A e \in Denoms \ {d} : deposits'[e] = deposits[e]
  BY DEF LInv, StoreOK
<1>2. StoreOK'
  BY <1>1 DEF LInv, StoreOK
<1>3. QueriesOK'
  BY Zenon, <1>1, SameQueries
<1> QED BY Zenon, <1>1, <1>2, <1>3

\* The callback of a transfer writes the record it was sent with.
LEMMA LSMTransferCallbackStep ==
    ASSUME LInv, NEW i \in DOMAIN transfers, NEW status \in {"success", "failure", "timeout"},
           LSMTransferCallback(i, status)
    PROVE  LInv'
<1> DEFINE d == transfers[i].denom
           record == WithStatusOf(transfers[i].deposit, AfterTransfer(status))
<1>1. /\ transfers' = Without(transfers, i) /\ deposits' = [deposits EXCEPT ![d] = record]
      /\ UNCHANGED <<queries, icas>>
  BY Zenon DEF LSMTransferCallback, icaVars
<1>2. PacketOK(transfers[i], deposits, "TRANSFER_IN_PROGRESS")
  BY DEF LInv, InFlight
<1>3. d \in Denoms /\ deposits[d].status = "TRANSFER_IN_PROGRESS"
  BY <1>2 DEF PacketOK
<1>4. "status" \in DOMAIN record /\ record.status = AfterTransfer(status)
  BY <1>2 DEF PacketOK, WithStatusOf
<1>5. AfterTransfer(status) # "DEPOSIT_PENDING"
  BY DEF AfterTransfer
<1> HIDE DEF record
<1>6. /\ StoreOK' /\ QueriesOK'
      /\ \A e \in Denoms \ {d} : deposits'[e] = deposits[e]
  BY <1>1, <1>3, <1>4, <1>5, RecordOfPacket, Zenon
<1>7. \A n \in DOMAIN transfers \ {i} : transfers[n].denom \in Denoms \ {d}
  BY Zenon, PacketStatus DEF LInv, InFlight
<1>8. \A n \in DOMAIN transfers \ {i} :
         deposits'[transfers[n].denom].status = "TRANSFER_IN_PROGRESS"
  BY Zenon, <1>6, <1>7, PacketStatus
<1>9. InFlight(Without(transfers, i), deposits', "TRANSFER_IN_PROGRESS")
  <2>1. PICK X : transfers \in Seq(X)
    BY DEF LInv, InFlight
  <2>2. Picked(Without(transfers, i), transfers, DOMAIN transfers \ {i})
    BY Zenon, <2>1, WithoutPicked
  <2> QED BY Zenon, <1>8, <2>2, PickedInFlight DEF LInv
<1>10. \A n \in DOMAIN icas : deposits'[icas[n].denom].status = "DETOKENIZATION_IN_PROGRESS"
  BY <1>3, <1>6, PacketStatus
<1>11. InFlight(icas, deposits', "DETOKENIZATION_IN_PROGRESS")
  BY <1>10, SamePackets DEF LInv
<1> QED BY Zenon, <1>1, <1>6, <1>9, <1>11 DEF LInv

\* The callback of an ICA, at the head of the channel, removes the record, marks it failed
\* or, after a timeout, leaves it alone.
LEMMA DetokenizeCallbackStep ==
    ASSUME LInv, icas # <<>>, NEW status \in {"success", "failure", "timeout"},
           DetokenizeCallback(Head(icas), status)
    PROVE  LInv'
<1> DEFINE d == Head(icas).denom
           record == AfterDetokenization(Head(icas), status)
<1>1. /\ icas' = Tail(icas) /\ deposits' = [deposits EXCEPT ![d] = record]
      /\ UNCHANGED <<queries, transfers>>
  BY DEF DetokenizeCallback
<1>2. PICK X : icas \in Seq(X)
  BY DEF LInv, InFlight
<1>3. 1 \in DOMAIN icas /\ Head(icas) = icas[1] /\ Tail(icas) = SubSeq(icas, 1 + 1, Len(icas))
  BY <1>2
<1>4. PacketOK(icas[1], deposits, "DETOKENIZATION_IN_PROGRESS")
  BY <1>3 DEF LInv, InFlight
<1>5. d \in Denoms /\ deposits[d].status = "DETOKENIZATION_IN_PROGRESS"
  BY Zenon, <1>3, <1>4 DEF PacketOK
<1>6. "status" \in DOMAIN record /\ record.status # "DEPOSIT_PENDING"
  <2>1. CASE status = "success"
    BY <2>1 DEF AfterDetokenization, NoDeposit
  <2>2. CASE status = "failure"
    BY <1>3, <1>4, <2>2 DEF AfterDetokenization, PacketOK, WithStatusOf
  <2>3. CASE status = "timeout"
    BY <1>5, <2>3 DEF AfterDetokenization, LInv, StoreOK
  <2> QED BY <2>1, <2>2, <2>3
<1> HIDE DEF record
<1>7. /\ StoreOK' /\ QueriesOK'
      /\ \A e \in Denoms \ {d} : deposits'[e] = deposits[e]
  BY <1>1, <1>5, <1>6, RecordOfPacket, Zenon
<1>8. \A n \in DOMAIN icas : n > 1 => icas[n].denom \in Denoms \ {d}
  BY <1>3, PacketStatus DEF LInv, InFlight
<1>9. \A n \in DOMAIN icas : n > 1 =>
         deposits'[icas[n].denom].status = "DETOKENIZATION_IN_PROGRESS"
  BY Zenon, <1>7, <1>8, PacketStatus
<1>10. InFlight(SubSeq(icas, 1 + 1, Len(icas)), deposits', "DETOKENIZATION_IN_PROGRESS")
  <2>1. Picked(SubSeq(icas, 1 + 1, Len(icas)), icas, {n \in DOMAIN icas : n > 1})
    BY Zenon, <1>2, SuffixPicked
  <2> QED BY <1>9, <2>1, PickedInFlight DEF LInv
<1>11. \A n \in DOMAIN transfers : deposits'[transfers[n].denom].status = "TRANSFER_IN_PROGRESS"
  BY <1>5, <1>7, PacketStatus
<1>12. InFlight(transfers, deposits', "TRANSFER_IN_PROGRESS")
  BY <1>11, SamePackets DEF LInv
<1> QED BY <1>1, <1>3, <1>7, <1>10, <1>12, Zenon DEF LInv

\* A channel that closes loses the acknowledgements of the first ICAs.
LEMMA ChannelClosesStep ==
    ASSUME LInv, ChannelCloses
    PROVE  LInv'
<1> DEFINE done == {i \in DOMAIN icas : icas[i].state # "sent"}
           k == Cardinality(done)
<1>1. icas' = SubSeq(icas, k + 1, Len(icas)) /\ UNCHANGED <<deposits, queries, transfers>>
  BY DEF ChannelCloses
<1>2. PICK X : icas \in Seq(X)
  BY DEF LInv, InFlight
<1>3. Len(icas) \in Nat /\ DOMAIN icas = 1 .. Len(icas)
  BY <1>2
<1>4. IsFiniteSet(done)
  <2>1. IsFiniteSet(1 .. Len(icas)) /\ done \subseteq 1 .. Len(icas)
    BY <1>3, FS_Interval
  <2> QED BY <2>1, FS_Subset
<1>5. k \in Nat
  BY Zenon, <1>4, FS_CardinalityType
<1> HIDE DEF k, done
<1>6. InFlight(SubSeq(icas, k + 1, Len(icas)), deposits, "DETOKENIZATION_IN_PROGRESS")
  <2>1. Picked(SubSeq(icas, k + 1, Len(icas)), icas, {n \in DOMAIN icas : n > k})
    BY Zenon, <1>2, <1>5, SuffixPicked
  <2> QED BY Zenon, <2>1, PacketStatus, PickedInFlight DEF LInv
<1> QED BY <1>1, <1>6 DEF LInv, StoreOK, QueriesOK, WithStatus

\* A restored account queues again what was in progress; transfers go on.
LEMMA RestoreStep ==
    ASSUME LInv, RestoreInterchainAccount
    PROVE  LInv'
<1>1. /\ icas' = <<>> /\ UNCHANGED <<queries, transfers>>
      /\ deposits' = [d \in Denoms |-> Restored(deposits[d])]
  BY DEF RestoreInterchainAccount
<1>2. \A d \in Denoms :
         \/ deposits'[d] = deposits[d]
         \/ /\ deposits[d].status = "DETOKENIZATION_IN_PROGRESS"
            /\ deposits'[d].status = "DETOKENIZATION_QUEUE" /\ "status" \in DOMAIN deposits'[d]
  BY <1>1 DEF Restored, WithStatusOf, LInv, StoreOK
<1>3. StoreOK'
  BY Zenon, <1>1, <1>2 DEF LInv, StoreOK
<1>4. QueriesOK'
  BY Zenon, <1>1, <1>2, SameQueries
<1>5. \A n \in DOMAIN transfers : deposits'[transfers[n].denom].status = "TRANSFER_IN_PROGRESS"
  BY <1>2, PacketStatus
<1>6. InFlight(transfers, deposits', "TRANSFER_IN_PROGRESS")
  BY <1>5, SamePackets DEF LInv
<1>7. InFlight(<<>>, deposits', "DETOKENIZATION_IN_PROGRESS")
  BY DEF InFlight
<1> QED BY <1>1, <1>3, <1>4, <1>6, <1>7 DEF LInv

\* Every step preserves the invariant.
LEMMA NextLInv == LInv /\ [Next]_vars => LInv'
<1> SUFFICES ASSUME LInv, [Next]_vars PROVE LInv'
  OBVIOUS
<1>1. ASSUME NEW s \in Stakers, NEW d \in Denoms, NEW a \in StakeAmounts, LSMLiquidStake(s, d, a)
      PROVE  LInv'
  BY Zenon, <1>1, LSMLiquidStakeStep
<1>2. ASSUME NEW s \in Stakers, NEW d \in Denoms, SendTokens(s, d)
      PROVE  LInv'
  BY <1>2, OtherStep DEF SendTokens, icaVars
<1>3. ASSUME NEW v \in Range(ValidatorOf), UpdateValidatorSharesExchRate(v)
      PROVE  LInv'
  BY <1>3, UpdateValidatorSharesExchRateStep
<1>4. ASSUME NEW v \in Range(ValidatorOf), HostSlashes(v) \/ DeleteValidator(v)
      PROVE  LInv'
  BY <1>4, OtherStep DEF HostSlashes, DeleteValidator, icaVars
<1>5. CASE EndBlocker
  BY <1>5, EndBlockerStep DEF EndBlocker
<1>6. CASE Callbacks
  <2>1. CASE DetokenizeAcknowledged
    <3>1. /\ icas # <<>> /\ Head(icas).state # "sent"
          /\ DetokenizeCallback(Head(icas), Head(icas).state)
      BY Zenon, <2>1 DEF DetokenizeAcknowledged
    <3>2. PICK X : icas \in Seq(X)
      BY DEF LInv, InFlight
    <3>3. 1 \in DOMAIN icas /\ Head(icas) = icas[1]
      BY <3>1, <3>2
    <3>4. Head(icas).state \in {"success", "failure"}
      BY Zenon, <3>1, <3>3 DEF LInv, InFlight, PacketOK
    <3> QED BY <3>1, <3>4, DetokenizeCallbackStep
  <2>2. ASSUME NEW i \in DOMAIN transfers, TransferAcknowledged(i)
        PROVE  LInv'
    <3>1. transfers[i].state \in {"success", "failure"}
      BY <2>2 DEF TransferAcknowledged, LInv, InFlight, PacketOK
    <3> QED BY <2>2, <3>1, LSMTransferCallbackStep DEF TransferAcknowledged
  <2>3. ASSUME NEW q \in Queries, ValidatorSharesToTokensRateCallback(q)
        PROVE  LInv'
    BY <2>3, RateCallbackStep
  <2>4. ASSUME NEW v \in Validators, DelegatorSharesCallback(v)
        PROVE  LInv'
    BY <2>4, OtherStep DEF DelegatorSharesCallback, icaVars
  <2> QED BY <1>6, <2>1, <2>2, <2>3, <2>4 DEF Callbacks
<1>7. CASE HostSteps
  BY Zenon, <1>7, HostPacketStep, HostReadsRateStep DEF HostSteps
<1>8. ASSUME NEW q \in Queries, RateQueryTimesOut(q)
      PROVE  LInv'
  BY <1>8, RateQueryTimesOutStep
<1>9. ASSUME NEW i \in DOMAIN transfers, TransferTimedOut(i)
      PROVE  LInv'
  BY <1>9, LSMTransferCallbackStep DEF TransferTimedOut
<1>10. CASE DetokenizeTimedOut
  BY <1>10, DetokenizeCallbackStep DEF DetokenizeTimedOut
<1>11. CASE ChannelCloses \/ RestoreInterchainAccount
  BY <1>11, ChannelClosesStep, RestoreStep
<1>12. CASE HaltHostZone \/ ResumeHostZone
  BY <1>12, OtherStep DEF HaltHostZone, ResumeHostZone, icaVars
<1>13. CASE UNCHANGED vars
  BY Zenon, <1>13, OtherStep DEF vars, icaVars
<1> QED
  BY Zenon, <1>1, <1>2, <1>3, <1>4, <1>5, <1>6, <1>7, <1>8, <1>9, <1>10, <1>11, <1>12,
     <1>13 DEF Next

\* The invariant says that pending stakes and their queries match.
LEMMA LInvMatched == LInv => PendingMatched
<1> SUFFICES ASSUME LInv PROVE PendingMatched
  OBVIOUS
<1>1. ASSUME NEW q \in Queries, queries[q] # NoQuery, queries[q].deposit # NoDeposit
      PROVE  /\ deposits[queries[q].denom] = queries[q].deposit
             /\ queries[q].deposit.status = "DEPOSIT_PENDING"
  BY <1>1 DEF LInv, QueriesOK, QueryOK
<1>2. ASSUME NEW d \in WithStatus("DEPOSIT_PENDING")
      PROVE  Cardinality({q \in Queries : queries[q] # NoQuery /\ queries[q].denom = d}) = 1
  <2>1. PICK q \in Queries : OnlyQuery(queries, d, q)
    BY DEF LInv, QueriesOK
  <2>2. {p \in Queries : queries[p] # NoQuery /\ queries[p].denom = d} = {q}
    BY <2>1 DEF OnlyQuery
  <2> QED BY <2>2, FS_Singleton
<1> QED BY <1>1, <1>2 DEF PendingMatched

\* PendingMatched is an invariant: LSMSlashQueryCallback and the timeout of its query find
\* the record of their own stake, and no DEPOSIT_PENDING record is without its one query.
THEOREM PendingAlwaysMatched == Spec => []PendingMatched
<1>1. Init => LInv
  BY InitLInv
<1>2. LInv /\ [Next]_vars => LInv'
  BY NextLInv
<1>3. LInv => PendingMatched
  BY LInvMatched
<1> QED BY <1>1, <1>2, <1>3, PTL DEF Spec
-----------------------------------------------------------------------------
(* Custody: where the tokens of a deposit are *)

Detokenizing == {"DETOKENIZATION_QUEUE", "DETOKENIZATION_IN_PROGRESS", "DETOKENIZATION_FAILED"}

\* A record has an amount, unless there is none.
RecordOK(deposit) ==
    \/ deposit = NoDeposit
    \/ deposit.status # "NONE" /\ "amount" \in DOMAIN deposit /\ deposit.amount \in Nat \ {0}

\* A packet has the amount of the record, and a response only if it succeeded.
Carried(packets, stored) ==
    \A i \in DOMAIN packets :
       /\ "amount" \in DOMAIN packets[i].deposit
       /\ packets[i].deposit.amount = stored[packets[i].denom].amount
       /\ packets[i].response \in Nat
       /\ packets[i].state # "success" => packets[i].response = 0

Has(d, packets) == \E i \in DOMAIN packets : packets[i].denom = d
Succeeded(d, packets) ==
    \E i \in DOMAIN packets : packets[i].denom = d /\ packets[i].state = "success"

\* Custody of one denom.  Its tokens are redeemed once.
Placed(d) ==
    /\ depositAccount[d] = Held(d, {"TRANSFER_QUEUE", "TRANSFER_FAILED"})
    /\ deposits[d].status = "TRANSFER_IN_PROGRESS" => Has(d, transfers)
    /\ delegationAccount[d] =
         IF \/ deposits[d].status = "TRANSFER_IN_PROGRESS" /\ Succeeded(d, transfers)
            \/ deposits[d].status \in Detokenizing /\ ~Succeeded(d, icas) /\ ~Succeeded(d, lost)
         THEN deposits[d].amount ELSE 0
    /\ Succeeded(d, lost) => deposits[d].status \in Detokenizing /\ ~Succeeded(d, icas)

\* The host executes the ICAs of a channel in order.
Ordered(packets) ==
    \A i, j \in DOMAIN packets :
       i < j /\ packets[j].state # "sent" => packets[i].state # "sent"
AllSent(packets) == \A i \in DOMAIN packets : packets[i].state = "sent"
InOrder == Ordered(icas) /\ (channel # "open" => AllSent(icas))

LostOK ==
    /\ \E X : lost \in Seq(X)
    /\ \A i \in DOMAIN lost : lost[i].response \in Nat
    /\ \A i, j \in DOMAIN lost :
          /\ lost[i].denom = lost[j].denom
          /\ lost[i].state = "success" /\ lost[j].state = "success"
          => i = j

AccountsOK ==
    /\ depositAccount = [d \in Denoms |-> depositAccount[d]]
    /\ delegationAccount = [d \in Denoms |-> delegationAccount[d]]

\* The inductive invariant for Custody.
CustodyInv ==
    /\ AccountsOK
    /\ \A d \in Denoms : RecordOK(deposits[d]) /\ Placed(d)
    /\ Carried(transfers, deposits) /\ Carried(icas, deposits)
    /\ InOrder /\ LostOK

\* A denom that a step does not touch.
Untouched(d) ==
    /\ deposits'[d] = deposits[d]
    /\ depositAccount'[d] = depositAccount[d] /\ delegationAccount'[d] = delegationAccount[d]
    /\ Has(d, transfers') <=> Has(d, transfers)
    /\ Succeeded(d, transfers') <=> Succeeded(d, transfers)
    /\ Succeeded(d, icas') <=> Succeeded(d, icas)
    /\ Succeeded(d, lost') <=> Succeeded(d, lost)

LEMMA UntouchedPlaced ==
    ASSUME NEW d, RecordOK(deposits[d]), Placed(d), Untouched(d)
    PROVE  RecordOK(deposits'[d]) /\ Placed(d)'
BY Zenon DEF Placed, Untouched, Held

\* A step that leaves records, accounts and packets alone.
LEMMA OtherCustody ==
    ASSUME CustodyInv,
           UNCHANGED <<deposits, depositAccount, delegationAccount, transfers, channel, icas, lost>>
    PROVE  CustodyInv'
BY Zenon DEF CustodyInv, AccountsOK, Placed, Held, Carried, InOrder, LostOK

\* What the packets picked say.
Says(t, s, D) ==
    \A d : /\ Has(d, t) <=> \E n \in D : s[n].denom = d
           /\ Succeeded(d, t) <=> \E n \in D : s[n].denom = d /\ s[n].state = "success"

LEMMA PickedHas ==
    ASSUME NEW s, NEW t, NEW D, Picked(t, s, D)
    PROVE  Says(t, s, D)
<1>1. PICK f \in [DOMAIN t -> D] :
         /\ \A n \in DOMAIN t : t[n] = s[f[n]]
         /\ \A e \in D : \E n \in DOMAIN t : f[n] = e
  BY Zenon DEF Picked
<1>2. \A n \in DOMAIN t : f[n] \in D /\ t[n] = s[f[n]]
  BY Zenon, <1>1
<1>3. \A e \in D : \E n \in DOMAIN t : t[n] = s[e]
  BY <1>1
<1>4. \A d : Has(d, t) <=> \E n \in D : s[n].denom = d
  BY <1>2, <1>3 DEF Has
<1>5. \A d : Succeeded(d, t) <=> \E n \in D : s[n].denom = d /\ s[n].state = "success"
  BY <1>2, <1>3 DEF Succeeded
<1> QED BY Zenon, <1>4, <1>5 DEF Says

LEMMA PickedCarried ==
    ASSUME NEW s, NEW t, NEW D, Picked(t, s, D), NEW stored, Carried(s, stored),
           NEW after, \A n \in D : after[s[n].denom].amount = stored[s[n].denom].amount
    PROVE  Carried(t, after)
<1>1. PICK f \in [DOMAIN t -> D] : \A n \in DOMAIN t : t[n] = s[f[n]]
  BY Zenon DEF Picked
<1>2. \A n \in DOMAIN t : f[n] \in D /\ f[n] \in DOMAIN s /\ t[n] = s[f[n]]
  BY Zenon, <1>1 DEF Picked
<1> QED BY <1>2 DEF Carried

\* Packets in flight, seen from a denom.
LEMMA DenomOfPacket ==
    ASSUME LInv, NEW d \in Denoms
    PROVE  /\ Has(d, transfers) => deposits[d].status = "TRANSFER_IN_PROGRESS"
           /\ Has(d, icas) => deposits[d].status = "DETOKENIZATION_IN_PROGRESS"
           /\ Succeeded(d, transfers) => Has(d, transfers)
           /\ Succeeded(d, icas) => Has(d, icas)
BY Zenon, PacketStatus DEF Has, Succeeded

\* A stake gets its record, waits, or is rejected.
LEMMA StakeCustody ==
    ASSUME LInv, CustodyInv, NEW d \in Denoms, NEW record,
           deposits' = [deposits EXCEPT ![d] = record], RecordOK(record),
           deposits[d].status \in {"NONE", "DEPOSIT_PENDING"},
           \/ /\ record.status \in {"NONE", "DEPOSIT_PENDING"}
              /\ depositAccount' = depositAccount
           \/ /\ record.status = "TRANSFER_QUEUE"
              /\ depositAccount' = [depositAccount EXCEPT ![d] = @ + record.amount],
           UNCHANGED <<delegationAccount, transfers, channel, icas, lost>>
    PROVE  CustodyInv'
<1>1. \A e \in Denoms : deposits'[e] = IF e = d THEN record ELSE deposits[e]
  BY DEF LInv, StoreOK
<1>2. AccountsOK'
  BY Zenon DEF CustodyInv, AccountsOK
<1>3. ASSUME NEW e \in Denoms, e # d
      PROVE  RecordOK(deposits'[e]) /\ Placed(e)'
  <2>1. depositAccount'[e] = depositAccount[e]
    BY Zenon, <1>3 DEF CustodyInv, AccountsOK
  <2>2. Untouched(e)
    BY <1>1, <1>3, <2>1 DEF Untouched
  <2> QED BY Zenon, <2>2, UntouchedPlaced DEF CustodyInv
<1>4. Placed(d)'
  <2>1. ~Has(d, transfers) /\ ~Succeeded(d, transfers) /\ ~Succeeded(d, icas)
    BY Zenon, DenomOfPacket
  <2>2. Placed(d)
    BY Zenon DEF CustodyInv
  <2>3. depositAccount[d] = 0 /\ delegationAccount[d] = 0 /\ ~Succeeded(d, lost)
    BY <2>1, <2>2 DEF Placed, Held, Detokenizing
  <2>4. depositAccount'[d] = IF record.status = "TRANSFER_QUEUE" THEN record.amount ELSE 0
    BY <2>3 DEF CustodyInv, AccountsOK, RecordOK, NoDeposit
  <2>5. record.status \notin Detokenizing /\ record.status # "TRANSFER_IN_PROGRESS"
        /\ record.status # "TRANSFER_FAILED"
    BY DEF Detokenizing
  <2>6. deposits'[d] = record
    BY Zenon, <1>1
  <2>7. delegationAccount'[d] = 0 /\ ~Succeeded(d, lost')
    BY Zenon, <2>3
  <2> QED BY <2>4, <2>5, <2>6, <2>7, Zenon DEF Placed, Held
<1>5. Carried(transfers, deposits')
  <2>1. \A n \in DOMAIN transfers :
           deposits'[transfers[n].denom].amount = deposits[transfers[n].denom].amount
    BY <1>1, PacketStatus
  <2>2. Carried(transfers, deposits)
    BY Zenon DEF CustodyInv
  <2> QED BY Zenon, <2>1, <2>2 DEF Carried
<1>6. Carried(icas, deposits')
  <2>1. \A n \in DOMAIN icas :
           deposits'[icas[n].denom].amount = deposits[icas[n].denom].amount
    BY <1>1, PacketStatus
  <2>2. Carried(icas, deposits)
    BY DEF CustodyInv
  <2> QED BY Zenon, <2>1, <2>2 DEF Carried
<1>7. Carried(transfers, deposits)' /\ Carried(icas, deposits)'
  BY Zenon, <1>5, <1>6
<1>8. InOrder' /\ LostOK'
  BY DEF CustodyInv, InOrder, LostOK
<1> QED BY Zenon, <1>1, <1>2, <1>3, <1>4, <1>7, <1>8 DEF CustodyInv

\* Packets sent: the new ones have not been received yet.
LEMMA SentHas ==
    ASSUME NEW X, NEW s \in Seq(X), NEW S \in SUBSET Denoms, NEW d
    PROVE  /\ Has(d, s \o Packets(S)) <=> Has(d, s) \/ d \in S
           /\ Succeeded(d, s \o Packets(S)) <=> Succeeded(d, s)
<1> DEFINE new == Packets(S)
           t == s \o new
<1>1. PICK Y : new \in Seq(Y)
  BY Zenon, PacketsOfSet
<1>2. /\ \A i \in DOMAIN new :
            new[i].denom \in S /\ new[i] = Packet(new[i].denom, deposits[new[i].denom])
      /\ \A e \in S : \E i \in DOMAIN new : new[i].denom = e
  BY PacketsOfSet
<1> HIDE DEF new
<1>3. PICK A : Joined(t, s, new, A)
  BY Zenon, <1>1, ConcatJoined
<1>0. /\ Picked(s, t, A) /\ Picked(new, t, DOMAIN t \ A) /\ A \subseteq DOMAIN t
  BY Zenon, <1>3 DEF Joined, Picked
<1> HIDE DEF t
<1>4. \A i \in DOMAIN new : new[i].state = "sent"
  BY <1>2 DEF Packet
<1>5. (Has(d, new) <=> d \in S) /\ ~Succeeded(d, new)
  BY <1>2, <1>4 DEF Has, Succeeded
<1>6. /\ Has(d, s) <=> \E n \in A : t[n].denom = d
      /\ Succeeded(d, s) <=> \E n \in A : t[n].denom = d /\ t[n].state = "success"
  <2>1. Says(s, t, A)
    BY Zenon, <1>0, PickedHas
  <2> QED BY Zenon, <2>1 DEF Says
<1>7. /\ Has(d, new) <=> \E n \in DOMAIN t \ A : t[n].denom = d
      /\ Succeeded(d, new) <=> \E n \in DOMAIN t \ A : t[n].denom = d /\ t[n].state = "success"
  <2>1. Says(new, t, DOMAIN t \ A)
    BY Zenon, <1>0, PickedHas
  <2> QED BY Zenon, <2>1 DEF Says
<1>9. Has(d, t) <=> Has(d, s) \/ Has(d, new)
  BY Zenon, <1>0, <1>6, <1>7 DEF Has
<1>10. Succeeded(d, t) <=> Succeeded(d, s) \/ Succeeded(d, new)
  BY Zenon, <1>0, <1>6, <1>7 DEF Succeeded
<1> QED BY <1>5, <1>9, <1>10 DEF t, new

\* The records of the packets in s, and of the denoms sent, keep their amounts.
AmountsKept(s, S, after) ==
    /\ \A n \in DOMAIN s : after[s[n].denom].amount = deposits[s[n].denom].amount
    /\ \A d \in S : /\ "amount" \in DOMAIN deposits[d]
                    /\ after[d].amount = deposits[d].amount

LEMMA SentCarried ==
    ASSUME NEW X, NEW s \in Seq(X), NEW S \in SUBSET Denoms, Carried(s, deposits), NEW after,
           AmountsKept(s, S, after)
    PROVE  Carried(s \o Packets(S), after)
<1> DEFINE new == Packets(S)
           t == s \o new
<1>1. PICK Y : new \in Seq(Y)
  BY Zenon, PacketsOfSet
<1>2. \A i \in DOMAIN new :
         new[i].denom \in S /\ new[i] = Packet(new[i].denom, deposits[new[i].denom])
  BY Zenon, PacketsOfSet
<1> HIDE DEF new
<1>3. PICK A : Joined(t, s, new, A)
  BY Zenon, <1>1, ConcatJoined
<1>0. /\ Picked(s, t, A) /\ Picked(new, t, DOMAIN t \ A) /\ A \subseteq DOMAIN t
  BY Zenon, <1>3 DEF Joined, Picked
<1> HIDE DEF t
<1>4. \A e \in A : \E n \in DOMAIN s : t[e] = s[n]
  BY <1>0 DEF Picked
<1>5. \A e \in DOMAIN t \ A : \E n \in DOMAIN new : t[e] = new[n]
  BY <1>0 DEF Picked
<1>6. ASSUME NEW n \in DOMAIN new
      PROVE  /\ "amount" \in DOMAIN new[n].deposit
             /\ new[n].deposit.amount = after[new[n].denom].amount
             /\ new[n].response = 0
  <2>1. /\ "amount" \in DOMAIN deposits[new[n].denom]
        /\ after[new[n].denom].amount = deposits[new[n].denom].amount
    BY Zenon, <1>2 DEF AmountsKept
  <2>2. new[n].deposit = deposits[new[n].denom] /\ new[n].response = 0
    BY <1>2 DEF Packet
  <2> QED BY Zenon, <2>1, <2>2
<1>7. ASSUME NEW n \in DOMAIN s
      PROVE  /\ "amount" \in DOMAIN s[n].deposit
             /\ s[n].deposit.amount = after[s[n].denom].amount
             /\ s[n].response \in Nat /\ s[n].state # "success" => s[n].response = 0
  BY Zenon DEF Carried, AmountsKept
<1>8. Carried(t, after)
  BY <1>4, <1>5, <1>6, <1>7 DEF Carried
<1> QED BY Zenon, <1>8 DEF t, new

LEMMA SentInOrder ==
    ASSUME NEW X, NEW s \in Seq(X), NEW S \in SUBSET Denoms, Ordered(s)
    PROVE  Ordered(s \o Packets(S)) /\ (AllSent(s) => AllSent(s \o Packets(S)))
<1> DEFINE new == Packets(S)
           t == s \o new
<1>1. PICK Y : new \in Seq(Y)
  BY Zenon, PacketsOfSet
<1>2. \A n \in DOMAIN new : new[n].state = "sent"
  BY PacketsOfSet DEF Packet
<1> HIDE DEF new
<1>3. PICK A : Joined(t, s, new, A)
  BY Zenon, <1>1, ConcatJoined
<1>0. /\ Picked(s, t, A) /\ Picked(new, t, DOMAIN t \ A) /\ A \subseteq DOMAIN t
  BY Zenon, <1>3 DEF Joined, Picked
<1> HIDE DEF t
<1>5. \A n \in DOMAIN t \ A : t[n].state = "sent"
  BY <1>0, <1>2 DEF Picked
<1>6. \A n \in A : n \in DOMAIN s /\ t[n] = s[n]
  BY Zenon, <1>3 DEF Joined
<1>7. \A i \in DOMAIN t : \A j \in A : i < j => i \in A
  BY Zenon, <1>3 DEF Joined
<1>8. Ordered(t)
  BY Zenon, <1>5, <1>6, <1>7 DEF Ordered
<1>9. AllSent(s) => AllSent(t)
  BY <1>5, <1>6 DEF AllSent
<1> QED BY Zenon, <1>8, <1>9 DEF t, new

\* A record is written with another status.
Rewritten(d, status) ==
    /\ deposits'[d].status = status /\ deposits'[d].amount = deposits[d].amount
    /\ RecordOK(deposits'[d])

LEMMA StatusRewritten ==
    ASSUME NEW d, NEW deposit, "status" \in DOMAIN deposit, "amount" \in DOMAIN deposit,
           deposit.amount = deposits[d].amount, deposits[d].amount \in Nat \ {0},
           NEW status, status # "NONE", deposits'[d] = WithStatusOf(deposit, status)
    PROVE  Rewritten(d, status)
BY Zenon DEF WithStatusOf, RecordOK, Rewritten

LEMMA RecordPresent ==
    ASSUME LInv, CustodyInv, NEW d \in Denoms, deposits[d].status # "NONE"
    PROVE  /\ "status" \in DOMAIN deposits[d] /\ "amount" \in DOMAIN deposits[d]
           /\ deposits[d].amount \in Nat \ {0}
BY DEF CustodyInv, RecordOK, NoDeposit, LInv, StoreOK

\* The end of a block moves the tokens it sends out of the deposit account.
LEMMA EndBlockerCustody ==
    ASSUME LInv, CustodyInv, NEW S, NEW T, EndBlockerWith(S, T)
    PROVE  CustodyInv'
<1> DEFINE transferred == WithStatus("TRANSFER_QUEUE") \ S
           queued == IF channel = "open" THEN WithStatus("DETOKENIZATION_QUEUE") ELSE {}
           sent == queued \ T
<1>1. /\ S \subseteq WithStatus("TRANSFER_QUEUE")
      /\ transfers' = transfers \o Packets(transferred)
      /\ icas' = icas \o Packets(sent)
      /\ depositAccount' = [d \in Denoms |->
            depositAccount[d] - IF d \in transferred THEN deposits[d].amount ELSE 0]
      /\ deposits' = [d \in Denoms |->
              CASE d \in transferred -> WithStatusOf(deposits[d], "TRANSFER_IN_PROGRESS")
                [] d \in S -> WithStatusOf(deposits[d], "TRANSFER_FAILED")
                [] d \in queued -> DetokenizeLSMDeposit(deposits[d], d \in sent)
                [] OTHER -> deposits[d]]
      /\ UNCHANGED <<delegationAccount, channel, lost>>
  BY DEF EndBlockerWith
<1>2. /\ transferred \in SUBSET Denoms /\ sent \in SUBSET Denoms
      /\ \A d \in transferred \cup S : d \in Denoms /\ deposits[d].status = "TRANSFER_QUEUE"
      /\ \A d \in queued : d \in Denoms /\ deposits[d].status = "DETOKENIZATION_QUEUE"
      /\ sent \subseteq queued /\ transferred \cap S = {} /\ (channel # "open" => sent = {})
  BY <1>1 DEF WithStatus
<1> HIDE DEF transferred, queued, sent
<1>4. /\ \A d \in transferred : deposits'[d] = WithStatusOf(deposits[d], "TRANSFER_IN_PROGRESS")
      /\ \A d \in S : deposits'[d] = WithStatusOf(deposits[d], "TRANSFER_FAILED")
      /\ \A d \in sent : deposits'[d] = WithStatusOf(deposits[d], "DETOKENIZATION_IN_PROGRESS")
      /\ \A d \in Denoms \ (transferred \cup S \cup sent) : deposits'[d] = deposits[d]
  BY Zenon, <1>1, <1>2 DEF DetokenizeLSMDeposit
<1>3. \A d \in Denoms : deposits[d].status # "NONE" =>
         /\ "status" \in DOMAIN deposits[d] /\ "amount" \in DOMAIN deposits[d]
         /\ deposits[d].amount \in Nat \ {0}
  BY RecordPresent
<1>20. /\ \A d \in transferred : Rewritten(d, "TRANSFER_IN_PROGRESS")
       /\ \A d \in S : Rewritten(d, "TRANSFER_FAILED")
       /\ \A d \in sent : Rewritten(d, "DETOKENIZATION_IN_PROGRESS")
  <2>1. ASSUME NEW d \in transferred \cup S \cup sent
        PROVE  /\ "status" \in DOMAIN deposits[d] /\ "amount" \in DOMAIN deposits[d]
               /\ deposits[d].amount \in Nat \ {0}
    BY <1>2, <1>3
  <2>2. ASSUME NEW d \in transferred PROVE Rewritten(d, "TRANSFER_IN_PROGRESS")
    BY Zenon, <1>4, <2>1, StatusRewritten
  <2>3. ASSUME NEW d \in S PROVE Rewritten(d, "TRANSFER_FAILED")
    BY Zenon, <1>4, <2>1, StatusRewritten
  <2>4. ASSUME NEW d \in sent PROVE Rewritten(d, "DETOKENIZATION_IN_PROGRESS")
    BY Zenon, <1>4, <2>1, StatusRewritten
  <2> QED BY <2>2, <2>3, <2>4
<1>5. PICK X : transfers \in Seq(X)
  BY DEF LInv, InFlight
<1>6. PICK Y : icas \in Seq(Y)
  BY DEF LInv, InFlight
<1>7. ASSUME NEW d
      PROVE  /\ Has(d, transfers') <=> Has(d, transfers) \/ d \in transferred
             /\ Succeeded(d, transfers') <=> Succeeded(d, transfers)
             /\ Succeeded(d, icas') <=> Succeeded(d, icas)
             /\ Succeeded(d, lost') <=> Succeeded(d, lost)
  <2>1. /\ Has(d, transfers') <=> Has(d, transfers) \/ d \in transferred
        /\ Succeeded(d, transfers') <=> Succeeded(d, transfers)
    BY Zenon, <1>1, <1>2, <1>5, SentHas
  <2>2. Succeeded(d, icas') <=> Succeeded(d, icas)
    BY <1>1, <1>2, <1>6, SentHas
  <2> QED BY <1>1, <2>1, <2>2
<1>8. \A d \in Denoms : /\ depositAccount[d] \in Int
                        /\ depositAccount'[d] =
                             IF d \in transferred THEN depositAccount[d] - deposits[d].amount
                                                  ELSE depositAccount[d]
  BY <1>1, <1>2, <1>3 DEF CustodyInv, Placed, Held
<1>9. ASSUME NEW d \in transferred
      PROVE  RecordOK(deposits'[d]) /\ Placed(d)'
  <2>1. /\ deposits[d].status = "TRANSFER_QUEUE" /\ Placed(d) /\ d \in Denoms
        /\ deposits[d].amount \in Nat
    BY Zenon, <1>2, <1>3 DEF CustodyInv
  <2>2. /\ RecordOK(deposits'[d]) /\ deposits'[d].status = "TRANSFER_IN_PROGRESS"
        /\ deposits'[d].amount = deposits[d].amount
    BY Zenon, <1>20 DEF Rewritten
  <2>3. ~Succeeded(d, transfers) /\ ~Succeeded(d, icas)
    BY Zenon, <2>1, DenomOfPacket
  <2>4. depositAccount[d] = deposits[d].amount /\ delegationAccount[d] = 0 /\ ~Succeeded(d, lost)
    BY <2>1, <2>3 DEF Placed, Held, Detokenizing
  <2>5. depositAccount'[d] = 0 /\ delegationAccount'[d] = 0
    BY <1>1, <1>8, <2>1, <2>4
  <2> QED BY Zenon, <1>7, <2>2, <2>3, <2>4, <2>5 DEF Placed, Held, Detokenizing
<1>10. ASSUME NEW d \in S \cup sent
       PROVE  RecordOK(deposits'[d]) /\ Placed(d)'
  <2>1. /\ Placed(d) /\ d \in Denoms /\ d \notin transferred
        /\ deposits[d].status = IF d \in S THEN "TRANSFER_QUEUE" ELSE "DETOKENIZATION_QUEUE"
    BY Zenon, <1>2 DEF CustodyInv
  <2>2. /\ RecordOK(deposits'[d]) /\ deposits'[d].amount = deposits[d].amount
        /\ deposits'[d].status =
             IF d \in S THEN "TRANSFER_FAILED" ELSE "DETOKENIZATION_IN_PROGRESS"
    BY <1>20 DEF Rewritten
  <2>3. depositAccount'[d] = depositAccount[d] /\ delegationAccount'[d] = delegationAccount[d]
    BY Zenon, <1>1, <1>8, <2>1
  <2> QED BY Zenon, <1>7, <2>1, <2>2, <2>3 DEF Placed, Held, Detokenizing
<1>11. ASSUME NEW d \in Denoms \ (transferred \cup S \cup sent)
       PROVE  RecordOK(deposits'[d]) /\ Placed(d)'
  <2>1. Untouched(d)
    BY Zenon, <1>1, <1>4, <1>7, <1>8 DEF Untouched
  <2> QED BY <2>1, UntouchedPlaced DEF CustodyInv
<1>12. ASSUME NEW d \in Denoms, deposits[d].status # "NONE"
       PROVE  deposits'[d].amount = deposits[d].amount
  BY Zenon, <1>4, <1>20, <1>12 DEF Rewritten
<1>13. Carried(transfers, deposits)'
  <2>1. \A n \in DOMAIN transfers :
           deposits'[transfers[n].denom].amount = deposits[transfers[n].denom].amount
    BY Zenon, <1>12, PacketStatus
  <2>2. \A d \in transferred : /\ "amount" \in DOMAIN deposits[d]
                               /\ deposits'[d].amount = deposits[d].amount
    BY Zenon, <1>2, <1>3, <1>12
  <2>3. AmountsKept(transfers, transferred, deposits')
    BY Zenon, <2>1, <2>2 DEF AmountsKept
  <2>4. transferred \in SUBSET Denoms /\ Carried(transfers, deposits)
    BY Zenon, <1>2 DEF CustodyInv
  <2>5. Carried(transfers \o Packets(transferred), deposits')
    BY Zenon, <1>5, <2>3, <2>4, SentCarried
  <2> QED BY Zenon, <1>1, <2>5
<1>14. Carried(icas, deposits)'
  <2>1. \A n \in DOMAIN icas :
           deposits'[icas[n].denom].amount = deposits[icas[n].denom].amount
    BY <1>12, PacketStatus
  <2>2. \A d \in sent : /\ "amount" \in DOMAIN deposits[d]
                        /\ deposits'[d].amount = deposits[d].amount
    BY <1>2, <1>3, <1>12
  <2>3. AmountsKept(icas, sent, deposits')
    BY Zenon, <2>1, <2>2 DEF AmountsKept
  <2>4. sent \in SUBSET Denoms /\ Carried(icas, deposits)
    BY Zenon, <1>2 DEF CustodyInv
  <2>5. Carried(icas \o Packets(sent), deposits')
    BY Zenon, <1>6, <2>3, <2>4, SentCarried
  <2> QED BY Zenon, <1>1, <2>5
<1>15. InOrder'
  <2>1. Ordered(icas \o Packets(sent)) /\ (AllSent(icas) => AllSent(icas \o Packets(sent)))
    BY Zenon, <1>2, <1>6, SentInOrder DEF CustodyInv, InOrder
  <2> QED BY Zenon, <1>1, <2>1 DEF CustodyInv, InOrder
<1>16. LostOK'
  BY <1>1 DEF CustodyInv, LostOK
<1>17. AccountsOK'
  BY Zenon, <1>1 DEF CustodyInv, AccountsOK
<1>18. \A d \in Denoms : (RecordOK(deposits[d]) /\ Placed(d))'
  BY <1>9, <1>10, <1>11
<1> QED BY Zenon, <1>13, <1>14, <1>15, <1>16, <1>17, <1>18 DEF CustodyInv

\* The host executes packet i of s, which makes it t.
ExecutedAt(t, s, i, result, response) ==
    /\ DOMAIN t = DOMAIN s /\ \A n \in DOMAIN s \ {i} : t[n] = s[n]
    /\ t[i].denom = s[i].denom /\ t[i].deposit = s[i].deposit
    /\ t[i].state = result /\ t[i].response = response

LEMMA ExecutedPacket ==
    ASSUME NEW s, NEW stored, NEW status, InFlight(s, stored, status), NEW i \in DOMAIN s,
           NEW result, NEW response, NEW t,
           \/ t = [s EXCEPT ![i].state = result] /\ response = s[i].response
           \/ t = [s EXCEPT ![i].state = result, ![i].response = response]
    PROVE  ExecutedAt(t, s, i, result, response)
<1>1. {"state", "response", "denom", "deposit"} \subseteq DOMAIN s[i]
  BY DEF InFlight, PacketOK
<1>2. PICK X : s \in Seq(X)
  BY DEF InFlight
<1>3. DOMAIN t = DOMAIN s /\ \A n \in DOMAIN s \ {i} : t[n] = s[n]
  BY <1>2
<1>4. t[i].denom = s[i].denom /\ t[i].deposit = s[i].deposit
  BY <1>1, <1>2
<1>5. t[i].state = result /\ t[i].response = response
  BY Zenon, <1>1, <1>2
<1> QED BY <1>3, <1>4, <1>5 DEF ExecutedAt

\* The execution of the packet of d says nothing new of the other denoms.
ExecutedSays(t, s, d, result) ==
    /\ ~Succeeded(d, s)
    /\ \A e : /\ Has(e, t) <=> Has(e, s)
              /\ Succeeded(e, t) <=> IF e = d THEN result = "success" ELSE Succeeded(e, s)

LEMMA ExecutedHas ==
    ASSUME NEW s, NEW stored, NEW status, InFlight(s, stored, status), NEW i \in DOMAIN s,
           s[i].state = "sent", NEW result, NEW response, NEW t,
           ExecutedAt(t, s, i, result, response), NEW d, d = s[i].denom
    PROVE  ExecutedSays(t, s, d, result)
<1>1. DOMAIN t = DOMAIN s /\ \A n \in DOMAIN s : t[n].denom = s[n].denom
  BY Zenon DEF ExecutedAt
<1>2. \A e : Has(e, t) <=> Has(e, s)
  BY Zenon, <1>1 DEF Has
<1>3. ~Succeeded(d, s)
  BY Zenon DEF Succeeded, InFlight
<1>4. \A n \in DOMAIN t : t[n].denom = d <=> n = i
  BY Zenon, <1>1 DEF InFlight
<1>5. t[i].state = result /\ \A n \in DOMAIN s \ {i} : t[n] = s[n]
  BY Zenon DEF ExecutedAt
<1>6. Succeeded(d, t) <=> result = "success"
  BY Zenon, <1>1, <1>4, <1>5 DEF Succeeded
<1>7. ASSUME NEW e, e # d
      PROVE  Succeeded(e, t) <=> Succeeded(e, s)
  <2>1. \A n \in DOMAIN t : t[n].denom = e => n \in DOMAIN s \ {i} /\ t[n] = s[n]
    BY Zenon, <1>1, <1>5, <1>7
  <2>2. \A n \in DOMAIN s : s[n].denom = e => n \in DOMAIN t /\ t[n] = s[n]
    BY Zenon, <1>1, <1>5, <1>7
  <2> QED BY Zenon, <2>1, <2>2 DEF Succeeded
<1> QED BY Zenon, <1>2, <1>3, <1>6, <1>7 DEF ExecutedSays

LEMMA ExecutedCarried ==
    ASSUME NEW s, NEW stored, Carried(s, stored), NEW i \in DOMAIN s, NEW result,
           NEW response \in Nat, result # "success" => response = 0, NEW t,
           ExecutedAt(t, s, i, result, response)
    PROVE  Carried(t, stored)
BY DEF Carried, ExecutedAt

\* The host receives a transfer: the tokens are in the delegation account, if it succeeds.
LEMMA HostReceivesTransferCustody ==
    ASSUME LInv, CustodyInv, NEW i \in DOMAIN transfers, HostReceivesTransfer(i)
    PROVE  CustodyInv'
<1> DEFINE packet == transfers[i]
<1>0. PICK d \in Denoms : d = packet.denom
  BY PacketStatus
<1>1. PICK result \in {"success", "failure"} :
         /\ transfers' = [transfers EXCEPT ![i].state = result]
         /\ \/ /\ result = "success"
               /\ delegationAccount' = [delegationAccount EXCEPT ![d] = @ + packet.deposit.amount]
            \/ result = "failure" /\ delegationAccount' = delegationAccount
  BY <1>0 DEF HostReceivesTransfer
<1>2. packet.state = "sent" /\ UNCHANGED <<deposits, depositAccount, channel, icas, lost>>
  BY DEF HostReceivesTransfer, icaVars
<1>3. InFlight(transfers, deposits, "TRANSFER_IN_PROGRESS") /\ Carried(transfers, deposits)
  BY Zenon DEF LInv, CustodyInv
<1>4. ExecutedAt(transfers', transfers, i, result, packet.response)
  BY Zenon, <1>1, <1>3, ExecutedPacket
<1>5. deposits[d].status = "TRANSFER_IN_PROGRESS"
  BY Zenon, <1>0, PacketStatus
<1>6. /\ packet.deposit.amount = deposits[d].amount /\ deposits[d].amount \in Nat
      /\ packet.response = 0
  BY Zenon, <1>0, <1>2, <1>3, <1>5, RecordPresent DEF Carried
<1>20. ExecutedSays(transfers', transfers, d, result)
  BY Zenon, <1>0, <1>2, <1>3, <1>4, ExecutedHas
<1>7. \A e : /\ Has(e, transfers') <=> Has(e, transfers)
             /\ Succeeded(e, transfers') <=>
                   IF e = d THEN result = "success" ELSE Succeeded(e, transfers)
  BY Zenon, <1>20 DEF ExecutedSays
<1>8. ~Succeeded(d, transfers)
  BY Zenon, <1>20 DEF ExecutedSays
<1> HIDE DEF packet
<1>9. ASSUME NEW e \in Denoms, e # d
      PROVE  RecordOK(deposits'[e]) /\ Placed(e)'
  <2>1. delegationAccount'[e] = delegationAccount[e]
    BY Zenon, <1>1, <1>9 DEF CustodyInv, AccountsOK
  <2>2. Untouched(e)
    BY Zenon, <1>2, <1>7, <1>9, <2>1 DEF Untouched
  <2> QED BY <2>2, UntouchedPlaced DEF CustodyInv
<1>10. RecordOK(deposits'[d]) /\ Placed(d)'
  <2>1. RecordOK(deposits[d]) /\ Placed(d)
    BY Zenon, <1>5 DEF CustodyInv
  <2>2. delegationAccount[d] = 0
    BY <1>5, <1>8, <2>1 DEF Placed, Detokenizing
  <2>3. delegationAccount'[d] = IF result = "success" THEN deposits[d].amount ELSE 0
    BY <1>1, <1>5, <1>6, <2>2 DEF CustodyInv, AccountsOK
  <2>4. Succeeded(d, transfers') <=> result = "success"
    BY Zenon, <1>7
  <2>5. Has(d, transfers')
    BY Zenon, <1>5, <1>7, <2>1 DEF Placed
  <2> QED BY Zenon, <1>2, <1>5, <2>1, <2>3, <2>4, <2>5 DEF Placed, Held, Detokenizing
<1>11. Carried(transfers, deposits)'
  <2>1. Carried(transfers', deposits)
    BY <1>3, <1>4, <1>6, ExecutedCarried
  <2> QED BY Zenon, <1>2, <2>1
<1>12. /\ AccountsOK' /\ Carried(icas, deposits)' /\ InOrder' /\ LostOK'
  BY Zenon, <1>1, <1>2 DEF CustodyInv, AccountsOK, Carried, InOrder, LostOK
<1> QED BY Zenon, <1>9, <1>10, <1>11, <1>12 DEF CustodyInv

\* The callback of a transfer: without success the tokens are back in the deposit account.
LEMMA LSMTransferCallbackCustody ==
    ASSUME LInv, CustodyInv, NEW i \in DOMAIN transfers,
           NEW status \in {"success", "failure", "timeout"}, LSMTransferCallback(i, status),
           status = "success" <=> transfers[i].state = "success"
    PROVE  CustodyInv'
<1>1. PICK d \in Denoms : d = transfers[i].denom
  BY Zenon, PacketStatus
<1>2. /\ transfers' = Without(transfers, i)
      /\ deposits' = [deposits EXCEPT ![d] =
            WithStatusOf(transfers[i].deposit, AfterTransfer(status))]
      /\ depositAccount' = [depositAccount EXCEPT ![d] =
            @ + IF status = "success" THEN 0 ELSE transfers[i].deposit.amount]
      /\ UNCHANGED <<delegationAccount, channel, icas, lost>>
  BY <1>1 DEF LSMTransferCallback, icaVars
<1>3. InFlight(transfers, deposits, "TRANSFER_IN_PROGRESS") /\ Carried(transfers, deposits)
  BY Zenon DEF LInv, CustodyInv
<1>4. /\ deposits[d].status = "TRANSFER_IN_PROGRESS" /\ deposits[d].amount \in Nat \ {0}
      /\ "status" \in DOMAIN transfers[i].deposit /\ "amount" \in DOMAIN transfers[i].deposit
      /\ transfers[i].deposit.amount = deposits[d].amount
  BY <1>1, <1>3, RecordPresent DEF Carried, InFlight, PacketOK
<1>5. /\ deposits'[d] = WithStatusOf(transfers[i].deposit, AfterTransfer(status))
      /\ \A e \in Denoms \ {d} : deposits'[e] = deposits[e]
  BY <1>2 DEF LInv, StoreOK
<1>6. AfterTransfer(status) \in
         {"DETOKENIZATION_QUEUE", "TRANSFER_FAILED", "TRANSFER_QUEUE"}
      /\ (status = "success" <=> AfterTransfer(status) = "DETOKENIZATION_QUEUE")
  BY Zenon DEF AfterTransfer
<1>7. Rewritten(d, AfterTransfer(status))
  BY Zenon, <1>4, <1>5, <1>6, StatusRewritten
<1>8. Picked(transfers', transfers, DOMAIN transfers \ {i})
  <2>1. PICK X : transfers \in Seq(X)
    BY Zenon, <1>3 DEF InFlight
  <2> QED BY Zenon, <1>2, <2>1, WithoutPicked
<1>9. ASSUME NEW e
      PROVE  /\ e # d => /\ Has(e, transfers') <=> Has(e, transfers)
                         /\ Succeeded(e, transfers') <=> Succeeded(e, transfers)
             /\ e = d => /\ ~Has(e, transfers')
                         /\ Succeeded(e, transfers) <=> transfers[i].state = "success"
  <2>1. /\ Has(e, transfers') <=> \E n \in DOMAIN transfers \ {i} : transfers[n].denom = e
        /\ Succeeded(e, transfers') <=>
              \E n \in DOMAIN transfers \ {i} :
                 transfers[n].denom = e /\ transfers[n].state = "success"
    <3>1. Says(transfers', transfers, DOMAIN transfers \ {i})
      BY Zenon, <1>8, PickedHas
    <3> QED BY Zenon, <3>1 DEF Says
  <2>2. \A n \in DOMAIN transfers : transfers[n].denom = d <=> n = i
    BY Zenon, <1>1, <1>3 DEF InFlight
  <2>3. CASE e = d
    BY Zenon, <2>1, <2>2, <2>3 DEF Succeeded
  <2>4. CASE e # d
    BY <2>1, <2>2, <2>4 DEF Has, Succeeded
  <2> QED BY Zenon, <2>3, <2>4
<1>10. ASSUME NEW e \in Denoms, e # d
       PROVE  RecordOK(deposits'[e]) /\ Placed(e)'
  <2>1. depositAccount'[e] = depositAccount[e]
    BY Zenon, <1>2, <1>10 DEF CustodyInv, AccountsOK
  <2>2. Untouched(e)
    BY Zenon, <1>2, <1>5, <1>9, <1>10, <2>1 DEF Untouched
  <2> QED BY Zenon, <2>2, UntouchedPlaced DEF CustodyInv
<1>11. RecordOK(deposits'[d]) /\ Placed(d)'
  <2>1. Placed(d)
    BY Zenon DEF CustodyInv
  <2>2. ~Succeeded(d, icas)
    BY Zenon, <1>4, DenomOfPacket
  <2>3. /\ depositAccount[d] = 0 /\ ~Succeeded(d, lost)
        /\ delegationAccount[d] = IF status = "success" THEN deposits[d].amount ELSE 0
    BY Zenon, <1>4, <1>9, <2>1 DEF Placed, Held, Detokenizing
  <2>4. depositAccount'[d] = IF status = "success" THEN 0 ELSE deposits[d].amount
    BY <1>2, <1>4, <2>3 DEF CustodyInv, AccountsOK
  <2>5. /\ deposits'[d].status = AfterTransfer(status)
        /\ deposits'[d].amount = deposits[d].amount /\ RecordOK(deposits'[d])
    BY Zenon, <1>7 DEF Rewritten
  <2>6. /\ delegationAccount'[d] = delegationAccount[d]
        /\ ~Succeeded(d, icas') /\ ~Succeeded(d, lost')
    BY Zenon, <1>2, <2>2, <2>3
  <2> QED BY Zenon, <1>6, <2>3, <2>4, <2>5, <2>6 DEF Placed, Held, Detokenizing
<1>12. Carried(transfers, deposits)'
  <2>1. \A n \in DOMAIN transfers \ {i} :
           deposits'[transfers[n].denom].amount = deposits[transfers[n].denom].amount
    BY Zenon, <1>1, <1>3, <1>5, PacketStatus DEF InFlight
  <2> QED BY <1>3, <1>8, <2>1, PickedCarried
<1>13. Carried(icas, deposits)'
  <2>1. \A n \in DOMAIN icas :
           deposits'[icas[n].denom].amount = deposits[icas[n].denom].amount
    BY Zenon, <1>4, <1>5, PacketStatus
  <2> QED BY Zenon, <1>2, <2>1 DEF CustodyInv, Carried
<1>14. AccountsOK' /\ InOrder' /\ LostOK'
  BY Zenon, <1>2 DEF CustodyInv, AccountsOK, InOrder, LostOK
<1> QED BY <1>10, <1>11, <1>12, <1>13, <1>14 DEF CustodyInv

\* What the host stakes for an amount is a natural number.
LEMMA TokensNat ==
    ASSUME NEW a \in Nat, NEW rate \in Nat
    PROVE  TruncateInt(Mul(NewDecFromInt(a), rate)) \in Nat
<1>1. PICK P \in Nat \ {0} : P = Precision
  BY PrecisionAssumption
<1>2. PICK n \in Nat : n = (a * P) * rate
  OBVIOUS
<1>3. n \div P \in Nat /\ (n \div P) + 1 \in Nat
  OBVIOUS
<1>4. PICK m \in Nat : m = RoundHalfEven(n, P)
  BY <1>3 DEF RoundHalfEven
<1>5. m \div P \in Nat
  OBVIOUS
<1>6. TruncateInt(Mul(NewDecFromInt(a), rate)) = m \div P
  BY Zenon, <1>1, <1>2, <1>4 DEF TruncateInt, Mul, NewDecFromInt
<1> QED BY <1>5, <1>6

\* The host redeems the tokens of a deposit once.
LEMMA HostExecutesCustody ==
    ASSUME LInv, CustodyInv, hostRate \in [Validators -> Nat],
           NEW i \in DOMAIN icas, HostExecutesDetokenization(i)
    PROVE  CustodyInv'
<1>1. PICK d \in Denoms : d = icas[i].denom
  BY PacketStatus
<1> DEFINE amount == icas[i].deposit.amount
           tokens == TruncateInt(Mul(NewDecFromInt(amount), hostRate[ValidatorOf[d]]))
<1>2. /\ channel = "open" /\ icas[i].state = "sent"
      /\ \A j \in 1..(i - 1) : icas[j].state # "sent"
      /\ UNCHANGED <<deposits, depositAccount, transfers, channel, lost>>
  BY Zenon DEF HostExecutesDetokenization
<1>3. \/ /\ delegationAccount[d] >= amount
         /\ icas' = [icas EXCEPT ![i].state = "success", ![i].response = tokens]
         /\ delegationAccount' = [delegationAccount EXCEPT ![d] = @ - amount]
      \/ /\ icas' = [icas EXCEPT ![i].state = "failure"]
         /\ delegationAccount' = delegationAccount
  BY <1>1, Zenon DEF HostExecutesDetokenization
<1>4. InFlight(icas, deposits, "DETOKENIZATION_IN_PROGRESS") /\ Carried(icas, deposits)
  BY Zenon DEF LInv, CustodyInv
<1>5. /\ deposits[d].status = "DETOKENIZATION_IN_PROGRESS" /\ deposits[d].amount \in Nat \ {0}
      /\ amount = deposits[d].amount /\ icas[i].response = 0
  BY Zenon, <1>1, <1>2, <1>4, RecordPresent, PacketStatus DEF Carried
<1>6. tokens \in Nat
  <2>1. ValidatorOf[d] \in Validators
    BY LSMAssumptions
  <2>2. hostRate[ValidatorOf[d]] \in Nat /\ amount \in Nat
    BY <1>5, <2>1
  <2> QED BY Zenon, <2>2, TokensNat
<1> HIDE DEF tokens, amount
<1>7. PICK result \in {"success", "failure"}, response \in Nat :
         /\ ExecutedAt(icas', icas, i, result, response)
         /\ result # "success" => response = 0
         /\ \/ /\ result = "success" /\ delegationAccount[d] >= amount
               /\ delegationAccount' = [delegationAccount EXCEPT ![d] = @ - amount]
            \/ result = "failure" /\ delegationAccount' = delegationAccount
  <2>1. CASE /\ delegationAccount[d] >= amount
             /\ icas' = [icas EXCEPT ![i].state = "success", ![i].response = tokens]
             /\ delegationAccount' = [delegationAccount EXCEPT ![d] = @ - amount]
    <3>1. ExecutedAt(icas', icas, i, "success", tokens)
      BY <1>4, <2>1, ExecutedPacket, Zenon
    <3> QED BY Zenon, <1>6, <2>1, <3>1
  <2>2. CASE /\ icas' = [icas EXCEPT ![i].state = "failure"]
             /\ delegationAccount' = delegationAccount
    <3>1. ExecutedAt(icas', icas, i, "failure", 0)
      BY <1>4, <1>5, <2>2, ExecutedPacket, Zenon
    <3> QED BY <2>2, <3>1
  <2> QED BY <1>3, <2>1, <2>2
<1>15. ExecutedSays(icas', icas, d, result)
  BY Zenon, <1>1, <1>2, <1>4, <1>7, ExecutedHas
<1>8. \A e : Succeeded(e, icas') <=> IF e = d THEN result = "success" ELSE Succeeded(e, icas)
  BY Zenon, <1>15 DEF ExecutedSays
<1>9. ~Succeeded(d, icas)
  BY Zenon, <1>15 DEF ExecutedSays
<1>10. ASSUME NEW e \in Denoms, e # d
       PROVE  RecordOK(deposits'[e]) /\ Placed(e)'
  <2>1. delegationAccount'[e] = delegationAccount[e]
    BY Zenon, <1>7, <1>10 DEF CustodyInv, AccountsOK
  <2>2. Untouched(e)
    BY Zenon, <1>2, <1>8, <1>10, <2>1 DEF Untouched
  <2> QED BY Zenon, <2>2, UntouchedPlaced DEF CustodyInv
<1>11. RecordOK(deposits'[d]) /\ Placed(d)'
  <2>1. RecordOK(deposits[d]) /\ Placed(d)
    BY Zenon DEF CustodyInv
  <2>2. CASE result = "success"
    <3>4. deposits[d].status \in Detokenizing /\ deposits[d].status # "TRANSFER_IN_PROGRESS"
      BY Zenon, <1>5 DEF Detokenizing
    <3>5. delegationAccount[d] = IF ~Succeeded(d, lost) THEN deposits[d].amount ELSE 0
      BY Zenon, <1>9, <2>1, <3>4 DEF Placed
    <3>6. delegationAccount[d] # 0
      BY <1>5, <1>7, <2>2
    <3>1. ~Succeeded(d, lost) /\ delegationAccount[d] = deposits[d].amount
      BY Zenon, <3>5, <3>6
    <3>2. delegationAccount'[d] = 0
      BY <1>5, <1>7, <2>2, <3>1 DEF CustodyInv, AccountsOK
    <3>3. Succeeded(d, icas') /\ ~Succeeded(d, lost')
      BY <1>2, <1>8, <2>2, <3>1
    <3>7. depositAccount[d] = 0
      BY Zenon, <1>5, <2>1 DEF Placed, Held
    <3> QED BY Zenon, <1>2, <1>5, <2>1, <3>2, <3>3, <3>4, <3>7 DEF Placed, Held
  <2>3. CASE result = "failure"
    <3>1. ~Succeeded(d, icas') /\ delegationAccount'[d] = delegationAccount[d]
      BY Zenon, <1>7, <1>8, <2>3
    <3> QED BY Zenon, <1>2, <1>5, <1>9, <2>1, <3>1 DEF Placed, Held, Detokenizing
  <2> QED BY <2>2, <2>3
<1>12. Carried(icas, deposits)'
  <2>1. Carried(icas', deposits)
    BY Zenon, <1>4, <1>7, ExecutedCarried
  <2> QED BY Zenon, <1>2, <2>1
<1>13. InOrder'
  <2>1. PICK X : icas \in Seq(X)
    BY Zenon, <1>4 DEF InFlight
  <2>2. \A n \in DOMAIN icas : n < i => icas[n].state # "sent"
    BY <1>2, <2>1
  <2>3. Ordered(icas')
    BY Zenon, <1>7, <2>2 DEF CustodyInv, InOrder, Ordered, ExecutedAt
  <2> QED BY <1>2, <2>3 DEF InOrder
<1>14. AccountsOK' /\ Carried(transfers, deposits)' /\ LostOK'
  BY Zenon, <1>2, <1>7 DEF CustodyInv, AccountsOK, Carried, LostOK
<1> QED BY Zenon, <1>10, <1>11, <1>12, <1>13, <1>14 DEF CustodyInv

\* What is left of the channel after its first packets.
LEMMA SuffixOrdered ==
    ASSUME NEW s, NEW t, NEW k \in Nat, DOMAIN s \subseteq Nat,
           \A n \in DOMAIN t : n \in Nat /\ n + k \in DOMAIN s /\ t[n] = s[n + k]
    PROVE  (Ordered(s) => Ordered(t)) /\ (AllSent(s) => AllSent(t))
BY DEF Ordered, AllSent

\* The callback of an ICA at the head of the channel.
LEMMA DetokenizeCallbackCustody ==
    ASSUME LInv, CustodyInv, icas # <<>>, NEW status, DetokenizeCallback(Head(icas), status),
           \/ status = Head(icas).state /\ Head(icas).state # "sent" /\ channel' = channel
           \/ status = "timeout" /\ Head(icas).state = "sent"
    PROVE  CustodyInv'
<1>1. PICK X : icas \in Seq(X)
  BY DEF LInv, InFlight
<1>2. 1 \in DOMAIN icas /\ Head(icas) = icas[1] /\ Tail(icas) = SubSeq(icas, 1 + 1, Len(icas))
  BY <1>1
<1>3. PICK d \in Denoms : d = icas[1].denom
  BY <1>2, PacketStatus
<1>4. /\ icas' = SubSeq(icas, 1 + 1, Len(icas))
      /\ deposits' = [deposits EXCEPT ![d] = AfterDetokenization(icas[1], status)]
      /\ UNCHANGED <<depositAccount, delegationAccount, transfers, lost>>
  BY <1>2, <1>3, Zenon DEF DetokenizeCallback, tokenVars
<1>5. InFlight(icas, deposits, "DETOKENIZATION_IN_PROGRESS") /\ Carried(icas, deposits)
  BY Zenon DEF LInv, CustodyInv
<1>6. /\ deposits[d].status = "DETOKENIZATION_IN_PROGRESS" /\ deposits[d].amount \in Nat \ {0}
      /\ "status" \in DOMAIN icas[1].deposit /\ "amount" \in DOMAIN icas[1].deposit
      /\ icas[1].deposit.amount = deposits[d].amount
      /\ icas[1].state \in {"sent", "success", "failure"}
  BY <1>2, <1>3, <1>5, RecordPresent DEF Carried, InFlight, PacketOK
<1>7. /\ deposits'[d] = AfterDetokenization(icas[1], status)
      /\ \A e \in Denoms \ {d} : deposits'[e] = deposits[e]
  BY <1>4 DEF LInv, StoreOK
<1>8. /\ Picked(icas', icas, {n \in DOMAIN icas : n > 1})
      /\ \A n \in DOMAIN icas' : n \in Nat /\ n + 1 \in DOMAIN icas /\ icas'[n] = icas[n + 1]
  <2>1. 1 \in Nat
    OBVIOUS
  <2> QED BY Zenon, <1>1, <1>4, <2>1, SuffixPicked
<1>9. DOMAIN icas \subseteq Nat \ {0}
  BY <1>1
<1>10. ASSUME NEW e
       PROVE  /\ e # d => (Succeeded(e, icas') <=> Succeeded(e, icas))
              /\ e = d => /\ ~Succeeded(e, icas')
                          /\ Succeeded(e, icas) <=> icas[1].state = "success"
  <2>1. Succeeded(e, icas') <=>
           \E n \in {n \in DOMAIN icas : n > 1} : icas[n].denom = e /\ icas[n].state = "success"
    <3>1. Says(icas', icas, {n \in DOMAIN icas : n > 1})
      BY Zenon, <1>8, PickedHas
    <3> QED BY Zenon, <3>1 DEF Says
  <2>2. \A n \in DOMAIN icas : icas[n].denom = d <=> n = 1
    BY <1>2, <1>3, <1>5 DEF InFlight
  <2>3. \A n \in DOMAIN icas : n > 1 <=> n # 1
    BY <1>9
  <2>4. CASE e = d
    BY Zenon, <1>2, <2>1, <2>2, <2>3, <2>4 DEF Succeeded
  <2>5. CASE e # d
    BY <2>1, <2>2, <2>3, <2>5 DEF Succeeded
  <2> QED BY <2>4, <2>5
<1>11. ASSUME NEW e \in Denoms, e # d
       PROVE  RecordOK(deposits'[e]) /\ Placed(e)'
  <2>1. Untouched(e)
    BY Zenon, <1>4, <1>7, <1>10, <1>11 DEF Untouched
  <2> QED BY Zenon, <2>1, UntouchedPlaced DEF CustodyInv
<1>12. RecordOK(deposits'[d]) /\ Placed(d)'
  <2>1. RecordOK(deposits[d]) /\ Placed(d) /\ ~Succeeded(d, icas')
    BY Zenon, <1>10 DEF CustodyInv
  <2>2. CASE status = "success"
    <3>6. Succeeded(d, icas) /\ deposits[d].status # "TRANSFER_IN_PROGRESS"
      BY Zenon, <1>2, <1>6, <1>10, <2>2
    <3>1. delegationAccount[d] = 0 /\ ~Succeeded(d, lost)
      BY Zenon, <2>1, <3>6 DEF Placed
    <3>2. deposits'[d] = NoDeposit
      BY <1>7, <2>2 DEF AfterDetokenization
    <3>3. depositAccount[d] = 0
      BY Zenon, <1>6, <2>1 DEF Placed, Held
    <3>4. deposits'[d].status = "NONE" /\ RecordOK(deposits'[d])
      <4>1. NoDeposit.status = "NONE"
        BY DEF NoDeposit
      <4> QED BY Zenon, <3>2, <4>1 DEF RecordOK
    <3>5. /\ depositAccount'[d] = 0 /\ delegationAccount'[d] = 0
          /\ ~Succeeded(d, lost')
      BY Zenon, <1>4, <3>1, <3>3
    <3> QED BY Zenon, <2>1, <3>4, <3>5 DEF Placed, Held, Detokenizing
  <2>3. CASE status = "failure"
    <3>1. ~Succeeded(d, icas)
      BY <1>2, <1>10, <2>3
    <3>2. Rewritten(d, "DETOKENIZATION_FAILED")
      BY Zenon, <1>6, <1>7, <2>3, StatusRewritten DEF AfterDetokenization
    <3> QED BY Zenon, <1>4, <1>6, <2>1, <3>1, <3>2 DEF Placed, Held, Detokenizing, Rewritten
  <2>4. CASE status = "timeout"
    <3>1. ~Succeeded(d, icas)
      BY Zenon, <1>2, <1>6, <1>10, <2>4
    <3>2. deposits'[d] = deposits[d]
      BY Zenon, <1>3, <1>7, <2>4 DEF AfterDetokenization
    <3> QED BY Zenon, <1>4, <1>6, <2>1, <3>1, <3>2 DEF Placed, Held, Detokenizing
  <2> QED BY <1>2, <1>6, <2>2, <2>3, <2>4
<1>13. Carried(icas, deposits)'
  <2>1. \A n \in {n \in DOMAIN icas : n > 1} :
           deposits'[icas[n].denom].amount = deposits[icas[n].denom].amount
    <3>1. \A n \in DOMAIN icas : n > 1 => n # 1
      BY <1>9
    <3>2. \A n \in DOMAIN icas : icas[n].denom \in Denoms
      BY Zenon, PacketStatus
    <3>3. \A n \in DOMAIN icas : n # 1 => icas[n].denom # d
      BY Zenon, <1>2, <1>3, <1>5 DEF InFlight
    <3>4. ASSUME NEW n \in DOMAIN icas, n > 1
          PROVE  deposits'[icas[n].denom] = deposits[icas[n].denom]
      BY Zenon, <1>7, <3>1, <3>2, <3>3, <3>4
    <3> QED BY Zenon, <3>4
  <2> QED BY <1>5, <1>8, <2>1, PickedCarried
<1>14. Carried(transfers, deposits)'
  <2>1. \A n \in DOMAIN transfers :
           deposits'[transfers[n].denom].amount = deposits[transfers[n].denom].amount
    BY Zenon, <1>6, <1>7, PacketStatus
  <2> QED BY Zenon, <1>4, <2>1 DEF CustodyInv, Carried
<1>15. InOrder'
  <2>1. (Ordered(icas) => Ordered(icas')) /\ (AllSent(icas) => AllSent(icas'))
    BY Zenon, <1>8, <1>9, SuffixOrdered
  <2>2. Head(icas).state = "sent" => AllSent(icas)
    BY <1>2, <1>9 DEF CustodyInv, InOrder, Ordered, AllSent
  <2> QED BY Zenon, <2>1, <2>2 DEF CustodyInv, InOrder
<1>16. AccountsOK' /\ LostOK'
  BY Zenon, <1>4 DEF CustodyInv, AccountsOK, LostOK
<1> QED BY <1>11, <1>12, <1>13, <1>14, <1>15, <1>16 DEF CustodyInv

\* The ICAs the host executed are the first ones, as many as there are.
LEMMA ExecutedFirst ==
    ASSUME NEW X, NEW s \in Seq(X), Ordered(s),
           NEW k, k = Cardinality({n \in DOMAIN s : s[n].state # "sent"})
    PROVE  k \in 0 .. Len(s) /\ \A n \in DOMAIN s : s[n].state # "sent" <=> ~(n > k)
<1> DEFINE done == {n \in DOMAIN s : s[n].state # "sent"}
           L == Len(s)
           R == OpToRel(<, Nat)
           later == {n \in 1 .. L + 1 : n \notin done}
<1>1. L \in Nat /\ DOMAIN s = 1 .. L
  OBVIOUS
<1>2. L + 1 \in later /\ later \subseteq Nat
  BY <1>1
<1> HIDE DEF later
<1>3. PICK m \in later : \A n \in later : ~(n < m)
  <2>1. PICK m \in later : \A n \in later : ~(<<n, m>> \in R)
    BY Zenon, <1>2, NatLessThanWellFounded, WFMin
  <2>2. \A n \in later : n < m => <<n, m>> \in R
    BY Zenon, <1>2 DEF OpToRel
  <2> QED BY <2>1, <2>2
<1> USE DEF later
<1>4. m \in 1 .. L + 1 /\ m \notin done
  BY <1>3
<1>5. \A n \in 1 .. m - 1 : n \in done
  BY <1>1, <1>3, <1>4
<1>6. \A n \in DOMAIN s : n > m => n \notin done
  BY <1>1, <1>4 DEF Ordered
<1>7. PICK e \in Int : e = m - 1 /\ e >= 0
  BY <1>1, <1>4
<1>8. done = 1 .. e
  BY <1>1, <1>4, <1>5, <1>6, <1>7
<1>9. k = e
  <2>1. Cardinality(1 .. e) = IF 1 > e THEN 0 ELSE e - 1 + 1
    BY FS_Interval
  <2>2. Cardinality(1 .. e) = e
    BY <1>7, <2>1
  <2> QED BY Zenon, <1>8, <2>2
<1>10. k \in 0 .. L
  BY <1>1, <1>4, <1>7, <1>9
<1>11. ASSUME NEW n \in DOMAIN s
       PROVE  s[n].state # "sent" <=> ~(n > k)
  <2>1. s[n].state # "sent" <=> n \in 1 .. e
    BY Zenon, <1>8
  <2>2. n \in 1 .. e <=> ~(n > e)
    BY <1>1, <1>7
  <2> QED BY <1>9, <2>1, <2>2, Zenon
<1> QED BY Zenon, <1>10, <1>11

\* A channel that closes: what the host has redeemed stays redeemed, acknowledged or not.
LEMMA ChannelClosesCustody ==
    ASSUME LInv, CustodyInv, ChannelCloses
    PROVE  CustodyInv'
<1>1. PICK k : k = Cardinality({n \in DOMAIN icas : icas[n].state # "sent"})
  BY Zenon
<1>2. PICK X : icas \in Seq(X)
  BY Zenon DEF LInv, InFlight
<1>3. k \in 0 .. Len(icas) /\ \A n \in DOMAIN icas : icas[n].state # "sent" <=> ~(n > k)
  BY Zenon, <1>1, <1>2, ExecutedFirst DEF CustodyInv, InOrder
<1>4. /\ icas' = SubSeq(icas, k + 1, Len(icas)) /\ lost' = lost \o SubSeq(icas, 1, k)
      /\ channel' = "closed"
      /\ UNCHANGED <<deposits, depositAccount, delegationAccount, transfers>>
  BY Zenon, <1>1 DEF ChannelCloses, tokenVars
<1> DEFINE first == SubSeq(icas, 1, k)
           A == {n \in DOMAIN icas : ~(n > k)}
           B == {n \in DOMAIN icas : n > k}
<1>5. /\ Picked(icas', icas, B)
      /\ \A n \in DOMAIN icas' : n \in Nat /\ n + k \in DOMAIN icas /\ icas'[n] = icas[n + k]
  <2>1. k \in Nat
    BY <1>2, <1>3
  <2> QED BY Zenon, <1>2, <1>4, <2>1, SuffixPicked
<1>6. Picked(first, icas, A)
  BY Zenon, <1>2, <1>3, PrefixPicked
<1>7. InFlight(icas, deposits, "DETOKENIZATION_IN_PROGRESS") /\ Carried(icas, deposits)
  BY Zenon DEF LInv, CustodyInv
<1> HIDE DEF first, A, B
<1>8. PICK P : lost' = lost \o first /\ Joined(lost', lost, first, P)
  <2>1. \E Y : first \in Seq(Y)
    BY <1>6 DEF Picked
  <2>2. \E Y : lost \in Seq(Y)
    BY DEF CustodyInv, LostOK
  <2> QED BY Zenon, <1>4, <2>1, <2>2, ConcatJoined DEF first
<1>9. \A n \in A : n \in DOMAIN icas /\ icas[n].state # "sent"
  BY Zenon, <1>3 DEF A
<1>10. \A n \in B : n \in DOMAIN icas /\ icas[n].state = "sent"
  BY <1>3 DEF B
<1>11. ASSUME NEW d
       PROVE  /\ ~Succeeded(d, icas')
              /\ Succeeded(d, lost') <=> Succeeded(d, lost) \/ Succeeded(d, icas)
  <2>1. Succeeded(d, icas') <=> \E n \in B : icas[n].denom = d /\ icas[n].state = "success"
    <3>1. Says(icas', icas, B)
      BY Zenon, <1>5, PickedHas
    <3> QED BY Zenon, <3>1 DEF Says
  <2>2. Succeeded(d, first) <=> \E n \in A : icas[n].denom = d /\ icas[n].state = "success"
    <3>1. Says(first, icas, A)
      BY Zenon, <1>6, PickedHas
    <3> QED BY Zenon, <3>1 DEF Says
  <2>3. Succeeded(d, first) <=> Succeeded(d, icas)
    BY Zenon, <1>9, <1>10, <2>2 DEF Succeeded, A, B
  <2>4. Picked(lost, lost', P) /\ Picked(first, lost', DOMAIN lost' \ P) /\ P \subseteq DOMAIN lost'
    BY Zenon, <1>8 DEF Joined, Picked
  <2>5. Succeeded(d, lost) <=> \E n \in P : lost'[n].denom = d /\ lost'[n].state = "success"
    <3>1. Says(lost, lost', P)
      BY Zenon, <2>4, PickedHas
    <3> QED BY Zenon, <3>1 DEF Says
  <2>6. Succeeded(d, first) <=>
           \E n \in DOMAIN lost' \ P : lost'[n].denom = d /\ lost'[n].state = "success"
    <3>1. Says(first, lost', DOMAIN lost' \ P)
      BY Zenon, <2>4, PickedHas
    <3> QED BY Zenon, <3>1 DEF Says
  <2>7. Succeeded(d, lost') <=> Succeeded(d, lost) \/ Succeeded(d, first)
    BY <2>4, <2>5, <2>6 DEF Succeeded
  <2> QED BY Zenon, <1>10, <2>1, <2>3, <2>7
<1>12. ASSUME NEW d \in Denoms
       PROVE  RecordOK(deposits'[d]) /\ Placed(d)'
  <2>1. RecordOK(deposits[d]) /\ Placed(d)
    BY Zenon DEF CustodyInv
  <2>2. Succeeded(d, icas) => deposits[d].status = "DETOKENIZATION_IN_PROGRESS"
    BY Zenon, DenomOfPacket
  <2> QED BY Zenon, <1>4, <1>11, <2>1, <2>2 DEF Placed, Held, Detokenizing
<1>13. Carried(icas, deposits)' /\ Carried(transfers, deposits)'
  <2>1. Carried(icas', deposits)
    BY Zenon, <1>5, <1>7, PickedCarried
  <2> QED BY Zenon, <1>4, <2>1 DEF CustodyInv, Carried
<1>14. InOrder'
  <2>1. AllSent(icas')
    BY <1>5, <1>10 DEF Picked, AllSent
  <2> QED BY Zenon, <2>1 DEF InOrder, Ordered, AllSent
<1>15. LostOK'
  <2>1. PICK f : Located(f, lost, lost', P)
    BY Zenon, <1>8, PickedLocated DEF Joined
  <2>2. PICK g : Located(g, first, lost', DOMAIN lost' \ P)
    BY Zenon, <1>8, PickedLocated DEF Joined
  <2>3. PICK h : Located(h, first, icas, A)
    BY Zenon, <1>6, PickedLocated
  <2>4. \A e \in P : \E n \in DOMAIN lost : f[n] = e /\ lost'[e] = lost[n]
    BY Zenon, <2>1 DEF Located
  <2>8. \A n \in DOMAIN first : h[n] \in DOMAIN icas /\ first[n] = icas[h[n]]
    BY Zenon, <1>9, <2>3 DEF Located
  <2>5. ASSUME NEW e \in DOMAIN lost' \ P
        PROVE  \E n \in DOMAIN first :
                  g[n] = e /\ lost'[e] = icas[h[n]] /\ h[n] \in DOMAIN icas
    <3>1. PICK n \in DOMAIN first : g[n] = e /\ lost'[e] = first[n]
      BY Zenon, <2>2 DEF Located
    <3>2. h[n] \in DOMAIN icas /\ first[n] = icas[h[n]]
      BY Zenon, <2>8
    <3>3. lost'[e] = icas[h[n]]
      BY Zenon, <3>1, <3>2
    <3> QED BY Zenon, <3>1, <3>2, <3>3
  <2>6. \A e \in DOMAIN lost' : lost'[e].response \in Nat
    <3>1. \A n \in DOMAIN lost : lost[n].response \in Nat
      BY Zenon DEF CustodyInv, LostOK
    <3>2. \A n \in DOMAIN icas : icas[n].response \in Nat
      BY Zenon, <1>7 DEF Carried
    <3>3. \A e \in P : lost'[e].response \in Nat
      BY Zenon, <2>4, <3>1
    <3>4. \A e \in DOMAIN lost' \ P : lost'[e].response \in Nat
      BY Zenon, <2>5, <3>2
    <3> QED BY Zenon, <3>3, <3>4
  <2>7. ASSUME NEW i \in DOMAIN lost', NEW j \in DOMAIN lost', lost'[i].denom = lost'[j].denom,
               lost'[i].state = "success", lost'[j].state = "success"
        PROVE  i = j
    <3>1. CASE i \in P /\ j \in P
      <4>1. PICK m \in DOMAIN lost : f[m] = i /\ lost'[i] = lost[m]
        BY Zenon, <2>4, <3>1
      <4>2. PICK n \in DOMAIN lost : f[n] = j /\ lost'[j] = lost[n]
        BY Zenon, <2>4, <3>1
      <4>3. m = n
        BY Zenon, <2>7, <4>1, <4>2 DEF CustodyInv, LostOK
      <4> QED BY Zenon, <4>1, <4>2, <4>3
    <3>2. CASE i \notin P /\ j \notin P
      <4>1. PICK m \in DOMAIN first :
               g[m] = i /\ lost'[i] = icas[h[m]] /\ h[m] \in DOMAIN icas
        BY Zenon, <2>5, <3>2
      <4>2. PICK n \in DOMAIN first :
               g[n] = j /\ lost'[j] = icas[h[n]] /\ h[n] \in DOMAIN icas
        BY Zenon, <2>5, <3>2
      <4>3. h[m] = h[n]
        BY Zenon, <1>7, <2>7, <4>1, <4>2 DEF InFlight
      <4>4. m = n
        BY Zenon, <2>3, <4>3 DEF Located
      <4> QED BY Zenon, <4>1, <4>2, <4>4
    <3>3. ASSUME NEW m \in P, NEW n \in DOMAIN lost' \ P, lost'[m].denom = lost'[n].denom,
                 lost'[m].state = "success", lost'[n].state = "success"
          PROVE  FALSE
      <4>1. PICK d : d = lost'[m].denom
        BY Zenon
      <4>7. PICK x \in DOMAIN lost : lost'[m] = lost[x]
        BY Zenon, <2>4
      <4>3. Succeeded(d, lost)
        BY Zenon, <3>3, <4>1, <4>7 DEF Succeeded
      <4>4. PICK y \in DOMAIN icas : lost'[n] = icas[y]
        BY Zenon, <2>5
      <4>5. Succeeded(d, icas)
        BY Zenon, <3>3, <4>1, <4>4 DEF Succeeded
      <4>6. d \in Denoms
        BY Zenon, <3>3, <4>1, <4>4, PacketStatus
      <4>2. Succeeded(d, lost) /\ Succeeded(d, icas) /\ d \in Denoms
        BY Zenon, <4>3, <4>5, <4>6
      <4> QED BY Zenon, <4>2 DEF CustodyInv, Placed
    <3> QED BY Zenon, <2>7, <3>1, <3>2, <3>3
  <2> QED BY Zenon, <1>8, <2>6, <2>7 DEF LostOK, Joined
<1>16. AccountsOK'
  BY Zenon, <1>4 DEF CustodyInv, AccountsOK
<1> QED BY Zenon, <1>12, <1>13, <1>14, <1>15, <1>16 DEF CustodyInv

\* A restored account: no ICA of the closed channel succeeded unnoticed but the lost ones.
LEMMA RestoreCustody ==
    ASSUME LInv, CustodyInv, RestoreInterchainAccount
    PROVE  CustodyInv'
<1>1. /\ channel = "closed" /\ channel' = "open" /\ icas' = <<>>
      /\ deposits' = [d \in Denoms |-> Restored(deposits[d])]
      /\ UNCHANGED <<depositAccount, delegationAccount, transfers, lost>>
  BY Zenon DEF RestoreInterchainAccount, tokenVars
<1>2. \A d : ~Succeeded(d, icas) /\ ~Succeeded(d, icas')
  <2>1. \A n \in DOMAIN icas : icas[n].state = "sent"
    BY Zenon, <1>1 DEF CustodyInv, InOrder, AllSent
  <2>2. DOMAIN icas' = {}
    BY <1>1
  <2> QED BY Zenon, <2>1, <2>2 DEF Succeeded
<1>3. ASSUME NEW d \in Denoms
      PROVE  \/ deposits'[d] = deposits[d]
             \/ /\ deposits[d].status = "DETOKENIZATION_IN_PROGRESS"
                /\ Rewritten(d, "DETOKENIZATION_QUEUE")
  <2>1. CASE deposits[d].status = "DETOKENIZATION_IN_PROGRESS"
    <3>1. deposits'[d] = WithStatusOf(deposits[d], "DETOKENIZATION_QUEUE")
      BY <1>1, <2>1 DEF Restored
    <3>2. /\ "status" \in DOMAIN deposits[d] /\ "amount" \in DOMAIN deposits[d]
          /\ deposits[d].amount \in Nat \ {0}
      BY <2>1, RecordPresent
    <3> QED BY Zenon, <2>1, <3>1, <3>2, StatusRewritten
  <2> QED BY Zenon, <1>1, <2>1 DEF Restored
<1>4. ASSUME NEW d \in Denoms
      PROVE  RecordOK(deposits'[d]) /\ Placed(d)'
  <2>1. CASE deposits'[d] = deposits[d]
    <3>1. Untouched(d)
      BY Zenon, <1>1, <1>2, <2>1 DEF Untouched
    <3> QED BY Zenon, <3>1, UntouchedPlaced DEF CustodyInv
  <2>2. CASE /\ deposits[d].status = "DETOKENIZATION_IN_PROGRESS"
             /\ Rewritten(d, "DETOKENIZATION_QUEUE")
    <3>1. Placed(d)
      BY Zenon DEF CustodyInv
    <3> QED BY Zenon, <1>1, <1>2, <2>2, <3>1 DEF Placed, Held, Detokenizing, Rewritten
  <2> QED BY Zenon, <1>3, <2>1, <2>2
<1>5. Carried(transfers, deposits)'
  <2>1. \A n \in DOMAIN transfers :
           deposits'[transfers[n].denom].amount = deposits[transfers[n].denom].amount
    BY Zenon, <1>3, PacketStatus DEF Rewritten
  <2> QED BY Zenon, <1>1, <2>1 DEF CustodyInv, Carried
<1>6. Carried(icas, deposits)' /\ InOrder'
  BY <1>1 DEF Carried, InOrder, Ordered
<1>7. AccountsOK' /\ LostOK'
  BY <1>1 DEF CustodyInv, AccountsOK, LostOK
<1> QED BY Zenon, <1>4, <1>5, <1>6, <1>7 DEF CustodyInv

LEMMA InitCustody == Init => CustodyInv
<1> SUFFICES ASSUME Init PROVE CustodyInv
  OBVIOUS
<1>1. AccountsOK
  BY Zenon DEF Init, AccountsOK
<1>5. DOMAIN transfers = {} /\ DOMAIN icas = {} /\ DOMAIN lost = {}
  BY DEF Init
<1>2. ASSUME NEW d \in Denoms
      PROVE  RecordOK(deposits[d]) /\ Placed(d)
  <2>1. deposits[d] = NoDeposit /\ depositAccount[d] = 0 /\ delegationAccount[d] = 0
    BY Zenon DEF Init
  <2>4. NoDeposit.status = "NONE"
    BY DEF NoDeposit
  <2>2. deposits[d].status = "NONE" /\ RecordOK(deposits[d])
    BY Zenon, <2>1, <2>4 DEF RecordOK
  <2>3. ~Succeeded(d, lost)
    BY Zenon, <1>5 DEF Succeeded
  <2> QED BY Zenon, <2>1, <2>2, <2>3 DEF Placed, Held, Detokenizing
<1>3. Carried(transfers, deposits) /\ Carried(icas, deposits) /\ InOrder
  <2>1. channel = "open"
    BY Zenon DEF Init
  <2> QED BY Zenon, <1>5, <2>1 DEF Carried, InOrder, Ordered
<1>4. LostOK
  BY DEF Init, LostOK
<1> QED BY Zenon, <1>1, <1>2, <1>3, <1>4 DEF CustodyInv

\* The rates on the host are rates: only HostSlashes changes them.
HostRateOK == hostRate \in [Validators -> Nat]

LEMMA InitHostRate == Init => HostRateOK
BY Zenon, PrecisionAssumption DEF Init, HostRateOK

LEMMA NextHostRate == HostRateOK /\ [Next]_vars => HostRateOK'
<1> SUFFICES ASSUME HostRateOK, [Next]_vars PROVE HostRateOK'
  OBVIOUS
<1> USE DEF hostVars
<1>1. ASSUME NEW v, HostSlashes(v)
      PROVE  HostRateOK'
  <2>1. PICK rate \in HostRates : hostRate' = [hostRate EXCEPT ![v] = rate]
    BY Zenon, <1>1 DEF HostSlashes
  <2>2. rate \in Nat
    BY LSMAssumptions, PrecisionAssumption
  <2> QED BY Zenon, <2>1, <2>2 DEF HostRateOK
<1>2. ASSUME NEW st, NEW d, NEW a, LSMLiquidStake(st, d, a) \/ SendTokens(st, d)
      PROVE  hostRate' = hostRate
  BY <1>2 DEF LSMLiquidStake, SendTokens
<1>3. ASSUME NEW v, \/ UpdateValidatorSharesExchRate(v) \/ DeleteValidator(v)
                    \/ DelegatorSharesCallback(v)
      PROVE  hostRate' = hostRate
  BY Zenon, <1>3 DEF UpdateValidatorSharesExchRate, DeleteValidator, DelegatorSharesCallback
<1>4. ASSUME NEW q, \/ ValidatorSharesToTokensRateCallback(q) \/ HostReadsRate(q)
                    \/ RateQueryTimesOut(q)
      PROVE  hostRate' = hostRate
  BY Zenon, <1>4 DEF ValidatorSharesToTokensRateCallback, HostReadsRate, RateQueryTimesOut
<1>5. ASSUME NEW i, \/ HostReceivesTransfer(i) \/ HostExecutesDetokenization(i)
                    \/ TransferAcknowledged(i) \/ TransferTimedOut(i)
      PROVE  hostRate' = hostRate
  BY Zenon, <1>5 DEF HostReceivesTransfer, HostExecutesDetokenization, TransferAcknowledged,
              TransferTimedOut, LSMTransferCallback
<1>6. CASE \/ EndBlocker \/ DetokenizeAcknowledged \/ DetokenizeTimedOut \/ ChannelCloses
           \/ RestoreInterchainAccount \/ HaltHostZone \/ ResumeHostZone
  BY Zenon, <1>6 DEF EndBlocker, EndBlockerWith, DetokenizeAcknowledged, DetokenizeTimedOut,
              DetokenizeCallback, ChannelCloses, RestoreInterchainAccount, HaltHostZone,
              ResumeHostZone, HostRateOK
<1>7. CASE UNCHANGED vars
  BY Zenon, <1>7 DEF vars, HostRateOK
<1> QED BY Zenon, <1>1, <1>2, <1>3, <1>4, <1>5, <1>6, <1>7
       DEF Next, Callbacks, HostSteps, HostRateOK

\* The query of a stake is about a pending record.
LEMMA QueryOfStake ==
    ASSUME LInv, NEW q \in Queries, queries[q] # NoQuery, queries[q].deposit # NoDeposit
    PROVE  /\ queries[q].denom \in Denoms
           /\ deposits[queries[q].denom] = queries[q].deposit
           /\ deposits[queries[q].denom].status = "DEPOSIT_PENDING"
BY Zenon DEF LInv, QueriesOK, QueryOK

LEMMA LSMLiquidStakeCustody ==
    ASSUME LInv, CustodyInv, NEW staker, NEW d \in Denoms, NEW a \in StakeAmounts,
           LSMLiquidStake(staker, d, a)
    PROVE  CustodyInv'
<1>1. PICK deposit : deposit = [status |-> "DEPOSIT_PENDING", staker |-> staker, amount |-> a,
                                stToken |-> LSMStToken(a, validators[ValidatorOf[d]].rate)]
  BY Zenon
<1>2. /\ deposits[d] = NoDeposit
      /\ \/ /\ deposits' = [deposits EXCEPT ![d] = deposit]
            /\ depositAccount' = depositAccount
         \/ /\ depositAccount' = [depositAccount EXCEPT ![d] = @ + deposit.amount]
            /\ deposits' = [deposits EXCEPT ![d] = WithStatusOf(deposit, "TRANSFER_QUEUE")]
      /\ UNCHANGED <<delegationAccount, transfers, channel, icas, lost>>
  BY Zenon, <1>1 DEF LSMLiquidStake, StartLSMLiquidStake, FinishLSMLiquidStake, tokenVars, icaVars
<1>3. a \in Nat \ {0}
  BY Zenon, LSMAssumptions
<1>4. RecordOK(deposit) /\ deposit.status = "DEPOSIT_PENDING"
  BY Zenon, <1>1, <1>3 DEF RecordOK
<1>5. PICK record : record = WithStatusOf(deposit, "TRANSFER_QUEUE")
  OBVIOUS
<1>6. RecordOK(record) /\ record.status = "TRANSFER_QUEUE" /\ record.amount = deposit.amount
  BY Zenon, <1>1, <1>3, <1>5 DEF RecordOK, WithStatusOf
<1>7. deposits[d].status \in {"NONE", "DEPOSIT_PENDING"}
  BY <1>2 DEF NoDeposit
<1>8. CASE deposits' = [deposits EXCEPT ![d] = deposit] /\ depositAccount' = depositAccount
  BY Zenon, <1>2, <1>4, <1>7, <1>8, StakeCustody
<1>9. CASE /\ depositAccount' = [depositAccount EXCEPT ![d] = @ + deposit.amount]
           /\ deposits' = [deposits EXCEPT ![d] = WithStatusOf(deposit, "TRANSFER_QUEUE")]
  BY Zenon, <1>2, <1>5, <1>6, <1>7, <1>9, StakeCustody
<1> QED BY Zenon, <1>2, <1>8, <1>9

\* A stake that is rejected leaves no record and no tokens.
LEMMA FailCustody ==
    ASSUME LInv, CustodyInv, NEW d \in Denoms, deposits[d].status = "DEPOSIT_PENDING",
           FailLSMLiquidStake(d), UNCHANGED <<transfers, icaVars>>
    PROVE  CustodyInv'
<1>1. RecordOK(NoDeposit) /\ NoDeposit.status = "NONE"
  BY DEF RecordOK, NoDeposit
<1>2. /\ deposits' = [deposits EXCEPT ![d] = NoDeposit]
      /\ UNCHANGED <<depositAccount, delegationAccount, transfers, channel, icas, lost>>
  BY DEF FailLSMLiquidStake, tokenVars, icaVars
<1> QED BY Zenon, <1>1, <1>2, StakeCustody

LEMMA RateCallbackCustody ==
    ASSUME LInv, CustodyInv, NEW q \in Queries, ValidatorSharesToTokensRateCallback(q)
    PROVE  CustodyInv'
<1>1. queries[q] # NoQuery
  BY DEF ValidatorSharesToTokensRateCallback, NoQuery
<1>2. \/ UNCHANGED <<deposits, tokenVars>>
      \/ queries[q].deposit # NoDeposit /\ FailLSMLiquidStake(queries[q].denom)
      \/ /\ queries[q].deposit # NoDeposit /\ delegationAccount' = delegationAccount
         /\ \E vals : FinishLSMLiquidStake(queries[q].denom, queries[q].deposit, vals)
  BY Zenon DEF ValidatorSharesToTokensRateCallback
<1>3. UNCHANGED <<transfers, icaVars>>
  BY Zenon DEF ValidatorSharesToTokensRateCallback
<1>4. CASE UNCHANGED <<deposits, tokenVars>>
  BY Zenon, <1>3, <1>4, OtherCustody DEF tokenVars, icaVars
<1>5. CASE queries[q].deposit # NoDeposit /\ FailLSMLiquidStake(queries[q].denom)
  BY Zenon, <1>1, <1>3, <1>5, QueryOfStake, FailCustody
<1>6. CASE /\ queries[q].deposit # NoDeposit /\ delegationAccount' = delegationAccount
           /\ \E vals : FinishLSMLiquidStake(queries[q].denom, queries[q].deposit, vals)
  <2>1. PICK d \in Denoms : d = queries[q].denom
    BY Zenon, <1>1, <1>6, QueryOfStake
  <2>2. deposits[d] = queries[q].deposit /\ deposits[d].status = "DEPOSIT_PENDING"
    BY Zenon, <1>1, <1>6, <2>1, QueryOfStake
  <2>3. /\ depositAccount' = [depositAccount EXCEPT ![d] = @ + deposits[d].amount]
        /\ deposits' = [deposits EXCEPT ![d] = WithStatusOf(deposits[d], "TRANSFER_QUEUE")]
    BY Zenon, <1>6, <2>1, <2>2 DEF FinishLSMLiquidStake
  <2>4. /\ "status" \in DOMAIN deposits[d] /\ "amount" \in DOMAIN deposits[d]
        /\ deposits[d].amount \in Nat \ {0}
    BY Zenon, <2>2, RecordPresent
  <2>5. PICK record : record = WithStatusOf(deposits[d], "TRANSFER_QUEUE")
    OBVIOUS
  <2>6. /\ RecordOK(record) /\ record.status = "TRANSFER_QUEUE"
        /\ record.amount = deposits[d].amount
    BY Zenon, <2>4, <2>5 DEF RecordOK, WithStatusOf
  <2> QED BY Zenon, <1>3, <1>6, <2>2, <2>3, <2>5, <2>6, StakeCustody DEF icaVars
<1> QED BY Zenon, <1>2, <1>4, <1>5, <1>6

LEMMA NextCustody == LInv /\ HostRateOK /\ CustodyInv /\ [Next]_vars => CustodyInv'
<1> SUFFICES ASSUME LInv, HostRateOK, CustodyInv, [Next]_vars PROVE CustodyInv'
  OBVIOUS
<1> USE DEF icaVars, tokenVars
<1>1. ASSUME NEW s \in Stakers, NEW d \in Denoms, NEW a \in StakeAmounts, LSMLiquidStake(s, d, a)
      PROVE  CustodyInv'
  BY Zenon, <1>1, LSMLiquidStakeCustody
<1>2. ASSUME NEW s \in Stakers, NEW d \in Denoms, SendTokens(s, d)
      PROVE  CustodyInv'
  BY Zenon, <1>2, OtherCustody DEF SendTokens
<1>3. ASSUME NEW v, UpdateValidatorSharesExchRate(v) \/ HostSlashes(v) \/ DeleteValidator(v)
      PROVE  CustodyInv'
  BY <1>3, OtherCustody DEF UpdateValidatorSharesExchRate, HostSlashes, DeleteValidator
<1>4. CASE EndBlocker
  BY <1>4, EndBlockerCustody DEF EndBlocker
<1>5. CASE Callbacks
  <2>1. CASE DetokenizeAcknowledged
    BY <2>1, DetokenizeCallbackCustody DEF DetokenizeAcknowledged
  <2>2. ASSUME NEW i \in DOMAIN transfers, TransferAcknowledged(i)
        PROVE  CustodyInv'
    <3>1. transfers[i].state \in {"success", "failure"}
      BY Zenon, <2>2 DEF TransferAcknowledged, LInv, InFlight, PacketOK
    <3> QED BY <2>2, <3>1, LSMTransferCallbackCustody DEF TransferAcknowledged
  <2>3. ASSUME NEW q \in Queries, ValidatorSharesToTokensRateCallback(q)
        PROVE  CustodyInv'
    BY <2>3, RateCallbackCustody
  <2>4. ASSUME NEW v \in Validators, DelegatorSharesCallback(v)
        PROVE  CustodyInv'
    BY <2>4, OtherCustody DEF DelegatorSharesCallback
  <2> QED BY Zenon, <1>5, <2>1, <2>2, <2>3, <2>4 DEF Callbacks
<1>6. CASE HostSteps
  <2>1. ASSUME NEW q \in Queries, HostReadsRate(q)
        PROVE  CustodyInv'
    BY <2>1, OtherCustody DEF HostReadsRate
  <2> QED BY <1>6, <2>1, HostReceivesTransferCustody, HostExecutesCustody DEF HostSteps, HostRateOK
<1>7. ASSUME NEW q \in Queries, RateQueryTimesOut(q)
      PROVE  CustodyInv'
  <2>1. UNCHANGED <<transfers, icaVars>> /\ queries[q] # NoQuery
    BY Zenon, <1>7 DEF RateQueryTimesOut
  <2>2. CASE queries[q].deposit # NoDeposit
    BY Zenon, <1>7, <2>1, <2>2, QueryOfStake, FailCustody DEF RateQueryTimesOut
  <2>3. CASE queries[q].deposit = NoDeposit
    BY Zenon, <1>7, <2>1, <2>3, OtherCustody DEF RateQueryTimesOut
  <2> QED BY Zenon, <2>2, <2>3
<1>8. ASSUME NEW i \in DOMAIN transfers, TransferTimedOut(i)
      PROVE  CustodyInv'
  BY <1>8, LSMTransferCallbackCustody DEF TransferTimedOut
<1>9. CASE DetokenizeTimedOut
  BY <1>9, DetokenizeCallbackCustody DEF DetokenizeTimedOut
<1>10. CASE ChannelCloses \/ RestoreInterchainAccount
  BY Zenon, <1>10, ChannelClosesCustody, RestoreCustody
<1>11. CASE HaltHostZone \/ ResumeHostZone
  BY <1>11, OtherCustody DEF HaltHostZone, ResumeHostZone
<1>12. CASE UNCHANGED vars
  BY Zenon, <1>12, OtherCustody DEF vars
<1> QED
  BY Zenon, <1>1, <1>2, <1>3, <1>4, <1>5, <1>6, <1>7, <1>8, <1>9, <1>10, <1>11, <1>12 DEF Next

\* Packets of a denom are counted where there is at most one.
Found(d, s, states) == \E i \in DOMAIN s : s[i].denom = d /\ s[i].state \in states
AtMostOne(d, s, states) ==
    \A i, j \in DOMAIN s :
       /\ s[i].denom = d /\ s[i].state \in states
       /\ s[j].denom = d /\ s[j].state \in states
       => i = j

LEMMA CountOne ==
    ASSUME NEW s, NEW d, NEW states, AtMostOne(d, s, states)
    PROVE  CountOf(d, s, states) = IF Found(d, s, states) THEN 1 ELSE 0
<1> USE DEF Found, AtMostOne
<1> DEFINE them == {i \in DOMAIN s : s[i].denom = d /\ s[i].state \in states}
<1>1. CASE Found(d, s, states)
  <2>1. PICK i \in DOMAIN s : s[i].denom = d /\ s[i].state \in states
    BY Zenon, <1>1
  <2>2. them = {i}
    BY Zenon, <2>1
  <2>3. Cardinality(them) = 1
    BY Zenon, <2>2, FS_Singleton
  <2> QED BY <1>1, <2>3 DEF CountOf
<1>2. CASE ~Found(d, s, states)
  <2>1. them = {}
    BY <1>2
  <2>2. Cardinality(them) = 0
    BY <2>1, FS_EmptySet
  <2> QED BY <1>2, <2>2 DEF CountOf
<1> QED BY Zenon, <1>1, <1>2

LEMMA CustodyInvHolds == LInv /\ CustodyInv => Custody
<1> SUFFICES ASSUME LInv, CustodyInv, NEW d \in Denoms
             PROVE  LET amount == IF deposits[d] = NoDeposit THEN 0 ELSE deposits[d].amount
                    IN  /\ depositAccount[d] = Held(d, {"TRANSFER_QUEUE", "TRANSFER_FAILED"})
                        /\ CountOf(d, transfers, {"sent", "success", "failure"})
                             = IF deposits[d].status = "TRANSFER_IN_PROGRESS" THEN 1 ELSE 0
                        /\ delegationAccount[d] =
                             Held(d, Detokenizing)
                             + amount * (CountOf(d, transfers, {"success"})
                                         - CountOf(d, icas \o lost, {"success"}))
  BY Zenon DEF Custody, Detokenizing
<1>1. RecordOK(deposits[d]) /\ Placed(d)
  BY Zenon DEF CustodyInv
<1>2. \A i, j \in DOMAIN transfers : transfers[i].denom = transfers[j].denom => i = j
  BY Zenon DEF LInv, InFlight
<1>3. \A i, j \in DOMAIN icas : icas[i].denom = icas[j].denom => i = j
  BY Zenon DEF LInv, InFlight
<1>4. CountOf(d, transfers, {"sent", "success", "failure"})
         = IF deposits[d].status = "TRANSFER_IN_PROGRESS" THEN 1 ELSE 0
  <2>1. Found(d, transfers, {"sent", "success", "failure"}) <=> Has(d, transfers)
    BY Zenon DEF LInv, InFlight, PacketOK, Has, Found
  <2>2. Has(d, transfers) <=> deposits[d].status = "TRANSFER_IN_PROGRESS"
    BY Zenon, <1>1, DenomOfPacket DEF Placed
  <2>3. CountOf(d, transfers, {"sent", "success", "failure"}) = IF Has(d, transfers) THEN 1 ELSE 0
    <3>1. AtMostOne(d, transfers, {"sent", "success", "failure"})
      BY Zenon, <1>2 DEF AtMostOne
    <3> QED BY Zenon, <2>1, <3>1, CountOne
  <2> QED BY Zenon, <2>2, <2>3
<1>5. CountOf(d, transfers, {"success"}) = IF Succeeded(d, transfers) THEN 1 ELSE 0
  <2>1. Found(d, transfers, {"success"}) <=> Succeeded(d, transfers)
    BY Zenon DEF Succeeded, Found
  <2>2. AtMostOne(d, transfers, {"success"})
    BY Zenon, <1>2 DEF AtMostOne
  <2> QED BY Zenon, <2>1, <2>2, CountOne
<1>6. CountOf(d, icas \o lost, {"success"}) =
         IF Succeeded(d, icas) \/ Succeeded(d, lost) THEN 1 ELSE 0
  <2>1. PICK t : t = icas \o lost
    BY Zenon
  <2>2. PICK A : Joined(t, icas, lost, A)
    <3>1. (\E X : icas \in Seq(X)) /\ (\E Y : lost \in Seq(Y))
      BY Zenon DEF LInv, InFlight, CustodyInv, LostOK
    <3> QED BY <2>1, <3>1, ConcatJoined
  <2>3. Picked(icas, t, A) /\ Picked(lost, t, DOMAIN t \ A) /\ A \subseteq DOMAIN t
    BY Zenon, <2>2 DEF Joined, Picked
  <2>4. Succeeded(d, icas) <=> \E n \in A : t[n].denom = d /\ t[n].state = "success"
    <3>1. Says(icas, t, A)
      BY Zenon, <2>3, PickedHas
    <3> QED BY Zenon, <3>1 DEF Says
  <2>5. Succeeded(d, lost) <=> \E n \in DOMAIN t \ A : t[n].denom = d /\ t[n].state = "success"
    <3>1. Says(lost, t, DOMAIN t \ A)
      BY Zenon, <2>3, PickedHas
    <3> QED BY Zenon, <3>1 DEF Says
  <2>6. Found(d, t, {"success"}) <=> Succeeded(d, icas) \/ Succeeded(d, lost)
    BY <2>3, <2>4, <2>5 DEF Found
  <2>7. PICK f : Located(f, icas, t, A)
    BY Zenon, <2>3, PickedLocated
  <2>8. PICK g : Located(g, lost, t, DOMAIN t \ A)
    BY Zenon, <2>3, PickedLocated
  <2>9. \A e \in A : \E n \in DOMAIN icas : f[n] = e /\ t[e] = icas[n]
    BY Zenon, <2>7 DEF Located
  <2>10. \A e \in DOMAIN t \ A : \E n \in DOMAIN lost : g[n] = e /\ t[e] = lost[n]
    BY Zenon, <2>8 DEF Located
  <2>11. ASSUME NEW i \in DOMAIN t, NEW j \in DOMAIN t, t[i].denom = d, t[i].state = "success",
                t[j].denom = d, t[j].state = "success"
         PROVE  i = j
    <3>1. CASE i \in A /\ j \in A
      <4>1. PICK m \in DOMAIN icas : f[m] = i /\ t[i] = icas[m]
        BY Zenon, <2>9, <3>1
      <4>2. PICK n \in DOMAIN icas : f[n] = j /\ t[j] = icas[n]
        BY Zenon, <2>9, <3>1
      <4>3. m = n
        BY Zenon, <1>3, <2>11, <4>1, <4>2
      <4> QED BY Zenon, <4>1, <4>2, <4>3
    <3>2. CASE i \notin A /\ j \notin A
      <4>1. PICK m \in DOMAIN lost : g[m] = i /\ t[i] = lost[m]
        BY Zenon, <2>10, <3>2
      <4>2. PICK n \in DOMAIN lost : g[n] = j /\ t[j] = lost[n]
        BY Zenon, <2>10, <3>2
      <4>3. m = n
        BY Zenon, <2>11, <4>1, <4>2 DEF CustodyInv, LostOK
      <4> QED BY Zenon, <4>1, <4>2, <4>3
    <3>3. ASSUME i \in A, j \notin A
          PROVE  FALSE
      BY Zenon, <1>1, <2>4, <2>5, <2>11, <3>3 DEF Placed
    <3>4. ASSUME j \in A, i \notin A
          PROVE  FALSE
      BY Zenon, <1>1, <2>4, <2>5, <2>11, <3>4 DEF Placed
    <3> QED BY Zenon, <3>1, <3>2, <3>3, <3>4
  <2>12. AtMostOne(d, t, {"success"})
    BY Zenon, <2>11 DEF AtMostOne
  <2>13. CountOf(d, t, {"success"}) =
            IF Succeeded(d, icas) \/ Succeeded(d, lost) THEN 1 ELSE 0
    BY Zenon, <2>6, <2>12, CountOne
  <2> QED BY Zenon, <2>1, <2>13
<1>7. PICK c \in {0, 1} : c = CountOf(d, transfers, {"success"})
  BY Zenon, <1>5
<1>8. PICK e \in {0, 1} : e = CountOf(d, icas \o lost, {"success"})
  BY Zenon, <1>6
<1>9. /\ c = 1 <=> Succeeded(d, transfers)
      /\ e = 1 <=> Succeeded(d, icas) \/ Succeeded(d, lost)
  BY <1>5, <1>6, <1>7, <1>8
<1>10. PICK amount : amount = IF deposits[d] = NoDeposit THEN 0 ELSE deposits[d].amount
  BY Zenon
<1>11. delegationAccount[d] = Held(d, Detokenizing) + amount * (c - e)
  <2>1. CASE deposits[d] = NoDeposit
    <3>4. NoDeposit.status = "NONE"
      BY DEF NoDeposit
    <3>2. deposits[d].status = "NONE" /\ amount = 0
      BY Zenon, <1>10, <2>1, <3>4
    <3>1. amount = 0 /\ Held(d, Detokenizing) = 0 /\ delegationAccount[d] = 0
      BY Zenon, <1>1, <3>2 DEF Placed, Held, Detokenizing
    <3>3. 0 * (c - e) = 0
      OBVIOUS
    <3> QED BY <3>1, <3>3
  <2>2. CASE deposits[d] # NoDeposit
    <3>1. amount \in Nat /\ amount = deposits[d].amount
      BY Zenon, <1>1, <1>10, <2>2 DEF RecordOK
    <3>2. c = 1 => deposits[d].status = "TRANSFER_IN_PROGRESS"
      BY Zenon, <1>9, DenomOfPacket
    <3>7. Succeeded(d, icas) => deposits[d].status \in Detokenizing
      BY Zenon, DenomOfPacket DEF Detokenizing
    <3>8. Succeeded(d, lost) => deposits[d].status \in Detokenizing
      BY Zenon, <1>1 DEF Placed
    <3>3. e = 1 => deposits[d].status \in Detokenizing
      BY Zenon, <1>9, <3>7, <3>8
    <3>4. amount * (1 - 0) = amount /\ amount * (0 - 1) = -amount /\ amount * (0 - 0) = 0
      BY <3>1
    <3>5. CASE deposits[d].status \in Detokenizing
      <4>1. c = 0 /\ Held(d, Detokenizing) = amount
        BY Zenon, <3>1, <3>2, <3>5 DEF Detokenizing, Held
      <4>2. delegationAccount[d] = IF e = 1 THEN 0 ELSE amount
        BY Zenon, <1>1, <1>9, <3>1, <3>5 DEF Placed, Detokenizing
      <4> QED BY <3>1, <3>4, <4>1, <4>2
    <3>6. CASE deposits[d].status \notin Detokenizing
      <4>1. e = 0 /\ Held(d, Detokenizing) = 0
        BY Zenon, <3>3, <3>6 DEF Held
      <4>2. delegationAccount[d] = IF c = 1 THEN amount ELSE 0
        BY Zenon, <1>1, <1>9, <3>1, <3>2, <3>6 DEF Placed
      <4> QED BY <3>1, <3>4, <4>1, <4>2
    <3> QED BY Zenon, <3>5, <3>6
  <2> QED BY Zenon, <2>1, <2>2
<1> QED BY <1>1, <1>4, <1>7, <1>8, <1>10, <1>11, Zenon DEF Placed

\* Custody is an invariant: whatever transfers and ICAs fail, time out or lose their
\* acknowledgement, the status of an LSM token deposit says where its tokens are, and the
\* host redeems them once.
THEOREM AlwaysInCustody == Spec => []Custody
<1>1. Init => LInv /\ HostRateOK /\ CustodyInv
  BY InitLInv, InitHostRate, InitCustody
<1>2. LInv /\ HostRateOK /\ CustodyInv /\ [Next]_vars => (LInv /\ HostRateOK /\ CustodyInv)'
  BY NextLInv, NextHostRate, NextCustody
<1>3. LInv /\ CustodyInv => Custody
  BY CustodyInvHolds
<1> QED BY <1>1, <1>2, <1>3, PTL DEF Spec
=============================================================================
