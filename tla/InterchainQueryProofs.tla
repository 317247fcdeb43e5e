------------------------ MODULE InterchainQueryProofs ------------------------
(***************************************************************************)
(* For every set of requests, keys and policies, and without the bounds of *)
(* a model: an answer handed to a callback reflects everything Stride knew *)
(* of the host chain when it asked, and the query store implements the     *)
(* promise of QueryService.                                                *)
(***************************************************************************)
EXTENDS InterchainQuery, TLAPS

\* An id identifies one request: a unique id by the counter, the others by
\* the key, which is never used for a request that forced a unique id.
IdSound(q) ==
    \/ \E n \in 1 .. (uid - 1) : q.id = <<"uid", n>>
    \/ q.request \notin ForceUnique /\ q.id = <<"key", Key[q.request]>>

QueryInv(q) ==
    /\ q \in [id : {q.id}, request : Requests, submissionHeight : Nat,
              requestSent : BOOLEAN, timedOut : BOOLEAN, known : Nat,
              refused : BOOLEAN]
    /\ IdSound(q)
    /\ q.known < q.submissionHeight
    /\ outcome[q.request] = "none"

\* The inductive invariant.  Distinct stored queries differ in their id and in
\* their request; what a query records as known lies below its submission
\* height, because the light client is ahead of everything Stride has proved.
IInv ==
    /\ \A q \in queries : QueryInv(q)
    /\ \A p, q \in queries : (p.id = q.id \/ p.request = q.request) => p = q
    /\ uid \in Nat \ {0}
    /\ clientHeight \in Nat
    /\ known \in Nat
    /\ known < clientHeight
    /\ hostHeight \in Nat
    /\ outcome \in [Requests -> OutcomeValues]
    /\ AnswersReflectKnowledge
    /\ \A a \in answer : a.height \in Nat /\ a.known \in Nat

-----------------------------------------------------------------------------
\* The query that SubmitICQRequest and RetryICQRequest store.
LEMMA NewQueryFields ==
    ASSUME NEW r \in Requests, NEW unique \in BOOLEAN,
           uid \in Nat, clientHeight \in Nat, known \in Nat, hostHeight \in Nat
    PROVE  LET n == NewQuery(r, unique)
           IN  /\ n.request = r
               /\ n.id = IF unique THEN <<"uid", uid>> ELSE <<"key", Key[r]>>
               /\ n.submissionHeight = clientHeight
               /\ n.known = known
               /\ n \in [id : {n.id}, request : Requests, submissionHeight : Nat,
                         requestSent : BOOLEAN, timedOut : BOOLEAN,
                         known : Nat, refused : BOOLEAN]
BY DEF NewQuery, GetQueryId

\* A unique id is new: every unique id in the store is smaller.
LEMMA UniqueIsNew ==
    ASSUME uid \in Nat, NEW q, IdSound(q)
    PROVE  q.id # <<"uid", uid>>
BY DEF IdSound

LEMMA IntervalGrows ==
    ASSUME NEW a \in Nat, NEW b \in Nat, a <= b
    PROVE  \A n \in 1 .. (a - 1) : n \in 1 .. (b - 1)
OBVIOUS

\* Ids stay sound while the counter grows.
LEMMA IdStaysSound ==
    ASSUME uid \in Nat, uid' \in Nat, uid <= uid', NEW q, IdSound(q)
    PROVE  IdSound(q)'
<1>1. \A n \in 1 .. (uid - 1) : n \in 1 .. (uid' - 1)
  BY Zenon, IntervalGrows
<1> QED BY Zenon, <1>1 DEF IdSound

\* Storing a new query for a request that has none, after removing the
\* queries of its id, preserves the invariant of the store.
LEMMA StoreNewQuery ==
    ASSUME IInv,
           NEW store \in SUBSET queries,
           NEW r \in Requests, NEW unique \in BOOLEAN,
           r \in ForceUnique => unique,
           \A q \in store : q.request # r,
           outcome[r] = "none",
           queries' = SetQuery(store, NewQuery(r, unique)),
           GetQueryUID(unique),
           \A q \in queries' : outcome'[q.request] = outcome[q.request]
    PROVE  /\ \A q \in queries' : QueryInv(q)'
           /\ \A p, q \in queries' :
                (p.id = q.id \/ p.request = q.request) => p = q
           /\ uid' \in Nat \ {0}
<1> DEFINE n == NewQuery(r, unique)
<1>n. /\ n.request = r
      /\ n.id = IF unique THEN <<"uid", uid>> ELSE <<"key", Key[r]>>
      /\ n.submissionHeight = clientHeight
      /\ n.known = known
      /\ n \in [id : {n.id}, request : Requests, submissionHeight : Nat,
                requestSent : BOOLEAN, timedOut : BOOLEAN,
                known : Nat, refused : BOOLEAN]
  BY Zenon, NewQueryFields DEF IInv
<1>q. queries' = {q \in store : q.id # n.id} \cup {n}
  BY DEF SetQuery
<1>u. uid \in Nat /\ uid' \in Nat \ {0} /\ uid <= uid'
  BY DEF GetQueryUID, IInv
<1>v. unique => uid' = uid + 1
  BY DEF GetQueryUID
<1> HIDE DEF n
<1>1. ASSUME NEW q \in queries'
      PROVE  QueryInv(q)'
  <2>o. outcome'[q.request] = outcome[q.request]
    OBVIOUS
  <2>1. CASE q = n
    <3>1. IdSound(q)'
      <4>1. CASE unique
        <5>1. q.id = <<"uid", uid>> /\ uid \in 1 .. (uid' - 1)
          <6>1. uid >= 1
            BY DEF IInv
          <6> QED BY <1>n, <1>u, <1>v, <2>1, <4>1, <6>1
        <5> QED BY <5>1 DEF IdSound
      <4>2. CASE ~unique
        BY <1>n, <2>1, <4>2 DEF IdSound
      <4> QED BY <4>1, <4>2
    <3>2. q.known < q.submissionHeight
      BY <1>n, <2>1 DEF IInv
    <3> QED BY <1>n, <2>o, <2>1, <3>1, <3>2 DEF QueryInv
  <2>2. CASE q \in store
    <3>1. QueryInv(q)
      BY <2>2 DEF IInv
    <3>2. IdSound(q)'
      BY <1>u, <3>1, IdStaysSound DEF QueryInv
    <3> QED BY <2>o, <3>1, <3>2 DEF QueryInv
  <2> QED BY <1>q, <2>1, <2>2
<1>2. ASSUME NEW p \in queries', NEW q \in queries',
             p.id = q.id \/ p.request = q.request
      PROVE  p = q
  BY <1>n, <1>q, <1>2 DEF IInv
<1> QED BY <1>1, <1>2, <1>u

-----------------------------------------------------------------------------
\* SubmitICQRequest changes the outcome only of requests whose query it
\* replaces, and those leave the store.
LEMMA SubmitFacts ==
    ASSUME IInv, NEW r \in Requests, SubmitICQRequest(r)
    PROVE  LET n == NewQuery(r, r \in ForceUnique)
               gone == Replaced(queries, n)
           IN  /\ \A q \in queries : q.request # r
               /\ queries' = {q \in queries : q.id # n.id} \cup {n}
               /\ n.request = r
               /\ \A q \in queries : q.request \in gone <=> q.id = n.id
               /\ \A q \in queries' : outcome'[q.request] = outcome[q.request]
               /\ outcome' = [q \in Requests |->
                                IF q \in gone THEN "replaced" ELSE outcome[q]]
<1> DEFINE n == NewQuery(r, r \in ForceUnique)
           gone == Replaced(queries, n)
<1>1. n.request = r
  BY DEF NewQuery
<1>2. \A q \in queries : q.request # r
  BY DEF SubmitICQRequest, Open
<1>3. queries' = {q \in queries : q.id # n.id} \cup {n}
  BY DEF SubmitICQRequest, SetQuery
<1>4. outcome' = [q \in Requests |-> IF q \in gone THEN "replaced" ELSE outcome[q]]
  BY DEF SubmitICQRequest
<1>5. gone = {q.request : q \in {p \in queries : p.id = n.id}}
  BY DEF Replaced
<1> HIDE DEF n, gone
<1>6. \A q \in queries : q.request \in gone <=> q.id = n.id
  BY <1>5 DEF IInv
<1>7. r \notin gone
  BY <1>2, <1>5
<1>8. ASSUME NEW q \in queries'
      PROVE  outcome'[q.request] = outcome[q.request]
  <2>1. q.request \in Requests
    BY <1>1, <1>3 DEF IInv, QueryInv
  <2>2. q.request \notin gone
    BY <1>1, <1>3, <1>6, <1>7
  <2> QED BY <1>4, <2>1, <2>2
<1> QED BY <1>1, <1>2, <1>3, <1>4, <1>6, <1>8 DEF n, gone

LEMMA SubmitInv ==
    ASSUME IInv, NEW r \in Requests, SubmitICQRequest(r)
    PROVE  IInv'
<1> DEFINE unique == r \in ForceUnique
<1>0. unique \in BOOLEAN /\ queries \in SUBSET queries
  OBVIOUS
<1>1. /\ \A q \in queries : q.request # r
      /\ \A q \in queries' : outcome'[q.request] = outcome[q.request]
  BY SubmitFacts
<1>2. /\ outcome[r] = "none"
      /\ queries' = SetQuery(queries, NewQuery(r, unique))
      /\ GetQueryUID(unique)
  BY DEF SubmitICQRequest
<1>3. /\ \A q \in queries' : QueryInv(q)'
      /\ \A p, q \in queries' : (p.id = q.id \/ p.request = q.request) => p = q
      /\ uid' \in Nat \ {0}
  <2> HIDE DEF unique
  <2>1. r \in ForceUnique => unique
    BY DEF unique
  <2> QED BY <1>0, <1>1, <1>2, <2>1, StoreNewQuery
<1>4. outcome' \in [Requests -> OutcomeValues]
  <2> DEFINE gone == Replaced(queries, NewQuery(r, r \in ForceUnique))
  <2>1. outcome' = [q \in Requests |-> IF q \in gone THEN "replaced" ELSE outcome[q]]
    BY DEF SubmitICQRequest
  <2>2. outcome \in [Requests -> OutcomeValues]
    BY DEF IInv
  <2> HIDE DEF gone
  <2> QED BY <2>1, <2>2 DEF OutcomeValues
<1>5. UNCHANGED <<clientHeight, hostHeight, known, answer>>
  BY DEF SubmitICQRequest
<1> QED BY <1>3, <1>4, <1>5 DEF IInv, AnswersReflectKnowledge

\* A query p with the contents of q, its flags apart.
SameButFlags(p, q) ==
    /\ p.id = q.id
    /\ p.request = q.request
    /\ p.known = q.known
    /\ p.submissionHeight = q.submissionHeight
    /\ p \in [id : {p.id}, request : Requests, submissionHeight : Nat,
              requestSent : BOOLEAN, timedOut : BOOLEAN, known : Nat,
              refused : BOOLEAN]

\* A step that rewrites only the flags of stored queries.
LEMMA FlagsInv ==
    ASSUME IInv,
           UNCHANGED <<uid, clientHeight, known, outcome, answer>>,
           hostHeight' \in Nat,
           \A p \in queries' : \E q \in queries : SameButFlags(p, q),
           \A p1, p2 \in queries' : \A q \in queries :
             SameButFlags(p1, q) /\ SameButFlags(p2, q) => p1 = p2
    PROVE  IInv'
<1>1. ASSUME NEW p \in queries'
      PROVE  QueryInv(p)'
  <2>1. PICK q \in queries : SameButFlags(p, q)
    OBVIOUS
  <2>2. QueryInv(q)
    BY DEF IInv
  <2>3. IdSound(p)'
    BY <2>1, <2>2 DEF QueryInv, IdSound, SameButFlags
  <2> QED BY <2>1, <2>2, <2>3 DEF QueryInv, SameButFlags
<1>2. ASSUME NEW p1 \in queries', NEW p2 \in queries',
             p1.id = p2.id \/ p1.request = p2.request
      PROVE  p1 = p2
  <2>1. PICK q1 \in queries : SameButFlags(p1, q1)
    OBVIOUS
  <2>2. PICK q2 \in queries : SameButFlags(p2, q2)
    OBVIOUS
  <2>3. q1.id = q2.id \/ q1.request = q2.request
    BY <1>2, <2>1, <2>2 DEF SameButFlags
  <2>4. q1 = q2
    BY <2>3 DEF IInv
  <2> QED BY <2>1, <2>2, <2>4
<1> QED BY <1>1, <1>2 DEF IInv, AnswersReflectKnowledge

LEMMA FlagSet ==
    ASSUME IInv, NEW q \in queries
    PROVE  /\ SameButFlags([q EXCEPT !.requestSent = TRUE], q)
           /\ SameButFlags([q EXCEPT !.timedOut = TRUE], q)
           /\ SameButFlags([q EXCEPT !.refused = TRUE], q)
           /\ SameButFlags(q, q)
<1>1. q \in [id : {q.id}, request : Requests, submissionHeight : Nat,
             requestSent : BOOLEAN, timedOut : BOOLEAN, known : Nat,
             refused : BOOLEAN]
  BY DEF IInv, QueryInv
<1> QED BY Zenon, <1>1 DEF SameButFlags

LEMMA EndBlockerInv ==
    ASSUME IInv, EndBlocker
    PROVE  IInv'
<1>1. queries' = {[q EXCEPT !.requestSent = TRUE] : q \in queries}
  BY DEF EndBlocker
<1>2. \A p \in queries' : \E q \in queries : SameButFlags(p, q)
  BY Zenon, <1>1, FlagSet
<1>3. ASSUME NEW p1 \in queries', NEW p2 \in queries', NEW q \in queries,
             SameButFlags(p1, q), SameButFlags(p2, q)
      PROVE  p1 = p2
  <2>1. PICK q1 \in queries : p1 = [q1 EXCEPT !.requestSent = TRUE]
    BY <1>1
  <2>2. PICK q2 \in queries : p2 = [q2 EXCEPT !.requestSent = TRUE]
    BY <1>1
  <2>3. SameButFlags(p1, q1) /\ SameButFlags(p2, q2)
    BY Zenon, <2>1, <2>2, FlagSet
  <2>4. q1 = q2
    BY <1>3, <2>3 DEF SameButFlags, IInv
  <2> QED BY <2>1, <2>2, <2>4
<1>4. hostHeight' \in Nat /\ UNCHANGED <<uid, clientHeight, known, outcome, answer>>
  BY DEF EndBlocker, IInv
<1> QED BY <1>2, <1>3, <1>4, FlagsInv

\* One query gets other flags: TimesOut and CallbackFails.
LEMMA FlaggedInv ==
    ASSUME IInv, NEW query \in queries, NEW flagged,
           SameButFlags(flagged, query),
           queries' = (queries \ {query}) \cup {flagged},
           UNCHANGED <<uid, clientHeight, hostHeight, known, outcome, answer>>
    PROVE  IInv'
<1>1. \A q \in queries : SameButFlags(q, q)
  BY Zenon, FlagSet
<1>2. \A p \in queries' : \E q \in queries : SameButFlags(p, q)
  BY <1>1
<1>3. ASSUME NEW p1 \in queries', NEW p2 \in queries', NEW q \in queries,
             SameButFlags(p1, q), SameButFlags(p2, q)
      PROVE  p1 = p2
  <2>1. p1.id = q.id /\ p2.id = q.id /\ flagged.id = query.id
    BY <1>3 DEF SameButFlags
  <2>2. \A p \in queries' : p.id = query.id => p = flagged
    BY <2>1 DEF IInv
  <2>3. \A p, r \in queries \ {query} : p.id = r.id => p = r
    BY DEF IInv
  <2> QED BY <2>1, <2>2, <2>3
<1>4. hostHeight' \in Nat
  BY DEF IInv
<1> QED BY <1>2, <1>3, <1>4, FlagsInv

LEMMA TimesOutInv ==
    ASSUME IInv, NEW query \in queries, TimesOut(query)
    PROVE  IInv'
<1>1. SameButFlags([query EXCEPT !.timedOut = TRUE], query)
  BY Zenon, FlagSet
<1> QED BY Zenon, <1>1, FlaggedInv DEF TimesOut

LEMMA CallbackFailsInv ==
    ASSUME IInv, NEW query \in queries,
           CallbackFails(queries \ {query}, query),
           UNCHANGED <<clientHeight, hostHeight, known>>
    PROVE  IInv'
<1>1. SameButFlags([query EXCEPT !.refused = TRUE], query)
  BY Zenon, FlagSet
<1> QED BY Zenon, <1>1, FlaggedInv DEF CallbackFails

-----------------------------------------------------------------------------
\* What an answered query leaves behind: it is removed and its request
\* concludes, or it is stored again under a new id, or its callback failed.
LEMMA AnswerCases ==
    ASSUME NEW query \in queries, NEW h, NEW contentless \in BOOLEAN,
           SubmitQueryResponse(query, h, contentless)
    PROVE  LET store == queries \ {query}
           IN  \/ \E as \in Service!Outcomes(query.request) :
                    /\ Concluded(store, query, as)
                    /\ \/ UNCHANGED answer
                       \/ answer' = {[height |-> h, known |-> query.known]}
               \/ RetryICQRequest(store, query)
               \/ CallbackFails(store, query)
<1> DEFINE store == queries \ {query}
           Heard == \/ UNCHANGED answer
                    \/ answer' = {[height |-> h, known |-> query.known]}
           Ends(as) == Concluded(store, query, as) /\ Heard
<1> SUFFICES \/ \E as \in Service!Outcomes(query.request) : Ends(as)
             \/ RetryICQRequest(store, query)
             \/ CallbackFails(store, query)
  OBVIOUS
<1>1. CASE Concluded(store, query, "contentless") /\ UNCHANGED answer
  BY <1>1 DEF Service!Outcomes
<1>2. CASE query.timedOut /\ HandleQueryTimeout(store, query, h)
  <2>1. CASE Policy[query.request] = "REJECT"
    BY <1>2, <2>1 DEF HandleQueryTimeout, Service!Outcomes
  <2>2. CASE Policy[query.request] = "RETRY"
    BY <1>2, <2>2 DEF HandleQueryTimeout
  <2>3. CASE Policy[query.request] = "EXECUTE"
    BY <1>2, <2>3 DEF HandleQueryTimeout, InvokeCallback, Service!Outcomes
  <2> QED BY <1>2, <2>1, <2>2, <2>3 DEF HandleQueryTimeout
<1>3. CASE InvokeCallback(store, query, h, "answered")
  BY <1>3 DEF InvokeCallback, Service!Outcomes
<1> QED BY <1>1, <1>2, <1>3 DEF SubmitQueryResponse

LEMMA ConcludedInv ==
    ASSUME IInv, NEW query \in queries, NEW h \in Nat,
           NEW as \in OutcomeValues,
           VerifyKeyProof(query, h),
           Concluded(queries \ {query}, query, as),
           \/ UNCHANGED answer
           \/ answer' = {[height |-> h, known |-> query.known]},
           UNCHANGED <<clientHeight, hostHeight, known>>
    PROVE  IInv'
<1>1. /\ queries' = queries \ {query}
      /\ outcome' = [outcome EXCEPT ![query.request] = as]
      /\ uid' = uid
  BY DEF Concluded
<1>2. QueryInv(query)
  BY DEF IInv
<1>3. ASSUME NEW q \in queries'
      PROVE  QueryInv(q)'
  <2>1. QueryInv(q) /\ q.request # query.request
    BY <1>1 DEF IInv
  <2>2. outcome'[q.request] = outcome[q.request]
    BY <1>1, <2>1 DEF IInv, QueryInv
  <2>3. IdSound(q)'
    BY <1>1, <2>1 DEF QueryInv, IdSound
  <2> QED BY <2>1, <2>2, <2>3 DEF QueryInv
<1>4. outcome' \in [Requests -> OutcomeValues]
  BY Zenon, <1>1 DEF IInv
<1>5. /\ AnswersReflectKnowledge'
      /\ \A a \in answer' : a.height \in Nat /\ a.known \in Nat
  <2>1. CASE UNCHANGED answer
    BY <2>1 DEF IInv, AnswersReflectKnowledge
  <2>2. CASE answer' = {[height |-> h, known |-> query.known]}
    <3>1. /\ query.known \in Nat
          /\ query.submissionHeight \in Nat
          /\ query.known < query.submissionHeight
          /\ query.submissionHeight < h
      BY <1>2 DEF QueryInv, VerifyKeyProof
    <3>2. query.known < h
      BY <3>1
    <3> QED BY <2>2, <3>1, <3>2 DEF AnswersReflectKnowledge
  <2> QED BY <2>1, <2>2
<1>6. \A p, q \in queries' : (p.id = q.id \/ p.request = q.request) => p = q
  BY <1>1 DEF IInv
<1> QED BY Zenon, <1>1, <1>3, <1>4, <1>5, <1>6 DEF IInv

LEMMA RetryInv ==
    ASSUME IInv, NEW query \in queries,
           RetryICQRequest(queries \ {query}, query),
           UNCHANGED <<clientHeight, hostHeight, known>>
    PROVE  IInv'
<1> DEFINE store == queries \ {query}
           r == query.request
<1>1. /\ queries' = SetQuery(store, NewQuery(r, TRUE))
      /\ GetQueryUID(TRUE)
      /\ UNCHANGED <<outcome, answer>>
  BY Zenon DEF RetryICQRequest
<1>2. r \in Requests /\ outcome[r] = "none"
  BY DEF IInv, QueryInv
<1>3. store \in SUBSET queries /\ \A q \in store : q.request # r
  BY DEF IInv
<1>4. /\ \A q \in queries' : QueryInv(q)'
      /\ \A p, q \in queries' : (p.id = q.id \/ p.request = q.request) => p = q
      /\ uid' \in Nat \ {0}
  <2> HIDE DEF store, r
  <2>1. \A q \in queries' : outcome'[q.request] = outcome[q.request]
    BY <1>1
  <2> QED BY Zenon, <1>1, <1>2, <1>3, <2>1, StoreNewQuery
<1> QED BY Zenon, <1>1, <1>4 DEF IInv, AnswersReflectKnowledge

LEMMA InitInv == Init => IInv
BY DEF Init, IInv, AnswersReflectKnowledge, OutcomeValues

LEMMA NextInv == IInv /\ [Next]_vars => IInv'
<1> SUFFICES ASSUME IInv, [Next]_vars
             PROVE  IInv'
  OBVIOUS
<1>1. CASE \E r \in Requests : SubmitICQRequest(r)
  BY <1>1, SubmitInv
<1>2. CASE EndBlocker
  BY <1>2, EndBlockerInv
<1>3. CASE Respond
  <2>1. PICK query \in queries, h \in 1 .. hostHeight, contentless \in BOOLEAN :
          SubmitQueryResponse(query, h, contentless)
    BY <1>3 DEF Respond
  <2>2. /\ VerifyKeyProof(query, h)
        /\ UNCHANGED <<clientHeight, hostHeight, known>>
    BY <2>1 DEF SubmitQueryResponse
  <2>3. h \in Nat
    BY DEF IInv
  <2>4. \A as \in Service!Outcomes(query.request) : as \in OutcomeValues
    BY Zenon DEF Service!Outcomes, OutcomeValues
  <2> QED BY Zenon, <2>1, <2>2, <2>3, <2>4, AnswerCases, ConcludedInv, RetryInv,
            CallbackFailsInv
<1>4. CASE HostAdvances
  BY <1>4 DEF HostAdvances, IInv, QueryInv, IdSound, AnswersReflectKnowledge
<1>5. CASE UpdateClient
  BY <1>5 DEF UpdateClient, IInv, QueryInv, IdSound, AnswersReflectKnowledge
<1>6. CASE ProcessAcknowledgement
  BY <1>6 DEF ProcessAcknowledgement, IInv, QueryInv, IdSound, AnswersReflectKnowledge
<1>7. CASE \E query \in queries : TimesOut(query)
  BY <1>7, TimesOutInv
<1>8. CASE UNCHANGED vars
  BY <1>8 DEF vars, IInv, QueryInv, IdSound, AnswersReflectKnowledge
<1> QED BY <1>1, <1>2, <1>3, <1>4, <1>5, <1>6, <1>7, <1>8 DEF Next

LEMMA Invariance == Spec => []IInv
BY InitInv, NextInv, PTL DEF Spec

\* Whatever the requests, relayers and heights: a callback never receives a
\* host state older than what Stride had processed when it asked
\* (VerifyKeyProof against the height recorded by SubmitICQRequest).
THEOREM AnswersFresh == Spec => []AnswersReflectKnowledge
<1>1. IInv => AnswersReflectKnowledge
  BY DEF IInv
<1> QED BY <1>1, Invariance, PTL

-----------------------------------------------------------------------------
(* The refinement: stored queries are the open requests.                   *)

LEMMA SubmitRefines ==
    ASSUME IInv, NEW r \in Requests, SubmitICQRequest(r)
    PROVE  Service!Submit(r)
<1> DEFINE n == NewQuery(r, r \in ForceUnique)
           gone == Replaced(queries, n)
<1>1. /\ queries' = {q \in queries : q.id # n.id} \cup {n}
      /\ n.request = r
      /\ \A q \in queries : q.request \in gone <=> q.id = n.id
      /\ outcome' = [q \in Requests |->
                       IF q \in gone THEN "replaced" ELSE outcome[q]]
  BY SubmitFacts
<1>2. gone = {q.request : q \in {p \in queries : p.id = n.id}}
  BY DEF Replaced
<1>3. n.id = IF r \in ForceUnique THEN <<"uid", uid>> ELSE <<"key", Key[r]>>
  BY DEF NewQuery, GetQueryId
<1>4. r \notin Open /\ outcome[r] = "none"
  BY DEF SubmitICQRequest
<1> HIDE DEF n, gone
<1>5. Open' = (Open \ gone) \cup {r}
  BY <1>1, <1>2 DEF Open
<1>6. ASSUME NEW q \in queries, q.id = n.id
      PROVE  Service!Replaceable(q.request, r)
  <2>1. IdSound(q)
    BY DEF IInv, QueryInv
  <2>2. r \notin ForceUnique
    BY <1>3, <1>6, <2>1, UniqueIsNew DEF IInv
  <2>3. q.id = <<"key", Key[r]>>
    BY <1>3, <1>6, <2>2
  <2>4. q.request \notin ForceUnique /\ q.id = <<"key", Key[q.request]>>
    BY <2>1, <2>3 DEF IdSound
  <2> QED BY <2>2, <2>3, <2>4 DEF Service!Replaceable
<1>7. gone \in SUBSET {q \in Open : Service!Replaceable(q, r)}
  BY <1>2, <1>6 DEF Open
<1> QED BY <1>1, <1>4, <1>5, <1>7 DEF Service!Submit

LEMMA ConcludedRefines ==
    ASSUME IInv, NEW query \in queries,
           NEW as \in Service!Outcomes(query.request),
           Concluded(queries \ {query}, query, as)
    PROVE  Service!Conclude(query.request)
<1>1. /\ queries' = queries \ {query}
      /\ outcome' = [outcome EXCEPT ![query.request] = as]
  BY DEF Concluded
<1>2. Open' = Open \ {query.request}
  BY <1>1 DEF Open, IInv
<1>3. query.request \in Open
  BY DEF Open
<1> QED BY Zenon, <1>1, <1>2, <1>3 DEF Service!Conclude

\* A retried query keeps its request open under another id.
LEMMA RetryRefines ==
    ASSUME IInv, NEW query \in queries,
           RetryICQRequest(queries \ {query}, query)
    PROVE  UNCHANGED <<Open, outcome>>
<1> DEFINE n == NewQuery(query.request, TRUE)
<1>1. queries' = {q \in queries \ {query} : q.id # n.id} \cup {n}
  BY DEF RetryICQRequest, SetQuery
<1>2. n.request = query.request /\ n.id = <<"uid", uid>>
  BY DEF NewQuery, GetQueryId
<1> HIDE DEF n
<1>3. \A q \in queries : q.id # n.id
  BY <1>2, UniqueIsNew DEF IInv, QueryInv
<1>4. queries' = (queries \ {query}) \cup {n}
  BY <1>1, <1>3
<1>5. Open' = Open
  BY <1>2, <1>4 DEF Open
<1> QED BY <1>5 DEF RetryICQRequest

LEMMA FlaggedRefines ==
    ASSUME NEW query \in queries, NEW flagged, flagged.request = query.request,
           queries' = (queries \ {query}) \cup {flagged}
    PROVE  Open' = Open
BY DEF Open

LEMMA FlagsRefine ==
    ASSUME IInv,
           \/ queries' = {[q EXCEPT !.requestSent = TRUE] : q \in queries}
           \/ \E query \in queries :
                \/ queries' = (queries \ {query}) \cup
                                {[query EXCEPT !.timedOut = TRUE]}
                \/ CallbackFails(queries \ {query}, query)
    PROVE  Open' = Open
<1>1. ASSUME NEW q \in queries
      PROVE  /\ [q EXCEPT !.requestSent = TRUE].request = q.request
             /\ [q EXCEPT !.timedOut = TRUE].request = q.request
             /\ [q EXCEPT !.refused = TRUE].request = q.request
  BY FlagSet DEF SameButFlags
<1>2. CASE queries' = {[q EXCEPT !.requestSent = TRUE] : q \in queries}
  <2>1. ASSUME NEW x \in Open PROVE x \in Open'
    <3>1. PICK q \in queries : x = q.request
      BY DEF Open
    <3>2. [q EXCEPT !.requestSent = TRUE] \in queries'
      BY Zenon, <1>2
    <3> QED BY Zenon, <1>1, <3>1, <3>2 DEF Open
  <2>2. ASSUME NEW x \in Open' PROVE x \in Open
    <3>1. PICK p \in queries' : x = p.request
      BY DEF Open
    <3>2. PICK q \in queries : p = [q EXCEPT !.requestSent = TRUE]
      BY <1>2
    <3> QED BY <1>1, <3>1, <3>2 DEF Open
  <2> QED BY <2>1, <2>2
<1>3. ASSUME NEW query \in queries,
             queries' = (queries \ {query}) \cup
                          {[query EXCEPT !.timedOut = TRUE]}
      PROVE  Open' = Open
  BY Zenon, <1>1, <1>3, FlaggedRefines
<1>4. ASSUME NEW query \in queries, CallbackFails(queries \ {query}, query)
      PROVE  Open' = Open
  BY Zenon, <1>1, <1>4, FlaggedRefines DEF CallbackFails
<1> QED BY <1>2, <1>3, <1>4

\* The store of interchain queries implements QueryService: every request
\* concludes at most once, its callback runs only then and only on its own
\* answer, and how it may conclude follows its policy and its uniqueness
\* (SubmitICQRequest, SubmitQueryResponse, HandleQueryTimeout).
THEOREM ImplementsService == Spec => ServiceSpec
<1>1. Init => Service!Init
  BY DEF Init, Service!Init, Open
<1>2. IInv /\ [Next]_vars => [Service!Next]_(Service!serviceVars)
  <2> SUFFICES ASSUME IInv, [Next]_vars
               PROVE  Service!Next \/ UNCHANGED <<Open, outcome>>
    BY DEF Service!serviceVars
  <2>1. CASE \E r \in Requests : SubmitICQRequest(r)
    BY <2>1, SubmitRefines DEF Service!Next
  <2>2. CASE EndBlocker
    BY <2>2, FlagsRefine DEF EndBlocker
  <2>3. CASE Respond
    <3>1. PICK query \in queries, h \in 1 .. hostHeight, contentless \in BOOLEAN :
            SubmitQueryResponse(query, h, contentless)
      BY <2>3 DEF Respond
    <3>2. query.request \in Requests
      BY DEF IInv, QueryInv
    <3>3. CallbackFails(queries \ {query}, query) => UNCHANGED <<Open, outcome>>
      BY Zenon, FlagsRefine DEF CallbackFails
    <3> QED BY Zenon, <3>1, <3>2, <3>3, AnswerCases, ConcludedRefines, RetryRefines
            DEF Service!Next
  <2>4. CASE HostAdvances \/ UpdateClient \/ ProcessAcknowledgement
    BY <2>4 DEF HostAdvances, UpdateClient, ProcessAcknowledgement, Open
  <2>5. CASE \E query \in queries : TimesOut(query)
    BY <2>5, FlagsRefine DEF TimesOut
  <2>6. CASE UNCHANGED vars
    BY <2>6 DEF vars, Open
  <2> QED BY <2>1, <2>2, <2>3, <2>4, <2>5, <2>6 DEF Next
<1> QED BY <1>1, <1>2, Invariance, PTL DEF Spec, ServiceSpec, Service!Spec
=============================================================================
