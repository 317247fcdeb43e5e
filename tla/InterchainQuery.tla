--------------------------- MODULE InterchainQuery ---------------------------
(***************************************************************************)
(* The life of an interchain query (x/interchainquery): it is stored with  *)
(* the height of the light client, the end of the block emits an event for *)
(* it, a relayer answers with a value and a proof at a host height of its  *)
(* choosing, and the answer is verified, matched to the stored query and   *)
(* handed to the callback of the module that asked.                        *)
(*                                                                         *)
(* Requests are the submissions other modules make.  Proof verification    *)
(* is by heights: a proof at height h is checked against the consensus     *)
(* state of h + 1, which the light client has once it reached that height. *)
(* A transaction that fails (unknown connection, bad proof) changes        *)
(* nothing and is not a step.  One that fails in the callback changes      *)
(* nothing either, but the relayer has then answered the event, which is   *)
(* emitted once: refused records it.                                       *)
(***************************************************************************)
EXTENDS Integers, FiniteSets

CONSTANTS
    Requests, Key, ForceUnique, Policy,  \* as in QueryService
    MaxRequests,  \* bound: requests submitted
    MaxLag,       \* bound: how far the host runs ahead of the last submission
    MaxHeight,    \* bound: the last host block
    MaxDelays     \* bound: queries that time out or that a callback asks again

ASSUME QueryAssumptions ==
    /\ ForceUnique \subseteq Requests
    /\ Policy \in [Requests -> {"REJECT", "RETRY", "EXECUTE"}]
    /\ {MaxRequests, MaxLag, MaxHeight, MaxDelays} \subseteq Nat

VARIABLES
    queries,       \* the store: a set of query records with distinct ids
    uid,           \* the counter behind unique ids
    clientHeight,  \* latest height of the light client on Stride
    hostHeight,    \* height of the host chain
    known,         \* latest host block whose effects Stride has processed
    outcome,       \* how each request concluded
    answer,        \* history: the last answer handed to a callback, if any
    delays

vars == <<queries, uid, clientHeight, hostHeight, known, outcome, answer,
          delays>>

Open == {q.request : q \in queries}

Submitted == Open \cup {r \in Requests : outcome[r] # "none"}

-----------------------------------------------------------------------------
(* The store.                                                              *)

GetQueryId(r, forceUnique) ==
    IF forceUnique THEN <<"uid", uid>> ELSE <<"key", Key[r]>>

GetQueryUID(forceUnique) == uid' = IF forceUnique THEN uid + 1 ELSE uid

SetQuery(store, query) ==
    {q \in store : q.id # query.id} \cup {query}

\* known and refused are history: what Stride knew of the host chain when it
\* asked, and that the callback returned an error on an answer.
NewQuery(r, forceUnique) ==
    [id |-> GetQueryId(r, forceUnique), request |-> r,
     submissionHeight |-> clientHeight, requestSent |-> FALSE,
     timedOut |-> FALSE, known |-> known, refused |-> FALSE]

Replaced(store, query) == {q.request : q \in {p \in store : p.id = query.id}}

SubmitICQRequest(r) ==
    /\ r \notin Open
    /\ outcome[r] = "none"
    /\ Cardinality(Submitted) < MaxRequests
    /\ LET unique == r \in ForceUnique
           query == NewQuery(r, unique)
       IN  /\ queries' = SetQuery(queries, query)
           /\ GetQueryUID(unique)
           /\ outcome' = [q \in Requests |->
                            IF q \in Replaced(queries, query)
                            THEN "replaced" ELSE outcome[q]]
    /\ UNCHANGED <<clientHeight, hostHeight, known, answer, delays>>

\* Events are emitted once per stored query.
EndBlocker ==
    /\ \E q \in queries : ~q.requestSent
    /\ queries' = {[q EXCEPT !.requestSent = TRUE] : q \in queries}
    /\ UNCHANGED <<uid, clientHeight, hostHeight, known, outcome, answer,
                   delays>>

-----------------------------------------------------------------------------
(* Answers.  store is the store without the query being answered.          *)

\* Mutant: any height the light client has is good.
VerifyKeyProofAnyHeight(query, h) == h + 1 <= clientHeight

VerifyKeyProof(query, h) ==
    /\ h > query.submissionHeight
    /\ h + 1 <= clientHeight

\* Mutant: the query is deleted and never submitted again.
RetryICQRequestLost(store, query) ==
    /\ queries' = store
    /\ uid' = uid + 1
    /\ UNCHANGED <<outcome, answer>>

RetryICQRequest(store, query) ==
    /\ queries' = SetQuery(store, NewQuery(query.request, TRUE))
    /\ GetQueryUID(TRUE)
    /\ UNCHANGED <<outcome, answer>>

Concluded(store, query, as) ==
    /\ queries' = store
    /\ outcome' = [outcome EXCEPT ![query.request] = as]
    /\ UNCHANGED uid

\* An error in the callback reverts the transaction, the deletion of the query
\* included: it stays in the store with RequestSent set, and no block emits its
\* event again.
CallbackFails(store, query) ==
    /\ queries' = store \cup {[query EXCEPT !.refused = TRUE]}
    /\ UNCHANGED <<uid, outcome, answer>>

\* A callback uses the answer, or asks again, as the delegator-shares callback
\* does when the ledger moved under its query, or fails, as it does when the
\* validator is gone.
InvokeCallback(store, query, h, as) ==
    \/ /\ Concluded(store, query, as)
       /\ answer' = {[height |-> h, known |-> query.known]}
       /\ UNCHANGED delays
    \/ /\ Policy[query.request] = "RETRY"
       /\ delays < MaxDelays
       /\ delays' = delays + 1
       /\ RetryICQRequest(store, query)
    \/ CallbackFails(store, query) /\ UNCHANGED delays

HandleQueryTimeout(store, query, h) ==
    \/ /\ Policy[query.request] = "REJECT"
       /\ Concluded(store, query, "rejected")
       /\ UNCHANGED <<answer, delays>>
    \/ /\ Policy[query.request] = "RETRY"
       /\ RetryICQRequest(store, query)
       /\ UNCHANGED delays
    \/ /\ Policy[query.request] = "EXECUTE"
       /\ InvokeCallback(store, query, h, "late")

\* Mutant: a query that is answered late stays in the store.
SubmitQueryResponseKept(query, h, contentless) ==
    /\ query \in queries
    /\ VerifyKeyProof(query, h)
    /\ \/ /\ contentless
          /\ Concluded(queries \ {query}, query, "contentless")
          /\ UNCHANGED <<answer, delays>>
       \/ /\ ~contentless
          /\ query.timedOut
          /\ HandleQueryTimeout(queries, query, h)
       \/ /\ ~contentless
          /\ ~query.timedOut
          /\ InvokeCallback(queries \ {query}, query, h, "answered")
    /\ UNCHANGED <<clientHeight, hostHeight, known>>

\* The handler of MsgSubmitQueryResponse.  An answer to an id that is not in
\* the store is ignored, so only stored queries are of interest.
SubmitQueryResponse(query, h, contentless) ==
    /\ query \in queries
    /\ VerifyKeyProof(query, h)
    /\ LET store == queries \ {query}
       IN  \/ /\ contentless
              /\ Concluded(store, query, "contentless")
              /\ UNCHANGED <<answer, delays>>
           \/ /\ ~contentless
              /\ query.timedOut
              /\ HandleQueryTimeout(store, query, h)
           \/ /\ ~contentless
              /\ ~query.timedOut
              /\ InvokeCallback(store, query, h, "answered")
    /\ UNCHANGED <<clientHeight, hostHeight, known>>

-----------------------------------------------------------------------------
(* The host chain, its light client, other packets and time.               *)

HostAdvances ==
    /\ \/ hostHeight < MaxLag
       \/ \E q \in queries : hostHeight < q.submissionHeight + MaxLag
    /\ hostHeight < MaxHeight
    /\ hostHeight' = hostHeight + 1
    /\ UNCHANGED <<queries, uid, clientHeight, known, outcome, answer,
                   delays>>

UpdateClient ==
    /\ clientHeight' \in (clientHeight + 1) .. hostHeight
    /\ UNCHANGED <<queries, uid, hostHeight, known, outcome, answer,
                   delays>>

\* An acknowledgement written at host block h is proved like a query answer.
ProcessAcknowledgement ==
    /\ known' \in (known + 1) .. (clientHeight - 1)
    /\ UNCHANGED <<queries, uid, clientHeight, hostHeight, outcome, answer,
                   delays>>

TimesOut(query) ==
    /\ query \in queries
    /\ ~query.timedOut
    /\ delays < MaxDelays
    /\ delays' = delays + 1
    /\ queries' = (queries \ {query}) \cup {[query EXCEPT !.timedOut = TRUE]}
    /\ UNCHANGED <<uid, clientHeight, hostHeight, known, outcome, answer>>

-----------------------------------------------------------------------------
Init ==
    /\ queries = {}
    /\ uid = 1
    /\ clientHeight = 1
    /\ hostHeight = 1
    /\ known = 0
    /\ outcome = [r \in Requests |-> "none"]
    /\ answer = {}
    /\ delays = 0

Respond ==
    \E query \in queries, h \in 1 .. hostHeight, contentless \in BOOLEAN :
      SubmitQueryResponse(query, h, contentless)

Next ==
    \/ \E r \in Requests : SubmitICQRequest(r)
    \/ EndBlocker
    \/ Respond
    \/ HostAdvances
    \/ UpdateClient
    \/ ProcessAcknowledgement
    \/ \E query \in queries : TimesOut(query)

Spec == Init /\ [][Next]_vars

\* A relayer answers the event of a query it has seen, once: nothing makes it
\* answer again when the callback refused.
Answered(r) ==
    \E query \in queries, h \in 1 .. hostHeight :
      /\ query.request = r
      /\ query.requestSent /\ ~query.refused
      /\ SubmitQueryResponse(query, h, FALSE)

\* Blocks are produced on both chains and relayers keep relaying.
FairSpec ==
    /\ Spec
    /\ WF_vars(EndBlocker)
    /\ WF_vars(HostAdvances)
    /\ WF_vars(UpdateClient)
    /\ \A r \in Requests : WF_vars(Answered(r))

-----------------------------------------------------------------------------
(* Properties.                                                             *)

QueryIds ==
    {<<"key", Key[r]>> : r \in Requests} \cup {<<"uid", n>> : n \in 1 .. (uid - 1)}

Query ==
    [id : QueryIds, request : Requests, submissionHeight : 1 .. clientHeight,
     requestSent : BOOLEAN, timedOut : BOOLEAN, known : 0 .. known,
     refused : BOOLEAN]

OutcomeValues ==
    {"none", "answered", "late", "contentless", "rejected", "replaced"}

\* The store holds well-formed queries, one per id (KVStore keyed by the id),
\* and Stride knows of the host chain only what its light client can prove.
TypeOK ==
    /\ queries \subseteq Query
    /\ \A p, q \in queries : p.id = q.id => p = q
    /\ uid \in Nat \ {0}
    /\ hostHeight \in Nat \ {0}
    /\ clientHeight \in 1 .. hostHeight
    /\ known \in 0 .. (clientHeight - 1)
    /\ outcome \in [Requests -> OutcomeValues]
    /\ answer \subseteq [height : 1 .. hostHeight, known : 0 .. known]
    /\ delays \in 0 .. MaxDelays

\* An answer handed to a callback was read from the host chain after every
\* host block whose effects Stride had processed when the (last) query for it
\* was submitted: a callback never sees a host state older than the records it
\* compares that state with (VerifyKeyProof against the submission height).
AnswersReflectKnowledge ==
    \A a \in answer : a.height > a.known

\* The module implements QueryService: a request concludes once, its callback
\* runs only then, a unique query is never replaced, a query to be retried is
\* never rejected and one to be executed never silently expires.
Service == INSTANCE QueryService WITH open <- Open

ServiceSpec == Service!Spec

\* The query of r waits in the store for an answer nobody has to give again.
Refused(r) == \E query \in queries : query.request = r /\ query.refused

\* Every submitted query concludes, through timeouts and retries, when the
\* chains advance and some relayer answers the events, unless its own callback
\* returns an error (SubmitQueryResponse, whose transaction is then reverted).
QueriesConclude ==
    \A r \in Requests : (r \in Open) ~> (outcome[r] # "none" \/ Refused(r))
=============================================================================
