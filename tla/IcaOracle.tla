------------------------------ MODULE IcaOracle ------------------------------
(***************************************************************************)
(* Metrics (redemption rates) pushed to contracts on other chains through  *)
(* interchain accounts (x/icaoracle).  Every metric update is stored and   *)
(* queued for each active oracle; the end of every block submits the       *)
(* queue; the acknowledgement of the ICA removes the metric.               *)
(*                                                                         *)
(* An ICA channel is ordered and a timeout closes it: its packets are then *)
(* neither executed nor acknowledged.  There is one connection to each     *)
(* chain, and channels are numbered in the order they are registered.  A   *)
(* metric's id is its update (key, value and time) and its oracle.  The    *)
(* order in which a block submits metrics is any order.  The light client  *)
(* of a chain may expire and be recovered by governance: while it is       *)
(* expired nothing can be sent to the chain, and nothing that comes back   *)
(* from it can be proved.                                                  *)
(***************************************************************************)
EXTENDS Naturals, Sequences, FiniteSets, SequencesExt

CONSTANTS
    Chains,          \* chains that can have an oracle
    ExpiringClients, \* those whose light client may expire
    Updates,         \* metric updates
    MaxChannels,     \* bound: channels registered to a chain
    MaxUpdates,      \* bound: metric updates queued
    MaxPackets       \* bound: ICAs in flight to a chain that precede an instantiation

ASSUME IcaOracleAssumptions ==
    /\ IsFiniteSet(Updates)
    /\ ExpiringClients \subseteq Chains
    /\ {MaxChannels, MaxUpdates, MaxPackets} \subseteq Nat
    /\ 0 \notin Updates  \* marks an instantiation

VARIABLES
    oracle,    \* the oracles in the store, by chain
    status,    \* the metric store: the status of every metric in it
    queue,     \* the queue index: ids of metrics
    channel,   \* of every chain: channels registered, those of this block, those in
               \* the handshake, the active one, and whether it is open
    packets,   \* ICAs in flight on the open channel, in order
    updates,   \* number of metric updates queued
    expired    \* chains whose light client is expired

vars == <<oracle, status, queue, channel, packets, updates, expired>>

Ids == Updates \X Chains
NoOracle == [added |-> FALSE, channel |-> 0, contract |-> FALSE, active |-> FALSE]
AddedOracle(n) == [added |-> TRUE, channel |-> n, contract |-> FALSE, active |-> FALSE]

\* ValidateICASetup, ValidateContractInstantiated and IsOracleICAChannelOpen.
ICASetup(c) == oracle[c].channel # 0
ICAChannelOpen(c) == channel[c].open /\ channel[c].current = oracle[c].channel
-----------------------------------------------------------------------------
(* The metric store and its queue.                                         *)

\* Mutant: a metric in progress stays in the queue.
QueueWithKept(ids, s) == queue \cup ids
\* The queue after SetMetric of ids with status s.
QueueWith(ids, s) == IF s = "QUEUED" THEN queue \cup ids ELSE queue \ ids

SetMetrics(ids, s) ==
    /\ status' = [id \in ids \cup DOMAIN status |-> IF id \in ids THEN s ELSE status[id]]
    /\ queue' = QueueWith(ids, s)

RemoveMetrics(ids) ==
    /\ status' = [id \in DOMAIN status \ ids |-> status[id]]
    /\ queue' = queue \ ids

QueueMetricUpdate(u) ==
    /\ updates < MaxUpdates
    /\ updates' = updates + 1
    /\ SetMetrics({<<u, c>> : c \in {d \in Chains : oracle[d].active}}, "QUEUED")
    /\ UNCHANGED <<oracle, channel, packets, expired>>
-----------------------------------------------------------------------------
(* The end of a block.                                                     *)

ICA(c, u) == [channel |-> channel[c].current, key |-> oracle[c].channel,
              update |-> u, state |-> "sent"]

\* Metrics of active oracles are marked IN_PROGRESS, whether or not they can be sent.
Submitted == {id \in queue : oracle[id[2]].active}

\* SubmitMetricUpdate sends an ICA: SendTx fails if the client is expired, though the
\* channel is open.
Sendable(c) ==
    ICAChannelOpen(c) /\ ICASetup(c) /\ oracle[c].contract /\ c \notin expired
UpdatesSent(c) == {id[1] : id \in {i \in Submitted : i[2] = c /\ Sendable(c)}}

\* The ICAs to chain c, in the given order of the updates.
ICAs(c, order) == [i \in DOMAIN order |-> ICA(c, order[i])]

\* PostAllQueuedMetrics; the channels registered in this block may then be opened.
EndBlocker(orders) ==
    /\ \A id \in queue : id \in DOMAIN status  \* GetAllQueuedMetrics panics otherwise
    /\ SetMetrics(Submitted, "IN_PROGRESS")
    /\ packets' = [c \in Chains |-> packets[c] \o ICAs(c, orders[c])]
    /\ channel' = [c \in Chains |-> [channel[c] EXCEPT
                                       !.opening = @ \cup channel[c].requested,
                                       !.requested = {}]]
    /\ UNCHANGED <<oracle, updates, expired>>

Orders == {f \in [Chains -> UNION {SetToSeqs(UpdatesSent(c)) : c \in Chains}] :
              \A c \in Chains : f[c] \in SetToSeqs(UpdatesSent(c))}
-----------------------------------------------------------------------------
(* Oracles and their interchain accounts.                                  *)

\* RegisterInterchainAccount, which is refused while the account's channel is open
\* and while the client is expired.
RegisterInterchainAccount(c) ==
    /\ c \notin expired
    /\ channel[c].registered < MaxChannels
    /\ ~channel[c].open
    /\ channel' = [channel EXCEPT ![c].registered = @ + 1,
                                  ![c].requested = @ \cup {channel[c].registered + 1}]

AddOracle(c) ==
    /\ ~oracle[c].added
    /\ \/ /\ channel[c].open
          /\ oracle' = [oracle EXCEPT ![c] = AddedOracle(channel[c].current)]
          /\ UNCHANGED channel
       \/ /\ RegisterInterchainAccount(c)
          /\ oracle' = [oracle EXCEPT ![c] = AddedOracle(0)]
    /\ UNCHANGED <<status, queue, packets, updates, expired>>

\* Mutant: the channel on the oracle is that of the first handshake.
OpenedFirst(c, n) == IF ICASetup(c) THEN oracle[c] ELSE [oracle[c] EXCEPT !.channel = n]
Opened(c, n) == [oracle[c] EXCEPT !.channel = n]

\* The handshake ends: refused by the ICA controller while another channel is open.
OnChanOpenAck(c, n) ==
    /\ c \notin expired
    /\ ~channel[c].open
    /\ n \in channel[c].opening
    /\ channel' = [channel EXCEPT ![c].opening = @ \ {n}, ![c].current = n, ![c].open = TRUE]
    /\ oracle' = IF oracle[c].added THEN [oracle EXCEPT ![c] = Opened(c, n)] ELSE oracle
    /\ UNCHANGED <<status, queue, packets, updates, expired>>

InstantiateOracle(c) ==
    /\ Len(packets[c]) < MaxPackets
    /\ oracle[c].added /\ ~oracle[c].contract
    /\ ICASetup(c)
    /\ channel[c].open /\ c \notin expired
    /\ packets' = [packets EXCEPT ![c] = Append(@, ICA(c, 0))]
    /\ UNCHANGED <<oracle, status, queue, channel, updates, expired>>

\* The metrics that were in progress are queued again.
RestoreOracleICA(c) ==
    /\ oracle[c].added /\ ICASetup(c)
    /\ ~ICAChannelOpen(c)
    /\ RegisterInterchainAccount(c)
    /\ SetMetrics({id \in DOMAIN status : id[2] = c /\ status[id] = "IN_PROGRESS"}, "QUEUED")
    /\ UNCHANGED <<oracle, packets, updates, expired>>

Toggleable(c, active) ==
    oracle[c].added /\ (active => ICASetup(c) /\ oracle[c].contract /\ ICAChannelOpen(c))

ToggleOracle(c, active) ==
    /\ Toggleable(c, active)
    /\ oracle' = [oracle EXCEPT ![c].active = active]
    /\ UNCHANGED <<status, queue, channel, packets, updates, expired>>

\* Mutant: only the metrics still in the queue are removed with their oracle.
MetricsOfQueued(c) == {id \in queue : id[2] = c}
MetricsOf(c) == {id \in DOMAIN status : id[2] = c}

RemoveOracle(c) ==
    /\ oracle[c].added
    /\ oracle' = [oracle EXCEPT ![c] = NoOracle]
    /\ RemoveMetrics(MetricsOf(c))
    /\ UNCHANGED <<channel, packets, updates, expired>>
-----------------------------------------------------------------------------
(* ICAs and their callbacks.                                               *)

\* The oracle chain executes the packets in order.
HostExecutes(c, result) ==
    \E i \in DOMAIN packets[c] :
        /\ packets[c][i].state = "sent"
        /\ \A j \in 1 .. i - 1 : packets[c][j].state # "sent"
        /\ packets' = [packets EXCEPT ![c][i].state = result]
        /\ UNCHANGED <<oracle, status, queue, channel, updates, expired>>

\* InstantiateOracleCallback fails, and the acknowledgement with it, if the oracle
\* was removed.
InstantiateOracleCallback(c, p) ==
    /\ \/ p.state = "failure" /\ UNCHANGED oracle
       \/ /\ p.state = "success"
          /\ oracle[c].added
          /\ oracle' = [oracle EXCEPT ![c].contract = TRUE, ![c].active = TRUE]
    /\ UNCHANGED <<status, queue>>

\* Mutant: a metric is removed only if the contract accepted it.
UpdateOracleCallbackSuccess(c, p) ==
    /\ IF p.state = "success" THEN RemoveMetrics({<<p.update, c>>})
                              ELSE UNCHANGED <<status, queue>>
    /\ UNCHANGED oracle
UpdateOracleCallback(c, p) ==
    /\ RemoveMetrics({<<p.update, c>>})
    /\ UNCHANGED oracle

\* A packet whose callback data was stored under another channel has no callback.
CallRegisteredICACallback(c, p) ==
    \/ p.key # p.channel /\ UNCHANGED <<oracle, status, queue>>
    \/ p.key = p.channel /\ p.update = 0 /\ InstantiateOracleCallback(c, p)
    \/ p.key = p.channel /\ p.update # 0 /\ UpdateOracleCallback(c, p)

OnAcknowledgementPacket(c) ==
    /\ c \notin expired
    /\ packets[c] # <<>> /\ Head(packets[c]).state # "sent"
    /\ CallRegisteredICACallback(c, Head(packets[c]))
    /\ packets' = [packets EXCEPT ![c] = Tail(@)]
    /\ UNCHANGED <<channel, updates, expired>>

\* A packet times out: both callbacks do nothing, and the channel is closed.
OnTimeoutPacket(c) ==
    /\ c \notin expired
    /\ \E i \in DOMAIN packets[c] : packets[c][i].state = "sent"
    /\ channel' = [channel EXCEPT ![c].open = FALSE]
    /\ packets' = [packets EXCEPT ![c] = <<>>]
    /\ UNCHANGED <<oracle, status, queue, updates, expired>>

\* The light client expires, and is replaced by governance.
ClientExpires(c) ==
    /\ c \in ExpiringClients \ expired
    /\ expired' = expired \cup {c}
    /\ UNCHANGED <<oracle, status, queue, channel, packets, updates>>

ClientRecovers(c) ==
    /\ c \in expired
    /\ expired' = expired \ {c}
    /\ UNCHANGED <<oracle, status, queue, channel, packets, updates>>
-----------------------------------------------------------------------------
Init ==
    /\ oracle = [c \in Chains |-> NoOracle]
    /\ status = [id \in {} |-> "QUEUED"]
    /\ queue = {}
    /\ channel = [c \in Chains |-> [registered |-> 0, requested |-> {}, opening |-> {},
                                    current |-> 0, open |-> FALSE]]
    /\ packets = [c \in Chains |-> <<>>]
    /\ updates = 0
    /\ expired = {}

Next ==
    \/ \E u \in Updates : QueueMetricUpdate(u)
    \/ \E orders \in Orders : EndBlocker(orders)
    \/ \E c \in Chains :
        \/ AddOracle(c)
        \/ \E n \in channel[c].opening : OnChanOpenAck(c, n)
        \/ InstantiateOracle(c)
        \/ RestoreOracleICA(c)
        \/ \E active \in BOOLEAN : ToggleOracle(c, active)
        \/ RemoveOracle(c)
        \/ \E result \in {"success", "failure"} : HostExecutes(c, result)
        \/ OnAcknowledgementPacket(c)
        \/ OnTimeoutPacket(c)
        \/ ClientExpires(c)
        \/ ClientRecovers(c)

Spec == Init /\ [][Next]_vars

\* Blocks are produced, handshakes completed, packets executed and acknowledged,
\* and somebody restores a closed account (anybody may).
Fairness ==
    /\ WF_vars(\E orders \in Orders : EndBlocker(orders))
    /\ \A c \in Chains :
        /\ WF_vars(\E n \in channel[c].opening : OnChanOpenAck(c, n))
        /\ WF_vars(RestoreOracleICA(c))
        /\ WF_vars(\E result \in {"success", "failure"} : HostExecutes(c, result))
        /\ WF_vars(OnAcknowledgementPacket(c))

FairSpec == Spec /\ Fairness
-----------------------------------------------------------------------------
TypeOK ==
    /\ oracle \in [Chains -> [added : BOOLEAN, channel : 0 .. MaxChannels,
                              contract : BOOLEAN, active : BOOLEAN]]
    /\ DOMAIN status \subseteq Ids /\ queue \subseteq Ids
    /\ \A id \in DOMAIN status : status[id] \in {"QUEUED", "IN_PROGRESS"}
    /\ channel \in [Chains -> [registered : 0 .. MaxChannels,
                               requested : SUBSET (1 .. MaxChannels),
                               opening : SUBSET (1 .. MaxChannels),
                               current : 0 .. MaxChannels, open : BOOLEAN]]
    /\ packets \in [Chains -> Seq([channel : 1 .. MaxChannels, key : 1 .. MaxChannels,
                                   update : Updates \cup {0},
                                   state : {"sent", "success", "failure"}])]
    /\ updates \in 0 .. MaxUpdates
    /\ expired \subseteq Chains

\* The queue index holds exactly the metrics whose status is QUEUED, over
\* resubmissions, callbacks, restores and removals: the end of a block never panics
\* on a metric that is in the queue and not in the store, and no QUEUED metric is
\* forgotten.
QueueMatchesStore == queue = {id \in DOMAIN status : status[id] = "QUEUED"}

\* Whatever the handshakes, closures, removals and additions, the channel on an
\* oracle is the one its ICAs are sent on: callback data is stored under the channel
\* that the acknowledgement comes back on, so every acknowledgement finds it.
CallbacksFound ==
    \A c \in Chains :
        /\ oracle[c].channel \in {0, channel[c].current}
        /\ oracle[c].added /\ channel[c].open => oracle[c].channel = channel[c].current
        /\ \A i \in DOMAIN packets[c] : packets[c][i].key = packets[c][i].channel

\* An active oracle has a contract, and every metric has an oracle with one: no
\* metric outlives the oracle it was queued for.
MetricsHaveOracles ==
    /\ \A c \in Chains : oracle[c].active => oracle[c].added /\ oracle[c].contract
    /\ \A id \in DOMAIN status : oracle[id[2]].added /\ oracle[id[2]].contract

Ready(c) == oracle[c].active /\ ICAChannelOpen(c) /\ c \notin expired

\* A metric that is queued while its oracle is active, its channel open and its
\* client live leaves the store, accepted or refused by the contract, unless the
\* oracle is deactivated, the channel closes or the client expires meanwhile.  The
\* last exception is needed: a metric that is submitted while the client is expired
\* is IN_PROGRESS with no ICA, and stays so after the client is recovered.
QueuedMetricsResolved ==
    \A id \in Ids : (id \in queue /\ Ready(id[2])) ~> (id \notin DOMAIN status \/ ~Ready(id[2]))

\* A metric in progress, for an active oracle with an open channel, has an ICA in
\* flight: metrics that were left when a channel closed are queued again once it is
\* restored (icaoracle.go:103).
MetricsResubmitted ==
    \A id \in DOMAIN status :
        (status[id] = "IN_PROGRESS" /\ Ready(id[2])) =>
            \E i \in DOMAIN packets[id[2]] : packets[id[2]][i].update = id[1]
=============================================================================
