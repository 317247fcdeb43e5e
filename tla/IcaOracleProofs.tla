-------------------------- MODULE IcaOracleProofs --------------------------
(***************************************************************************)
(* For any number of chains, updates, channels and packets: the queue      *)
(* agrees with the metric store, every acknowledgement finds its callback, *)
(* and no metric outlives its oracle.  The three are one inductive         *)
(* invariant with the types and with what a removed oracle looks like:     *)
(* that a handshake which ends after a removal leaves no channel behind is *)
(* what keeps the channel of an oracle that is added again right.          *)
(***************************************************************************)
EXTENDS IcaOracle, FiniteSetTheorems, TLAPS

Packet == [channel : 1 .. MaxChannels, key : 1 .. MaxChannels,
           update : Updates \cup {0}, state : {"sent", "success", "failure"}]

ChannelState == [registered : 0 .. MaxChannels, requested : SUBSET (1 .. MaxChannels),
                 opening : SUBSET (1 .. MaxChannels), current : 0 .. MaxChannels,
                 open : BOOLEAN]

RemovedOracles == \A c \in Chains : ~oracle[c].added => oracle[c] = NoOracle

IInv == TypeOK /\ QueueMatchesStore /\ CallbacksFound /\ MetricsHaveOracles /\ RemovedOracles

\* SetMetric and UpdateMetricStatus keep the queue in step with the store.
LEMMA SetMetricsKeepsQueue ==
    ASSUME QueueMatchesStore, NEW ids, NEW s \in {"QUEUED", "IN_PROGRESS"},
           SetMetrics(ids, s)
    PROVE  QueueMatchesStore'
BY DEF QueueMatchesStore, SetMetrics, QueueWith

\* So does RemoveMetric.
LEMMA RemoveMetricsKeepsQueue ==
    ASSUME QueueMatchesStore, NEW ids, RemoveMetrics(ids)
    PROVE  QueueMatchesStore'
BY DEF QueueMatchesStore, RemoveMetrics

\* SetMetric keeps the types of the store and the queue.
LEMMA SetMetricsTypes ==
    ASSUME TypeOK, NEW ids \in SUBSET Ids, NEW s \in {"QUEUED", "IN_PROGRESS"},
           SetMetrics(ids, s)
    PROVE  /\ DOMAIN status' = ids \cup DOMAIN status
           /\ DOMAIN status' \subseteq Ids /\ queue' \subseteq Ids
           /\ \A id \in DOMAIN status' : status'[id] \in {"QUEUED", "IN_PROGRESS"}
BY DEF TypeOK, SetMetrics, QueueWith

\* RemoveMetric keeps the types of the store and the queue.
LEMMA RemoveMetricsTypes ==
    ASSUME TypeOK, NEW ids, RemoveMetrics(ids)
    PROVE  /\ DOMAIN status' = DOMAIN status \ ids
           /\ DOMAIN status' \subseteq Ids /\ queue' \subseteq Ids
           /\ \A id \in DOMAIN status' : status'[id] \in {"QUEUED", "IN_PROGRESS"}
BY DEF TypeOK, RemoveMetrics

\* The ICAs that the end of a block submits to a chain are well formed, and their
\* callback data is stored under the channel they are sent on.
LEMMA BlockICAs ==
    ASSUME IInv, NEW orders \in Orders, NEW c \in Chains
    PROVE  /\ ICAs(c, orders[c]) \in Seq(Packet)
           /\ \A i \in DOMAIN ICAs(c, orders[c]) :
                 ICAs(c, orders[c])[i].key = ICAs(c, orders[c])[i].channel
<1> DEFINE S == UpdatesSent(c)
           order == orders[c]
<1>1. S \subseteq Updates
  BY DEF UpdatesSent, Submitted, IInv, TypeOK, Ids
<1>2. IsFiniteSet(S)
  BY <1>1, IcaOracleAssumptions, FS_Subset
<1>3. Cardinality(S) \in Nat
  BY <1>2, FS_CardinalityType
<1>4. order \in [1 .. Cardinality(S) -> S]
  BY DEF Orders, SetToSeqs
<1>5. ASSUME NEW i \in DOMAIN order
      PROVE  ICA(c, order[i]) \in Packet /\ ICA(c, order[i]).key = ICA(c, order[i]).channel
  <2>1. order[i] \in S
    BY Zenon, <1>4, <1>5
  <2>2. Sendable(c)
    BY <2>1 DEF UpdatesSent
  <2>3. /\ oracle[c].channel \in 1 .. MaxChannels
        /\ channel[c].current = oracle[c].channel
    BY <2>2 DEF Sendable, ICAChannelOpen, ICASetup, IInv, TypeOK
  <2> QED BY <2>1, <2>3, <1>1 DEF ICA, Packet
<1>6. ICAs(c, order) \in [1 .. Cardinality(S) -> Packet]
  BY Zenon, <1>4, <1>5 DEF ICAs
<1>7. \A i \in DOMAIN ICAs(c, order) : ICAs(c, order)[i].key = ICAs(c, order)[i].channel
  BY <1>5 DEF ICAs
<1> QED BY <1>3, <1>6, <1>7

\* The invariant holds in the initial state.
LEMMA InitInv == Init => IInv
<1> SUFFICES ASSUME Init PROVE IInv
  OBVIOUS
<1>1. TypeOK
  BY IcaOracleAssumptions DEF Init, TypeOK, NoOracle
<1> QED
  BY <1>1 DEF Init, IInv, QueueMatchesStore, CallbacksFound, MetricsHaveOracles,
              RemovedOracles, NoOracle

\* A metric update preserves the invariant.
LEMMA QueueMetricUpdateInv ==
    ASSUME IInv, NEW u \in Updates, QueueMetricUpdate(u)
    PROVE  IInv'
<1> DEFINE ids == {<<u, c>> : c \in {d \in Chains : oracle[d].active}}
<1>1. ids \in SUBSET Ids /\ SetMetrics(ids, "QUEUED")
  BY DEF QueueMetricUpdate, Ids
<1>2. QueueMatchesStore'
  BY <1>1, SetMetricsKeepsQueue DEF IInv
<1>3. TypeOK' /\ DOMAIN status' = ids \cup DOMAIN status
  <2>1. /\ DOMAIN status' = ids \cup DOMAIN status
        /\ DOMAIN status' \subseteq Ids /\ queue' \subseteq Ids
        /\ \A id \in DOMAIN status' : status'[id] \in {"QUEUED", "IN_PROGRESS"}
    BY Zenon, <1>1, SetMetricsTypes DEF IInv
  <2>2. updates' \in 0 .. MaxUpdates
    BY IcaOracleAssumptions DEF QueueMetricUpdate, IInv, TypeOK
  <2> QED BY Zenon, <2>1, <2>2 DEF QueueMetricUpdate, IInv, TypeOK
<1>4. MetricsHaveOracles'
  <2>1. \A id \in ids : oracle[id[2]].active /\ id[2] \in Chains
    OBVIOUS
  <2>2. oracle' = oracle
    BY Zenon DEF QueueMetricUpdate
  <2>3. MetricsHaveOracles
    BY Zenon DEF IInv
  <2>4. \A id \in ids : oracle[id[2]].added /\ oracle[id[2]].contract
    BY Zenon, <2>1, <2>3 DEF MetricsHaveOracles
  <2>5. \A id \in DOMAIN status' : oracle[id[2]].added /\ oracle[id[2]].contract
    BY Zenon, <1>3, <2>3, <2>4 DEF MetricsHaveOracles
  <2> QED BY Zenon, <2>2, <2>3, <2>5 DEF MetricsHaveOracles
<1> QED
  BY <1>2, <1>3, <1>4 DEF QueueMetricUpdate, IInv, CallbacksFound, RemovedOracles

\* The end of a block preserves the invariant.
LEMMA EndBlockerInv ==
    ASSUME IInv, NEW orders \in Orders, EndBlocker(orders)
    PROVE  IInv'
<1>1. Submitted \in SUBSET Ids /\ Submitted \subseteq DOMAIN status
      /\ SetMetrics(Submitted, "IN_PROGRESS")
  BY Zenon DEF EndBlocker, Submitted, IInv, TypeOK, QueueMatchesStore
<1>2. QueueMatchesStore'
  BY <1>1, SetMetricsKeepsQueue DEF IInv
<1>3. /\ DOMAIN status' = DOMAIN status
      /\ queue' \subseteq Ids
      /\ \A id \in DOMAIN status' : status'[id] \in {"QUEUED", "IN_PROGRESS"}
  <2>1. /\ DOMAIN status' = Submitted \cup DOMAIN status /\ queue' \subseteq Ids
        /\ \A id \in DOMAIN status' : status'[id] \in {"QUEUED", "IN_PROGRESS"}
    BY <1>1, SetMetricsTypes DEF IInv
  <2> QED BY <1>1, <2>1
<1>4. ASSUME NEW c \in Chains
      PROVE  /\ packets'[c] \in Seq(Packet)
             /\ \A i \in DOMAIN packets'[c] : packets'[c][i].key = packets'[c][i].channel
  <2> DEFINE old == packets[c]
             new == ICAs(c, orders[c])
  <2>1. /\ old \in Seq(Packet) /\ new \in Seq(Packet)
        /\ \A i \in DOMAIN new : new[i].key = new[i].channel
        /\ \A i \in DOMAIN old : old[i].key = old[i].channel
    BY Zenon, BlockICAs DEF IInv, TypeOK, Packet, CallbacksFound
  <2>2. packets'[c] = old \o new
    BY Zenon DEF EndBlocker
  <2> HIDE DEF old, new
  <2>3. ASSUME NEW i \in DOMAIN (old \o new)
        PROVE  (old \o new)[i].key = (old \o new)[i].channel
    <3>1. CASE i \in DOMAIN old
      BY <2>1, <3>1
    <3>2. CASE i \notin DOMAIN old
      <4>2. /\ Len(old) \in Nat /\ DOMAIN old = 1 .. Len(old)
            /\ Len(new) \in Nat /\ DOMAIN new = 1 .. Len(new)
        BY <2>1
      <4>3. i \in 1 .. Len(old) + Len(new)
        BY <2>1, <2>3
      <4>4. i > Len(old) /\ i - Len(old) \in 1 .. Len(new)
        BY <3>2, <4>2, <4>3
      <4>1. i - Len(old) \in DOMAIN new /\ (old \o new)[i] = new[i - Len(old)]
        BY <2>1, <4>2, <4>3, <4>4
      <4> QED BY Zenon, <2>1, <4>1
    <3> QED BY <3>1, <3>2
  <2> QED BY <2>1, <2>2, <2>3
<1>5. channel' \in [Chains -> ChannelState]
      /\ \A c \in Chains : /\ channel'[c].current = channel[c].current
                           /\ channel'[c].open = channel[c].open
  BY Zenon DEF EndBlocker, IInv, TypeOK, ChannelState
<1>6. packets' \in [Chains -> Seq(Packet)]
  BY Zenon, <1>4 DEF EndBlocker
<1>7. TypeOK'
  BY Zenon, <1>3, <1>5, <1>6 DEF EndBlocker, IInv, TypeOK, Packet, ChannelState
<1>8. CallbacksFound'
  BY Zenon, <1>4, <1>5 DEF EndBlocker, IInv, CallbacksFound
<1> QED
  BY Zenon, <1>2, <1>3, <1>7, <1>8 DEF EndBlocker, IInv, MetricsHaveOracles, RemovedOracles

\* Registering an account keeps the types of the channels and opens none.
LEMMA RegisterTypes ==
    ASSUME TypeOK, NEW c \in Chains, RegisterInterchainAccount(c)
    PROVE  /\ channel' \in [Chains -> ChannelState]
           /\ \A d \in Chains : /\ channel'[d].current = channel[d].current
                                /\ channel'[d].open = channel[d].open
           /\ ~channel[c].open
<1>1. channel[c].registered + 1 \in 1 .. MaxChannels
  BY IcaOracleAssumptions DEF TypeOK, RegisterInterchainAccount
<1> DEFINE new == [channel[c] EXCEPT !.registered = @ + 1,
                                    !.requested = @ \cup {channel[c].registered + 1}]
<1>2. channel \in [Chains -> ChannelState]
  BY DEF TypeOK, ChannelState
<1>3. new \in ChannelState /\ new.current = channel[c].current /\ new.open = channel[c].open
  <2> DEFINE n == channel[c].registered + 1
             r == channel[c].requested \cup {n}
  <2>1. channel[c] \in ChannelState
    BY <1>2
  <2>2. n \in 0 .. MaxChannels /\ r \in SUBSET (1 .. MaxChannels)
    BY <1>1, <2>1 DEF ChannelState
  <2>3. new = [channel[c] EXCEPT !.registered = n, !.requested = r]
    OBVIOUS
  <2> HIDE DEF n, r, new
  <2> QED BY Zenon, <2>1, <2>2, <2>3 DEF ChannelState
<1>4. channel' = [channel EXCEPT ![c] = new]
  BY Zenon, <1>2 DEF RegisterInterchainAccount, ChannelState
<1> HIDE DEF new
<1> QED BY Zenon, <1>2, <1>3, <1>4 DEF RegisterInterchainAccount

\* Adding an oracle preserves the invariant, also one that was removed before.
LEMMA AddOracleInv ==
    ASSUME IInv, NEW c \in Chains, AddOracle(c)
    PROVE  IInv'
<1>1. CASE /\ channel[c].open
           /\ oracle' = [oracle EXCEPT ![c] = AddedOracle(channel[c].current)]
           /\ UNCHANGED channel
  <2>1. channel[c].current \in 0 .. MaxChannels
    BY DEF IInv, TypeOK
  <2>2. /\ oracle' \in [Chains -> [added : BOOLEAN, channel : 0 .. MaxChannels,
                                   contract : BOOLEAN, active : BOOLEAN]]
        /\ oracle'[c].added /\ oracle'[c].channel = channel[c].current /\ ~oracle'[c].active
        /\ \A d \in Chains \ {c} : oracle'[d] = oracle[d]
    BY <1>1, <2>1 DEF AddedOracle, IInv, TypeOK
  <2>3. \A id \in DOMAIN status : id[2] \in Chains \ {c}
    BY DEF AddOracle, IInv, TypeOK, MetricsHaveOracles, Ids
  <2>4. MetricsHaveOracles'
    BY <2>2, <2>3 DEF AddOracle, IInv, MetricsHaveOracles
  <2>5. CallbacksFound'
    BY <1>1, <2>2 DEF AddOracle, IInv, CallbacksFound
  <2> QED
    BY Zenon, <1>1, <2>2, <2>4, <2>5 DEF AddOracle, IInv, TypeOK, QueueMatchesStore, RemovedOracles
<1>2. CASE RegisterInterchainAccount(c) /\ oracle' = [oracle EXCEPT ![c] = AddedOracle(0)]
  <2>1. 0 \in 0 .. MaxChannels
    BY IcaOracleAssumptions
  <2>2. /\ channel' \in [Chains -> ChannelState]
        /\ \A d \in Chains : /\ channel'[d].current = channel[d].current
                             /\ channel'[d].open = channel[d].open
        /\ ~channel[c].open
    BY <1>2, RegisterTypes DEF IInv
  <2>3. /\ oracle' \in [Chains -> [added : BOOLEAN, channel : 0 .. MaxChannels,
                                   contract : BOOLEAN, active : BOOLEAN]]
        /\ oracle'[c].added /\ oracle'[c].channel = 0 /\ ~oracle'[c].active
        /\ \A d \in Chains \ {c} : oracle'[d] = oracle[d]
    BY <1>2, <2>1 DEF AddedOracle, IInv, TypeOK
  <2>4. \A id \in DOMAIN status : id[2] \in Chains \ {c}
    BY DEF AddOracle, IInv, TypeOK, MetricsHaveOracles, Ids
  <2>5. MetricsHaveOracles'
    BY <2>3, <2>4 DEF AddOracle, IInv, MetricsHaveOracles
  <2>6. CallbacksFound'
    BY <2>2, <2>3 DEF AddOracle, IInv, CallbacksFound
  <2>7. TypeOK'
    BY Zenon, <2>2, <2>3 DEF AddOracle, IInv, TypeOK, ChannelState
  <2>8. QueueMatchesStore' /\ RemovedOracles'
    BY <2>3 DEF AddOracle, IInv, QueueMatchesStore, RemovedOracles
  <2> QED
    BY <2>5, <2>6, <2>7, <2>8 DEF IInv
<1> QED BY <1>1, <1>2 DEF AddOracle

\* A channel that opens is the oracle's from then on.
LEMMA OnChanOpenAckInv ==
    ASSUME IInv, NEW c \in Chains, NEW n \in channel[c].opening, OnChanOpenAck(c, n)
    PROVE  IInv'
<1>1. n \in 1 .. MaxChannels /\ n \in 0 .. MaxChannels
  BY DEF IInv, TypeOK
<1>2. /\ channel' \in [Chains -> ChannelState]
      /\ channel'[c].current = n
      /\ \A d \in Chains \ {c} : channel'[d] = channel[d]
  <2> DEFINE o == channel[c].opening \ {n}
             new == [channel[c] EXCEPT !.opening = o, !.current = n, !.open = TRUE]
  <2>1. channel \in [Chains -> ChannelState] /\ channel[c] \in ChannelState
    BY DEF IInv, TypeOK, ChannelState
  <2>2. o \in SUBSET (1 .. MaxChannels)
    BY <2>1 DEF ChannelState
  <2>3. new \in ChannelState /\ new.current = n
    <3> HIDE DEF o
    <3> QED BY Zenon, <1>1, <2>1, <2>2 DEF ChannelState
  <2>4. channel' = [channel EXCEPT ![c] = new]
    BY <2>1 DEF OnChanOpenAck, ChannelState
  <2> HIDE DEF new
  <2> QED BY <2>1, <2>3, <2>4
<1>3. /\ oracle' \in [Chains -> [added : BOOLEAN, channel : 0 .. MaxChannels,
                                 contract : BOOLEAN, active : BOOLEAN]]
      /\ \A d \in Chains : /\ oracle'[d].added = oracle[d].added
                           /\ oracle'[d].contract = oracle[d].contract
                           /\ oracle'[d].active = oracle[d].active
                           /\ d # c \/ ~oracle[d].added => oracle'[d] = oracle[d]
      /\ oracle[c].added => oracle'[c].channel = n
  BY Zenon, <1>1 DEF OnChanOpenAck, Opened, IInv, TypeOK
<1>4. ~oracle[c].added => oracle'[c].channel = 0
  BY <1>3 DEF IInv, RemovedOracles, NoOracle
<1>5. CallbacksFound'
  BY <1>2, <1>3, <1>4 DEF OnChanOpenAck, IInv, CallbacksFound
<1>6. TypeOK'
  BY Zenon, <1>2, <1>3 DEF OnChanOpenAck, IInv, TypeOK, ChannelState
<1>7. MetricsHaveOracles'
  BY <1>3 DEF OnChanOpenAck, IInv, TypeOK, MetricsHaveOracles, Ids
<1> QED
  BY <1>3, <1>5, <1>6, <1>7 DEF OnChanOpenAck, IInv, QueueMatchesStore, RemovedOracles

\* An instantiation is keyed under the channel it is sent on.
LEMMA InstantiateOracleInv ==
    ASSUME IInv, NEW c \in Chains, InstantiateOracle(c)
    PROVE  IInv'
<1>1. oracle[c].channel = channel[c].current /\ oracle[c].channel \in 1 .. MaxChannels
  BY DEF InstantiateOracle, ICASetup, IInv, TypeOK, CallbacksFound
<1>2. ICA(c, 0) \in Packet /\ ICA(c, 0).key = ICA(c, 0).channel
  BY <1>1 DEF ICA, Packet
<1> DEFINE old == packets[c]
<1>3. old \in Seq(Packet) /\ \A i \in DOMAIN old : old[i].key = old[i].channel
  BY Zenon DEF IInv, TypeOK, Packet, CallbacksFound
<1>4. packets' = [packets EXCEPT ![c] = Append(old, ICA(c, 0))]
  BY DEF InstantiateOracle
<1>5. /\ Append(old, ICA(c, 0)) \in Seq(Packet)
      /\ \A i \in DOMAIN Append(old, ICA(c, 0)) :
            Append(old, ICA(c, 0))[i].key = Append(old, ICA(c, 0))[i].channel
  <2> HIDE DEF old
  <2> QED BY <1>2, <1>3
<1>6. packets' \in [Chains -> Seq(Packet)]
      /\ \A d \in Chains, i \in Nat : i \in DOMAIN packets'[d] =>
            packets'[d][i].key = packets'[d][i].channel
  <2> HIDE DEF old
  <2>1. packets \in [Chains -> Seq(Packet)]
        /\ \A d \in Chains : \A i \in DOMAIN packets[d] : packets[d][i].key = packets[d][i].channel
    BY Zenon DEF IInv, TypeOK, Packet, CallbacksFound
  <2> QED BY <1>4, <1>5, <2>1
<1>7. CallbacksFound'
  <2>1. \A d \in Chains : DOMAIN packets'[d] \subseteq Nat
    BY <1>6
  <2> QED BY <1>6, <2>1 DEF InstantiateOracle, IInv, CallbacksFound
<1> QED
  BY Zenon, <1>6, <1>7 DEF InstantiateOracle, IInv, TypeOK, Packet, QueueMatchesStore,
                    MetricsHaveOracles, RemovedOracles

\* Restoring an account queues metrics that were stored.
LEMMA RestoreOracleICAInv ==
    ASSUME IInv, NEW c \in Chains, RestoreOracleICA(c)
    PROVE  IInv'
<1> DEFINE ids == {id \in DOMAIN status : id[2] = c /\ status[id] = "IN_PROGRESS"}
<1>1. ids \in SUBSET Ids /\ SetMetrics(ids, "QUEUED")
  BY DEF RestoreOracleICA, IInv, TypeOK
<1>2. QueueMatchesStore'
  BY Zenon, <1>1, SetMetricsKeepsQueue DEF IInv
<1>3. /\ DOMAIN status' = ids \cup DOMAIN status /\ queue' \subseteq Ids
      /\ \A id \in DOMAIN status' : status'[id] \in {"QUEUED", "IN_PROGRESS"}
  BY Zenon, <1>1, SetMetricsTypes DEF IInv
<1>4. DOMAIN status' = DOMAIN status
  BY <1>3
<1>5. /\ channel' \in [Chains -> ChannelState]
      /\ \A d \in Chains : /\ channel'[d].current = channel[d].current
                           /\ channel'[d].open = channel[d].open
  BY RegisterTypes DEF RestoreOracleICA, IInv
<1>6. TypeOK'
  BY Zenon, <1>3, <1>4, <1>5 DEF RestoreOracleICA, IInv, TypeOK, ChannelState
<1>7. CallbacksFound'
  BY <1>5 DEF RestoreOracleICA, IInv, CallbacksFound
<1> QED
  BY <1>2, <1>4, <1>6, <1>7 DEF RestoreOracleICA, IInv, MetricsHaveOracles, RemovedOracles

\* Toggling an oracle preserves the invariant.
LEMMA ToggleOracleInv ==
    ASSUME IInv, NEW c \in Chains, NEW active \in BOOLEAN, ToggleOracle(c, active)
    PROVE  IInv'
<1>1. /\ oracle' \in [Chains -> [added : BOOLEAN, channel : 0 .. MaxChannels,
                                 contract : BOOLEAN, active : BOOLEAN]]
      /\ \A d \in Chains : /\ oracle'[d].added = oracle[d].added
                           /\ oracle'[d].contract = oracle[d].contract
                           /\ oracle'[d].channel = oracle[d].channel
                           /\ d # c => oracle'[d] = oracle[d]
      /\ oracle'[c].active = active
  <2>1. oracle' = [oracle EXCEPT ![c] = [oracle[c] EXCEPT !.active = active]]
    BY DEF ToggleOracle, IInv, TypeOK
  <2>2. oracle \in [Chains -> [added : BOOLEAN, channel : 0 .. MaxChannels,
                               contract : BOOLEAN, active : BOOLEAN]]
    BY DEF IInv, TypeOK
  <2> QED BY <2>1, <2>2
<1>2. oracle[c].added /\ (active => oracle[c].contract)
  BY DEF ToggleOracle, Toggleable
<1>3. MetricsHaveOracles'
  BY <1>1, <1>2 DEF ToggleOracle, IInv, TypeOK, MetricsHaveOracles, Ids
<1>4. CallbacksFound' /\ RemovedOracles'
  BY <1>1, <1>2 DEF ToggleOracle, IInv, CallbacksFound, RemovedOracles
<1> QED
  BY Zenon, <1>1, <1>3, <1>4 DEF ToggleOracle, IInv, TypeOK, QueueMatchesStore

\* The metrics of an oracle go with it.
LEMMA RemoveOracleInv ==
    ASSUME IInv, NEW c \in Chains, RemoveOracle(c)
    PROVE  IInv'
<1>1. RemoveMetrics(MetricsOf(c))
  BY DEF RemoveOracle
<1>2. QueueMatchesStore'
  BY <1>1, RemoveMetricsKeepsQueue DEF IInv
<1>3. /\ DOMAIN status' = DOMAIN status \ MetricsOf(c)
      /\ DOMAIN status' \subseteq Ids /\ queue' \subseteq Ids
      /\ \A id \in DOMAIN status' : status'[id] \in {"QUEUED", "IN_PROGRESS"}
  BY <1>1, RemoveMetricsTypes DEF IInv
<1>4. /\ oracle' \in [Chains -> [added : BOOLEAN, channel : 0 .. MaxChannels,
                                 contract : BOOLEAN, active : BOOLEAN]]
      /\ oracle'[c] = NoOracle
      /\ \A d \in Chains \ {c} : oracle'[d] = oracle[d]
  BY IcaOracleAssumptions DEF RemoveOracle, NoOracle, IInv, TypeOK
<1>5. \A id \in DOMAIN status' : id[2] \in Chains \ {c} /\ id \in DOMAIN status
  <2> SUFFICES ASSUME NEW id \in DOMAIN status'
               PROVE  id[2] \in Chains \ {c} /\ id \in DOMAIN status
    OBVIOUS
  <2>1. id \in DOMAIN status /\ id \notin MetricsOf(c) /\ id \in Ids
    BY <1>3
  <2> QED BY <2>1 DEF MetricsOf, Ids
<1>6. MetricsHaveOracles'
  BY <1>4, <1>5 DEF NoOracle, IInv, MetricsHaveOracles
<1>7. CallbacksFound'
  BY <1>4 DEF RemoveOracle, NoOracle, IInv, CallbacksFound
<1>8. RemovedOracles'
  BY <1>4 DEF IInv, RemovedOracles
<1>9. TypeOK'
  BY Zenon, <1>3, <1>4 DEF RemoveOracle, IInv, TypeOK
<1> QED
  BY Zenon, <1>2, <1>6, <1>7, <1>8, <1>9 DEF IInv

\* The execution of a packet changes only its result.
LEMMA HostExecutesInv ==
    ASSUME IInv, NEW c \in Chains, NEW result \in {"success", "failure"},
           HostExecutes(c, result)
    PROVE  IInv'
<1>1. PICK i \in DOMAIN packets[c] :
             /\ packets' = [packets EXCEPT ![c][i].state = result]
             /\ UNCHANGED <<oracle, status, queue, channel, updates, expired>>
  BY Zenon DEF HostExecutes
<1>2. packets \in [Chains -> Seq(Packet)]
  BY Zenon DEF IInv, TypeOK, Packet
<1> DEFINE old == packets[c]
           new == [old EXCEPT ![i].state = result]
<1>3. old \in Seq(Packet) /\ i \in DOMAIN old
  BY <1>2
<1>4. /\ new \in Seq(Packet)
      /\ DOMAIN new = DOMAIN old
      /\ \A j \in DOMAIN old : new[j].key = old[j].key /\ new[j].channel = old[j].channel
  <2> HIDE DEF old
  <2>1. [old[i] EXCEPT !.state = result] \in Packet
    <3>1. old[i] \in Packet
      BY <1>3
    <3> QED BY <3>1 DEF Packet
  <2>2. \A j \in DOMAIN old : old[j] \in Packet
    BY <1>3
  <2>3. /\ [old[i] EXCEPT !.state = result].key = old[i].key
        /\ [old[i] EXCEPT !.state = result].channel = old[i].channel
    BY <1>3, <2>2 DEF Packet
  <2> QED BY <1>3, <2>1, <2>3
<1>5. packets' = [packets EXCEPT ![c] = new]
  BY <1>1, <1>2
<1>6. packets' \in [Chains -> Seq(Packet)]
  <2> HIDE DEF new
  <2> QED BY Zenon, <1>2, <1>4, <1>5
<1>7. CallbacksFound'
  <2> HIDE DEF new
  <2>1. \A j \in DOMAIN packets'[c] : packets'[c][j].key = packets'[c][j].channel
    BY <1>2, <1>4, <1>5 DEF IInv, CallbacksFound
  <2>2. \A d \in Chains \ {c} : packets'[d] = packets[d]
    BY Zenon, <1>2, <1>5
  <2> QED BY <1>1, <2>1, <2>2 DEF IInv, CallbacksFound
<1> QED
  BY Zenon, <1>1, <1>6, <1>7 DEF IInv, TypeOK, Packet, QueueMatchesStore, MetricsHaveOracles,
                          RemovedOracles

\* The acknowledgement of an ICA preserves the invariant.
LEMMA OnAcknowledgementPacketInv ==
    ASSUME IInv, NEW c \in Chains, OnAcknowledgementPacket(c)
    PROVE  IInv'
<1> DEFINE p == Head(packets[c])
<1>1. packets \in [Chains -> Seq(Packet)] /\ packets[c] # <<>>
  BY Zenon DEF IInv, TypeOK, Packet, OnAcknowledgementPacket
<1>2. packets' \in [Chains -> Seq(Packet)]
      /\ \A d \in Chains : \A i \in DOMAIN packets'[d] :
            packets'[d][i].key = packets'[d][i].channel
  <2>1. Tail(packets[c]) \in Seq(Packet)
        /\ \A i \in DOMAIN Tail(packets[c]) : /\ i + 1 \in DOMAIN packets[c]
                                              /\ Tail(packets[c])[i] = packets[c][i + 1]
    BY <1>1
  <2>2. packets' = [packets EXCEPT ![c] = Tail(packets[c])]
    BY DEF OnAcknowledgementPacket
  <2>3. packets' \in [Chains -> Seq(Packet)]
    BY <1>1, <2>1, <2>2
  <2>4. ASSUME NEW d \in Chains, NEW i \in DOMAIN packets'[d]
        PROVE  packets'[d][i].key = packets'[d][i].channel
    <3>1. CASE d = c
      BY <1>1, <2>1, <2>2, <2>4, <3>1 DEF IInv, CallbacksFound
    <3>2. CASE d # c
      BY <1>1, <2>2, <2>4, <3>2 DEF IInv, CallbacksFound
    <3> QED BY <3>1, <3>2
  <2> QED BY <2>3, <2>4
<1>3. UNCHANGED <<channel, updates, expired>> /\ CallRegisteredICACallback(c, p)
  BY Zenon DEF OnAcknowledgementPacket
<1> HIDE DEF p
<1>4. CASE UNCHANGED <<oracle, status, queue>>
  BY Zenon, <1>2, <1>3, <1>4 DEF IInv, TypeOK, Packet, QueueMatchesStore, CallbacksFound,
                          MetricsHaveOracles, RemovedOracles
<1>5. CASE /\ oracle[c].added
           /\ oracle' = [oracle EXCEPT ![c].contract = TRUE, ![c].active = TRUE]
           /\ UNCHANGED <<status, queue>>
  <2>1. /\ oracle' \in [Chains -> [added : BOOLEAN, channel : 0 .. MaxChannels,
                                   contract : BOOLEAN, active : BOOLEAN]]
        /\ \A d \in Chains : /\ oracle'[d].added = oracle[d].added
                             /\ oracle'[d].channel = oracle[d].channel
                             /\ d # c => oracle'[d] = oracle[d]
        /\ oracle'[c].added /\ oracle'[c].contract
    BY Zenon, <1>5 DEF IInv, TypeOK
  <2>2. MetricsHaveOracles'
    BY Zenon, <1>5, <2>1 DEF IInv, TypeOK, MetricsHaveOracles, Ids
  <2>3. CallbacksFound' /\ RemovedOracles'
    BY Zenon, <1>2, <1>3, <2>1 DEF IInv, CallbacksFound, RemovedOracles
  <2> QED
    BY Zenon, <1>2, <1>3, <1>5, <2>1, <2>2, <2>3 DEF IInv, TypeOK, Packet, QueueMatchesStore
<1>6. CASE RemoveMetrics({<<p.update, c>>}) /\ UNCHANGED oracle
  <2>1. QueueMatchesStore'
    BY Zenon, <1>6, RemoveMetricsKeepsQueue DEF IInv
  <2>2. /\ DOMAIN status' = DOMAIN status \ {<<p.update, c>>}
        /\ DOMAIN status' \subseteq Ids /\ queue' \subseteq Ids
        /\ \A id \in DOMAIN status' : status'[id] \in {"QUEUED", "IN_PROGRESS"}
    BY Zenon, <1>6, RemoveMetricsTypes DEF IInv
  <2>3. TypeOK'
    BY Zenon, <1>2, <1>3, <1>6, <2>2 DEF IInv, TypeOK, Packet
  <2> QED
    BY <1>2, <1>3, <1>6, <2>1, <2>2, <2>3 DEF IInv, CallbacksFound, MetricsHaveOracles,
                                              RemovedOracles
<1> QED
  BY Zenon, <1>3, <1>4, <1>5, <1>6 DEF CallRegisteredICACallback, InstantiateOracleCallback,
                                UpdateOracleCallback

\* A timeout closes the channel and drops its packets.
LEMMA OnTimeoutPacketInv ==
    ASSUME IInv, NEW c \in Chains, OnTimeoutPacket(c)
    PROVE  IInv'
<1>1. /\ channel' \in [Chains -> ChannelState]
      /\ \A d \in Chains : /\ channel'[d].current = channel[d].current
                           /\ d # c => channel'[d].open = channel[d].open
      /\ channel'[c].open = FALSE
  <2>1. channel' = [channel EXCEPT ![c] = [channel[c] EXCEPT !.open = FALSE]]
    BY DEF OnTimeoutPacket
  <2>2. channel \in [Chains -> ChannelState]
    BY DEF IInv, TypeOK, ChannelState
  <2>3. /\ [channel[c] EXCEPT !.open = FALSE] \in ChannelState
        /\ [channel[c] EXCEPT !.open = FALSE].current = channel[c].current
        /\ [channel[c] EXCEPT !.open = FALSE].open = FALSE
    <3>1. channel[c] \in ChannelState
      BY <2>2
    <3> QED BY Zenon, <3>1 DEF ChannelState
  <2> QED BY Zenon, <2>1, <2>2, <2>3
<1>2. /\ packets' \in [Chains -> Seq(Packet)]
      /\ \A d \in Chains : packets'[d] = packets[d] \/ packets'[d] = <<>>
  <2>1. packets \in [Chains -> Seq(Packet)]
    BY Zenon DEF IInv, TypeOK, Packet
  <2>2. packets' = [packets EXCEPT ![c] = <<>>]
    BY DEF OnTimeoutPacket
  <2> QED BY <2>1, <2>2
<1>3. CallbacksFound'
  BY <1>1, <1>2 DEF OnTimeoutPacket, IInv, CallbacksFound
<1> QED
  BY Zenon, <1>1, <1>2, <1>3 DEF OnTimeoutPacket, IInv, TypeOK, ChannelState, Packet,
                          QueueMatchesStore, MetricsHaveOracles, RemovedOracles

\* The expiry of a client preserves the invariant.
LEMMA ClientExpiresInv ==
    ASSUME IInv, NEW c \in Chains, ClientExpires(c)
    PROVE  IInv'
<1>1. expired' \subseteq Chains
  BY DEF ClientExpires, IInv, TypeOK
<1> QED
  BY Zenon, <1>1 DEF ClientExpires, IInv, TypeOK, QueueMatchesStore, CallbacksFound,
                     MetricsHaveOracles, RemovedOracles

\* So does its recovery.
LEMMA ClientRecoversInv ==
    ASSUME IInv, NEW c \in Chains, ClientRecovers(c)
    PROVE  IInv'
<1>1. expired' \subseteq Chains
  BY DEF ClientRecovers, IInv, TypeOK
<1> QED
  BY Zenon, <1>1 DEF ClientRecovers, IInv, TypeOK, QueueMatchesStore, CallbacksFound,
                     MetricsHaveOracles, RemovedOracles

\* Every step preserves the invariant.
LEMMA NextInv == IInv /\ [Next]_vars => IInv'
<1> SUFFICES ASSUME IInv, [Next]_vars PROVE IInv'
  OBVIOUS
<1>1. ASSUME NEW u \in Updates, QueueMetricUpdate(u) PROVE IInv'
  BY <1>1, QueueMetricUpdateInv
<1>2. ASSUME NEW orders \in Orders, EndBlocker(orders) PROVE IInv'
  BY <1>2, EndBlockerInv
<1>3. ASSUME NEW c \in Chains,
             \/ AddOracle(c)
             \/ \E n \in channel[c].opening : OnChanOpenAck(c, n)
             \/ InstantiateOracle(c)
             \/ RestoreOracleICA(c)
             \/ \E active \in BOOLEAN : ToggleOracle(c, active)
             \/ RemoveOracle(c)
             \/ \E result \in {"success", "failure"} : HostExecutes(c, result)
             \/ OnAcknowledgementPacket(c)
             \/ OnTimeoutPacket(c)
             \/ ClientExpires(c)
             \/ ClientRecovers(c)
      PROVE  IInv'
  BY Zenon, <1>3, AddOracleInv, OnChanOpenAckInv, InstantiateOracleInv, RestoreOracleICAInv,
     ToggleOracleInv, RemoveOracleInv, HostExecutesInv, OnAcknowledgementPacketInv,
     OnTimeoutPacketInv, ClientExpiresInv, ClientRecoversInv
<1>4. CASE UNCHANGED vars
  BY Zenon, <1>4 DEF vars, IInv, TypeOK, QueueMatchesStore, CallbacksFound, MetricsHaveOracles,
              RemovedOracles
<1> QED BY <1>1, <1>2, <1>3, <1>4 DEF Next

\* The queue index is the set of QUEUED metrics in every reachable state: no block
\* ends in the panic of GetAllQueuedMetrics.
THEOREM QueueAlwaysMatches == Spec => []QueueMatchesStore
BY InitInv, NextInv, PTL DEF Spec, IInv

\* Every acknowledgement of an oracle's ICA finds its callback, whatever accounts
\* were restored and oracles removed and added meanwhile.
THEOREM CallbacksAlwaysFound == Spec => []CallbacksFound
BY InitInv, NextInv, PTL DEF Spec, IInv

\* No metric is ever stored for an oracle that is gone or has no contract.
THEOREM MetricsAlwaysHaveOracles == Spec => []MetricsHaveOracles
BY InitInv, NextInv, PTL DEF Spec, IInv
=============================================================================
