------------------------ MODULE DepositRecordsProofs ------------------------
(***************************************************************************)
(* For any number of records, batches, tokens and faults:                  *)
(*   - DelegationTxsInProgress is exact and the accounts are backed by the *)
(*     records, provided that the delegation channel only closes with its  *)
(*     acknowledgements relayed and is only restored once the packets left *)
(*     on it have timed out (so that no validator of a batch in flight is  *)
(*     removed: its packet could not be cleared);                          *)
(*   - however packets are relayed and validators removed,                 *)
(*     TotalDelegations is never overstated and the redemption rate never  *)
(*     falls by more than its rounding.                                    *)
(***************************************************************************)
EXTENDS DepositRecords, SumTheorems

\* The pending batches of record i are pieces of one submission, cut at c, and the
\* record still holds the tokens of each of them and of all the later ones.
CutAt(i, c) ==
    /\ \A j, k \in 0..MaxBatches : j <= k => c[j] <= c[k]
    /\ \A k \in Pending(i) : /\ delegateIcas[i][k].amount = c[k] - c[k - 1]
                             /\ delegateIcas[i][k].amount > 0
                             /\ depositRecords[i].amount >= c[MaxBatches] - c[k - 1]

\* What holds of each record.
RecordInv(i) ==
    /\ depositRecords[i].txs = Cardinality(Pending(i))
    /\ Pending(i) # {} =>
          depositRecords[i].status \in {"DELEGATION_QUEUE", "DELEGATION_IN_PROGRESS"}
    /\ transfers[i] # "none" => depositRecords[i].status = "TRANSFER_IN_PROGRESS"
    /\ \E c \in [0..MaxBatches -> Nat] : CutAt(i, c)

\* The inductive invariant.
IInv ==
    /\ RecordsTypeOK
    /\ \A i \in Ids : RecordInv(i)
    /\ channel # "open" => \A i \in Ids : Executed(i) = {}

\* The environment the theorems assume.
OrderlyRelaying == AcksBeforeClose /\ OldPackets = "cleared"
-----------------------------------------------------------------------------
\* The pending batches of a record are a finite set of batches.
LEMMA PendingFinite ==
    ASSUME NEW i \in Ids
    PROVE  IsFiniteSet(Pending(i)) /\ Pending(i) \subseteq Batches
<1>1. IsFiniteSet(Batches)
  BY FS_Interval, MaxBatchesAssumption DEF Batches
<1> QED
  BY Zenon, <1>1, FS_Subset DEF Pending

\* A record without pending batches satisfies CutAt, whatever its amount.
LEMMA NothingToCut ==
    ASSUME NEW i \in Ids, Pending(i) = {}
    PROVE  \E c \in [0..MaxBatches -> Nat] : CutAt(i, c)
<1> DEFINE c == [k \in 0..MaxBatches |-> 0]
<1>1. c \in [0..MaxBatches -> Nat] /\ \A j, k \in 0..MaxBatches : c[j] <= c[k]
  OBVIOUS
<1>2. CutAt(i, c)
  BY Zenon, <1>1 DEF CutAt
<1> QED
  BY Zenon, <1>1, <1>2

\* A record with neither transfer nor batches, and no transaction counted, is fine.
LEMMA IdleRecord ==
    ASSUME NEW i \in Ids, Pending(i) = {}, transfers[i] = "none", depositRecords[i].txs = 0
    PROVE  RecordInv(i)
BY Zenon, NothingToCut, FS_EmptySet DEF RecordInv

\* The initial states satisfy the invariant.
LEMMA InitIInv == Init => IInv
<1> SUFFICES ASSUME Init PROVE IInv
  BY Zenon
<1>1. RecordsTypeOK
  BY DEF Init, RecordsTypeOK, NoRecord, DepositRecord, NoIca, Statuses
<1>2. \A i \in Ids : Pending(i) = {}
  BY Zenon DEF Init, Pending, NoIca
<1>3. \A i \in Ids : RecordInv(i)
  BY Zenon, <1>2, IdleRecord DEF Init, NoRecord, DepositRecord
<1> QED
  BY Zenon, <1>1, <1>3 DEF Init, IInv

\* A step that leaves the batches and the transfer of a record alone, and of the record
\* itself changes neither the count nor the amount nor the status, preserves RecordInv.
LEMMA RecordUntouched ==
    ASSUME NEW i \in Ids, RecordInv(i),
           delegateIcas'[i] = delegateIcas[i], transfers'[i] = transfers[i],
           depositRecords'[i].txs = depositRecords[i].txs,
           depositRecords'[i].amount = depositRecords[i].amount,
           depositRecords'[i].status = depositRecords[i].status
    PROVE  RecordInv(i)'
<1>1. Pending(i)' = Pending(i)
  BY Zenon DEF Pending
<1>2. ASSUME NEW c \in [0..MaxBatches -> Nat], CutAt(i, c) PROVE CutAt(i, c)'
  BY Zenon, <1>1, <1>2 DEF CutAt
<1> QED
  BY Zenon, <1>1, <1>2 DEF RecordInv

\* A record without batches keeps none when its batches are left alone.
LEMMA StillIdle ==
    ASSUME NEW i \in Ids, Pending(i) = {}, delegateIcas'[i] = delegateIcas[i],
           depositRecords'[i].txs = 0,
           transfers'[i] # "none" => depositRecords'[i].status = "TRANSFER_IN_PROGRESS"
    PROVE  RecordInv(i)'
<1>1. Pending(i)' = {}
  BY Zenon DEF Pending
<1>2. \E c \in [0..MaxBatches -> Nat] : CutAt(i, c)'
  <2> DEFINE c == [k \in 0..MaxBatches |-> 0]
  <2>1. c \in [0..MaxBatches -> Nat] /\ \A j, k \in 0..MaxBatches : c[j] <= c[k]
    OBVIOUS
  <2>2. CutAt(i, c)'
    BY Zenon, <1>1, <2>1 DEF CutAt
  <2> QED
    BY Zenon, <2>1, <2>2
<1> QED
  BY Zenon, <1>1, <1>2, FS_EmptySet DEF RecordInv

\* A record in another status than the two delegation ones has nothing pending.
LEMMA NothingPending ==
    ASSUME NEW i \in Ids, RecordInv(i),
           depositRecords[i].status \notin {"DELEGATION_QUEUE", "DELEGATION_IN_PROGRESS"}
    PROVE  Pending(i) = {} /\ depositRecords[i].txs = 0
BY Zenon, FS_EmptySet DEF RecordInv

\* A record with nothing pending counts no transaction.
LEMMA NothingCounted ==
    ASSUME NEW i \in Ids, RecordInv(i), Pending(i) = {}
    PROVE  depositRecords[i].txs = 0
BY Zenon, FS_EmptySet DEF RecordInv

\* A record that counts no transaction has nothing pending.
LEMMA NoneCounted ==
    ASSUME NEW i \in Ids, RecordInv(i), depositRecords[i].txs = 0
    PROVE  Pending(i) = {}
BY Zenon, PendingFinite, FS_EmptySet DEF RecordInv
-----------------------------------------------------------------------------
\* Steps that leave the records, the transfers and the delegate ICAs alone.
LEMMA UnrelatedStep ==
    ASSUME IInv, UNCHANGED <<depositRecords, transfers, delegateIcas>>,
           reinvestIca' \in [state : {"none", "sent", "success", "failure"}, amount : Nat],
           channel' \in {"open", "closed", "handshake"},
           channel' # "open" => \A i \in Ids : Executed(i) = {}
    PROVE  IInv'
<1>1. RecordsTypeOK'
  BY Zenon DEF IInv, RecordsTypeOK
<1>2. \A i \in Ids : RecordInv(i)'
  BY Zenon, RecordUntouched DEF IInv
<1>3. \A i \in Ids : Executed(i)' = Executed(i)
  BY Zenon DEF Executed
<1> QED
  BY Zenon, <1>1, <1>2, <1>3 DEF IInv

\* Steps that change the record and the transfer of one record with nothing pending.
LEMMA IdleRecordStep ==
    ASSUME IInv, NEW i \in Ids, Pending(i) = {}, UNCHANGED <<delegateIcas, channel>>,
           reinvestIca' \in [state : {"none", "sent", "success", "failure"}, amount : Nat],
           NEW r \in [status : Statuses, amount : Int, current : BOOLEAN, txs : {0}],
           NEW t \in {"none", "sent", "received", "rejected"},
           t # "none" => r.status = "TRANSFER_IN_PROGRESS",
           depositRecords' = [depositRecords EXCEPT ![i] = r],
           transfers' = [transfers EXCEPT ![i] = t]
    PROVE  IInv'
<1>1. RecordsTypeOK'
  BY DEF IInv, RecordsTypeOK
<1>2. RecordInv(i)'
  BY Zenon, StillIdle DEF IInv, RecordsTypeOK
<1>3. \A j \in Ids \ {i} : RecordInv(j)'
  BY Zenon, RecordUntouched DEF IInv, RecordsTypeOK
<1>4. \A j \in Ids : Executed(j)' = Executed(j)
  BY Zenon DEF Executed
<1> QED
  BY Zenon, <1>1, <1>2, <1>3, <1>4 DEF IInv

\* LiquidStake adds to a record in TRANSFER_QUEUE.
LEMMA LiquidStakeStep ==
    ASSUME IInv, NEW amount \in StakeAmounts, LiquidStake(amount)
    PROVE  IInv'
<1>1. PICK i \in Ids :
          /\ depositRecords[i].status = "TRANSFER_QUEUE"
          /\ depositRecords' = [depositRecords EXCEPT ![i].amount = @ + amount]
  BY Zenon DEF LiquidStake
<1>2. Pending(i) = {} /\ depositRecords[i].txs = 0
  BY Zenon, <1>1, NothingPending DEF IInv
<1> DEFINE r == [depositRecords[i] EXCEPT !.amount = @ + amount]
<1>3. r \in [status : Statuses, amount : Int, current : BOOLEAN, txs : {0}]
  <2>1. amount \in Int
    BY DepositAssumptions
  <2>2. depositRecords[i] \in [status : Statuses, amount : Int, current : BOOLEAN, txs : {0}]
    BY Zenon, <1>2 DEF IInv, RecordsTypeOK
  <2> QED
    BY <2>1, <2>2
<1>4. depositRecords' = [depositRecords EXCEPT ![i] = r]
  BY Zenon, <1>1 DEF IInv, RecordsTypeOK
<1>5. transfers[i] = "none" /\ transfers' = [transfers EXCEPT ![i] = "none"]
  BY <1>1 DEF IInv, RecordInv, RecordsTypeOK, LiquidStake
<1>6. UNCHANGED <<delegateIcas, channel, reinvestIca>>
  BY Zenon DEF LiquidStake, icaVars
<1> QED
  BY Zenon, <1>2, <1>3, <1>4, <1>5, <1>6, IdleRecordStep DEF IInv, RecordsTypeOK

\* The transfer of a record and its callback.
LEMMA TransferStep ==
    ASSUME IInv, NEW i \in Ids,
           TransferReceived(i) \/ TransferAcknowledged(i) \/ TransferTimedOut(i)
    PROVE  IInv'
<1>1. transfers[i] # "none" /\ depositRecords[i].status = "TRANSFER_IN_PROGRESS"
  BY Zenon DEF IInv, RecordInv, TransferReceived, TransferAcknowledged, TransferTimedOut
<1>2. Pending(i) = {} /\ depositRecords[i].txs = 0
  BY Zenon, <1>1, NothingPending DEF IInv
<1>3. CASE TransferReceived(i)
  <2>1. PICK t \in {"received", "rejected"} : transfers' = [transfers EXCEPT ![i] = t]
    BY Zenon, <1>3 DEF TransferReceived
  <2>2. depositRecords' = [depositRecords EXCEPT ![i] = depositRecords[i]]
    BY Zenon, <1>3 DEF TransferReceived, recordVars, IInv, RecordsTypeOK
  <2>3. depositRecords[i] \in [status : Statuses, amount : Int, current : BOOLEAN, txs : {0}]
    BY Zenon, <1>2 DEF IInv, RecordsTypeOK
  <2>4. UNCHANGED <<delegateIcas, channel, reinvestIca>>
    BY Zenon, <1>3 DEF TransferReceived, icaVars
  <2> QED
    BY Zenon, <1>1, <1>2, <2>1, <2>2, <2>3, <2>4, IdleRecordStep DEF IInv, RecordsTypeOK
<1>4. CASE TransferAcknowledged(i) \/ TransferTimedOut(i)
  <2>1. PICK status \in {"success", "failure", "timeout"} : TransferCallback(i, status)
    BY Zenon, <1>4 DEF TransferAcknowledged, TransferTimedOut
  <2> DEFINE r == [depositRecords[i] EXCEPT !.status =
                      IF status = "success" THEN "DELEGATION_QUEUE" ELSE "TRANSFER_QUEUE"]
  <2>2. r \in [status : Statuses, amount : Int, current : BOOLEAN, txs : {0}]
    BY <1>2 DEF IInv, RecordsTypeOK, Statuses
  <2>3. depositRecords' = [depositRecords EXCEPT ![i] = r]
    BY Zenon, <2>1 DEF TransferCallback, StatusAfterTransfer, IInv, RecordsTypeOK
  <2>4. /\ transfers' = [transfers EXCEPT ![i] = "none"]
        /\ UNCHANGED <<delegateIcas, channel, reinvestIca>>
    BY Zenon, <2>1 DEF TransferCallback, icaVars
  <2> QED
    BY Zenon, <1>2, <2>2, <2>3, <2>4, IdleRecordStep DEF IInv, RecordsTypeOK
<1> QED
  BY Zenon, <1>3, <1>4

\* Rewards that were reinvested become a new record.
LEMMA ReinvestCallbackStep ==
    ASSUME IInv, ReinvestCallback
    PROVE  IInv'
<1>0. UNCHANGED <<transfers, delegateIcas, channel>> /\ reinvestIca' = NoIca
  BY Zenon DEF ReinvestCallback, icaVars
<1>1. NoIca \in [state : {"none", "sent", "success", "failure"}, amount : Nat]
  BY Zenon DEF NoIca
<1>2. CASE depositRecords' = depositRecords
  BY Zenon, <1>0, <1>1, <1>2, UnrelatedStep DEF IInv, RecordsTypeOK
<1>3. CASE depositRecords' # depositRecords
  <2>1. PICK i \in Ids :
            /\ NextId(i)
            /\ depositRecords' = [depositRecords EXCEPT ![i] =
                  DepositRecord("DELEGATION_QUEUE", reinvestIca.amount, 0)]
    BY Zenon, <1>3 DEF ReinvestCallback
  <2>2. Pending(i) = {} /\ transfers[i] = "none"
    BY Zenon, <2>1 DEF NextId, FreeIds
  <2>3. DepositRecord("DELEGATION_QUEUE", reinvestIca.amount, 0)
            \in [status : Statuses, amount : Int, current : BOOLEAN, txs : {0}]
    BY DEF DepositRecord, Statuses, IInv, RecordsTypeOK
  <2>4. transfers' = [transfers EXCEPT ![i] = "none"]
    BY Zenon, <1>0, <2>2 DEF IInv, RecordsTypeOK
  <2> QED
    BY Zenon, <1>0, <1>1, <2>1, <2>2, <2>3, <2>4, IdleRecordStep
<1> QED
  BY Zenon, <1>2, <1>3
-----------------------------------------------------------------------------
\* The host executes a batch: it stays pending.
LEMMA HostExecutesDelegateStep ==
    ASSUME IInv, NEW i \in Ids, NEW k \in Batches, HostExecutesDelegate(i, k)
    PROVE  IInv'
<1>1. PICK st \in {"success", "failure"} :
          delegateIcas' = [delegateIcas EXCEPT ![i][k].state = st]
  BY Zenon DEF HostExecutesDelegate
<1>2. /\ UNCHANGED <<depositRecords, transfers, reinvestIca, channel>>
      /\ channel = "open" /\ delegateIcas[i][k].state = "sent"
  BY Zenon DEF HostExecutesDelegate, recordVars
<1>3. RecordsTypeOK'
  BY ZenonT(30), <1>1, <1>2 DEF IInv, RecordsTypeOK
<1>4. /\ Pending(i)' = Pending(i)
      /\ \A j \in Batches : delegateIcas'[i][j].amount = delegateIcas[i][j].amount
  BY <1>1, <1>2 DEF Pending, IInv, RecordsTypeOK
<1>5. RecordInv(i)'
  <2>1. ASSUME NEW c \in [0..MaxBatches -> Nat], CutAt(i, c) PROVE CutAt(i, c)'
    BY Zenon, <1>2, <1>4, <2>1, PendingFinite DEF CutAt
  <2> QED
    BY Zenon, <1>2, <1>4, <2>1 DEF IInv, RecordInv
<1>6. ASSUME NEW j \in Ids \ {i} PROVE RecordInv(j)'
  <2>1. delegateIcas'[j] = delegateIcas[j]
    BY Zenon, <1>1 DEF IInv, RecordsTypeOK
  <2> QED
    BY Zenon, <1>2, <2>1, RecordUntouched DEF IInv
<1> QED
  BY Zenon, <1>2, <1>3, <1>5, <1>6 DEF IInv

\* A batch that leaves its slot is no longer pending; nothing else changes.
LEMMA BatchRemoved ==
    ASSUME IInv, NEW i \in Ids, NEW k \in Pending(i),
           delegateIcas' = [delegateIcas EXCEPT ![i][k] = NoIca]
    PROVE  /\ Pending(i)' = Pending(i) \ {k}
           /\ Cardinality(Pending(i)') = Cardinality(Pending(i)) - 1
           /\ \A j \in Batches \ {k} : delegateIcas'[i][j] = delegateIcas[i][j]
           /\ \A j \in Ids \ {i} : delegateIcas'[j] = delegateIcas[j]
           /\ \A j \in Ids : Executed(j)' \subseteq Executed(j)
<1>1. k \in Batches /\ IsFiniteSet(Pending(i))
  BY Zenon, PendingFinite
<1>2. /\ \A j \in Batches \ {k} : delegateIcas'[i][j] = delegateIcas[i][j]
      /\ \A j \in Ids \ {i} : delegateIcas'[j] = delegateIcas[j]
      /\ delegateIcas'[i][k] = NoIca
  BY Zenon, <1>1 DEF IInv, RecordsTypeOK
<1>3. Pending(i)' = Pending(i) \ {k}
  BY <1>1, <1>2 DEF Pending, NoIca
<1>4. \A j \in Ids : Executed(j)' \subseteq Executed(j)
  BY <1>1, <1>2 DEF Executed, NoIca
<1>5. Cardinality(Pending(i) \ {k}) = Cardinality(Pending(i)) - 1
  BY Zenon, <1>1, FS_RemoveElement
<1> QED
  BY Zenon, <1>2, <1>3, <1>4, <1>5

\* The callback of a failed or timed out batch.
LEMMA FailedBatch ==
    ASSUME IInv, NEW i \in Ids, NEW k \in Pending(i),
           NEW status \in {"failure", "timeout"},
           delegateIcas' = [delegateIcas EXCEPT ![i][k] = NoIca],
           DelegateCallback(i, k, status), transfers' = transfers
    PROVE  RecordInv(i)' /\ depositRecords'[i] \in
              [status : Statuses, amount : Int, current : BOOLEAN, txs : Nat]
<1>1. depositRecords[i] \in [status : Statuses, amount : Int, current : BOOLEAN, txs : Nat]
  BY Zenon DEF IInv, RecordsTypeOK
<1>2. /\ depositRecords[i].txs # 0
      /\ depositRecords'[i] = IF status = "timeout" THEN [depositRecords[i] EXCEPT !.txs = @ - 1]
                              ELSE [depositRecords[i] EXCEPT !.txs = @ - 1,
                                                             !.status = "DELEGATION_QUEUE"]
  BY Zenon DEF DelegateCallback, AfterBatch, IInv, RecordsTypeOK
<1>3. depositRecords'[i] \in [status : Statuses, amount : Int, current : BOOLEAN, txs : Nat]
  <2>1. depositRecords[i].txs - 1 \in Nat
    BY <1>1, <1>2
  <2>2. \A n \in Nat : /\ [depositRecords[i] EXCEPT !.txs = n] \in
                             [status : Statuses, amount : Int, current : BOOLEAN, txs : Nat]
                       /\ [depositRecords[i] EXCEPT !.txs = n, !.status = "DELEGATION_QUEUE"] \in
                             [status : Statuses, amount : Int, current : BOOLEAN, txs : Nat]
    BY Zenon, <1>1 DEF Statuses
  <2> QED
    BY Zenon, <1>2, <2>1, <2>2
<1>4. /\ depositRecords'[i].txs = depositRecords[i].txs - 1
      /\ depositRecords'[i].amount = depositRecords[i].amount
      /\ depositRecords'[i].status \in {depositRecords[i].status, "DELEGATION_QUEUE"}
  BY Zenon, <1>1, <1>2
<1>5. /\ depositRecords[i].status \in {"DELEGATION_QUEUE", "DELEGATION_IN_PROGRESS"}
      /\ transfers[i] = "none"
  BY Zenon DEF IInv, RecordInv
<1>6. /\ Pending(i)' = Pending(i) \ {k}
      /\ Cardinality(Pending(i)') = Cardinality(Pending(i)) - 1
      /\ \A j \in Pending(i)' : delegateIcas'[i][j] = delegateIcas[i][j]
  BY Zenon, BatchRemoved, PendingFinite
<1>7. ASSUME NEW c \in [0..MaxBatches -> Nat], CutAt(i, c) PROVE CutAt(i, c)'
  BY Zenon, <1>4, <1>6, <1>7 DEF CutAt
<1> QED
  BY Zenon, <1>3, <1>4, <1>5, <1>6, <1>7 DEF IInv, RecordInv

\* The callback of a successful batch, the first pending one of its record: when it
\* carries the whole amount no other batch is pending, and the record can go.
LEMMA SuccessfulBatch ==
    ASSUME IInv, NEW i \in Ids, NEW k \in Pending(i),
           \A j \in 1..(k - 1) : delegateIcas[i][j].state = "none",
           delegateIcas' = [delegateIcas EXCEPT ![i][k] = NoIca],
           DelegateCallback(i, k, "success"), transfers' = transfers
    PROVE  RecordInv(i)' /\ depositRecords'[i] \in
              [status : Statuses, amount : Int, current : BOOLEAN, txs : Nat]
<1> DEFINE amount == delegateIcas[i][k].amount
<1>0. k \in Batches /\ Batches \subseteq Nat /\ MaxBatches \in Nat
  BY PendingFinite, MaxBatchesAssumption DEF Batches
<1>1. /\ depositRecords[i] \in [status : Statuses, amount : Int, current : BOOLEAN, txs : Nat]
      /\ amount \in Nat
  BY <1>0 DEF IInv, RecordsTypeOK
<1>2. /\ depositRecords[i].txs # 0
      /\ depositRecords'[i] = IF depositRecords[i].amount = amount THEN NoRecord
                              ELSE [depositRecords[i] EXCEPT !.txs = @ - 1, !.amount = @ - amount]
  BY Zenon DEF DelegateCallback, AfterBatch, IInv, RecordsTypeOK
<1>3. /\ Pending(i)' = Pending(i) \ {k}
      /\ Cardinality(Pending(i)') = Cardinality(Pending(i)) - 1
      /\ \A j \in Pending(i)' : delegateIcas'[i][j] = delegateIcas[i][j]
  BY Zenon, BatchRemoved, PendingFinite
<1>4. \A j \in Pending(i)' : j \in Batches /\ j > k
  <2>1. \A j \in Pending(i) : j \in Batches /\ delegateIcas[i][j].state # "none"
    BY Zenon DEF Pending
  <2> QED
    BY <1>0, <1>3, <2>1 DEF Batches
<1>5. PICK c \in [0..MaxBatches -> Nat] : CutAt(i, c)
  BY Zenon DEF IInv, RecordInv
<1>6. /\ amount = c[k] - c[k - 1]
      /\ depositRecords[i].amount >= c[MaxBatches] - c[k - 1]
      /\ c[k] \in Nat /\ c[k - 1] \in Nat /\ c[MaxBatches] \in Nat
  BY <1>0, <1>5 DEF CutAt, Batches
<1>7. ASSUME NEW j \in Pending(i)'
      PROVE  /\ c[j] \in Nat /\ c[j - 1] \in Nat
             /\ c[k] <= c[j - 1] /\ c[j] <= c[MaxBatches]
             /\ delegateIcas'[i][j].amount = c[j] - c[j - 1]
             /\ delegateIcas'[i][j].amount > 0
  <2>1. j \in 1..MaxBatches /\ j > k /\ k \in 1..MaxBatches /\ j \in Pending(i)
    BY Zenon, <1>3, <1>4, <1>7, <1>0 DEF Batches
  <2>2. j - 1 \in 0..MaxBatches /\ k \in 0..MaxBatches /\ k <= j - 1 /\ j \in 0..MaxBatches
        /\ MaxBatches \in 0..MaxBatches
    BY <2>1, <1>0
  <2> QED
    BY <1>3, <1>5, <2>1, <2>2 DEF CutAt
<1>8. CASE depositRecords[i].amount = amount
  <2>1. Pending(i)' = {}
    <3>1. c[MaxBatches] <= c[k]
      BY <1>6, <1>8
    <3>2. ASSUME NEW j \in Pending(i)' PROVE FALSE
      <4>1. /\ c[j] \in Nat /\ c[j - 1] \in Nat /\ c[k] <= c[j - 1]
            /\ c[j] <= c[MaxBatches] /\ c[j] - c[j - 1] > 0
        BY Zenon, <1>7, <3>2
      <4> QED
        BY <1>6, <3>1, <4>1
    <3> QED
      BY Zenon, <3>2
  <2>2. depositRecords'[i] = NoRecord
    BY Zenon, <1>2, <1>8
  <2>3. \E d \in [0..MaxBatches -> Nat] : CutAt(i, d)'
    BY Zenon, <1>5, <2>1 DEF CutAt
  <2>4. depositRecords'[i].txs = Cardinality(Pending(i)')
    BY <2>1, <2>2, FS_EmptySet DEF NoRecord
  <2>5. transfers'[i] = "none"
    BY Zenon DEF IInv, RecordInv
  <2> QED
    BY <2>1, <2>2, <2>3, <2>4, <2>5 DEF RecordInv, NoRecord, Statuses
<1>9. CASE depositRecords[i].amount # amount
  <2>1. /\ depositRecords'[i].txs = depositRecords[i].txs - 1
        /\ depositRecords'[i].amount = depositRecords[i].amount - amount
        /\ depositRecords'[i].status = depositRecords[i].status
        /\ depositRecords'[i] \in [status : Statuses, amount : Int, current : BOOLEAN, txs : Nat]
    <3>1. depositRecords[i].txs - 1 \in Nat /\ depositRecords[i].amount - amount \in Int
      BY <1>1, <1>2
    <3>2. \A n \in Nat, a \in Int :
              LET r == [depositRecords[i] EXCEPT !.txs = n, !.amount = a]
              IN  /\ r.txs = n /\ r.amount = a /\ r.status = depositRecords[i].status
                  /\ r \in [status : Statuses, amount : Int, current : BOOLEAN, txs : Nat]
      BY Zenon, <1>1
    <3>3. depositRecords'[i] = [depositRecords[i] EXCEPT !.txs = @ - 1, !.amount = @ - amount]
      BY Zenon, <1>2, <1>9
    <3> QED
      BY ZenonT(60), <3>1, <3>2, <3>3
  <2>2. CutAt(i, c)'
    <3>1. \A j \in Pending(i)' : depositRecords'[i].amount >= c[MaxBatches] - c[j - 1]
      <4>1. depositRecords[i].amount \in Int
        BY Zenon, <1>1
      <4>2. /\ depositRecords'[i].amount \in Int
            /\ depositRecords'[i].amount >= c[MaxBatches] - c[k]
        BY <1>6, <2>1, <4>1
      <4> QED
        BY <1>6, <1>7, <4>2
    <3>2. \A j, l \in 0..MaxBatches : j <= l => c[j] <= c[l]
      BY Zenon, <1>5 DEF CutAt
    <3> QED
      BY Zenon, <1>7, <3>1, <3>2 DEF CutAt
  <2> QED
    BY Zenon, <1>3, <2>1, <2>2 DEF IInv, RecordInv
<1> QED
  BY Zenon, <1>8, <1>9

\* An acknowledgement or a timeout of a delegate ICA.
LEMMA DelegateCallbackStep ==
    ASSUME IInv, OrderlyRelaying, NEW i \in Ids, NEW k \in Batches,
           DelegateAcknowledged(i, k) \/ DelegateTimedOut(i, k)
    PROVE  IInv'
<1>1. /\ k \in Pending(i)
      /\ delegateIcas' = [delegateIcas EXCEPT ![i][k] = NoIca]
      /\ UNCHANGED <<transfers, reinvestIca>>
      /\ channel' = channel \/ (channel' = "closed" /\ \A j \in Ids : Executed(j) = {})
  <2>1. CASE DelegateAcknowledged(i, k)
    BY Zenon, <2>1 DEF DelegateAcknowledged, Pending, Executed
  <2>2. CASE DelegateTimedOut(i, k)
    BY Zenon, <2>2 DEF DelegateTimedOut, Pending, MayClose, OrderlyRelaying, IInv
  <2> QED
    BY Zenon, <2>1, <2>2
<1>2. PICK status \in {"success", "failure", "timeout"} :
          DelegateCallback(i, k, status)
  <2>1. CASE DelegateAcknowledged(i, k)
    BY Zenon, <2>1 DEF DelegateAcknowledged, Executed
  <2>2. CASE DelegateTimedOut(i, k)
    BY Zenon, <2>2 DEF DelegateTimedOut
  <2> QED
    BY Zenon, <2>1, <2>2
<1>3. \A j \in Ids \ {i} : depositRecords'[j] = depositRecords[j]
  BY Zenon, <1>2 DEF DelegateCallback, AfterBatch, IInv, RecordsTypeOK
<1>4. RecordInv(i)' /\ depositRecords'[i] \in
          [status : Statuses, amount : Int, current : BOOLEAN, txs : Nat]
  <2>1. CASE DelegateTimedOut(i, k)
    <3>1. DelegateCallback(i, k, "timeout")
      BY Zenon, <2>1 DEF DelegateTimedOut
    <3> QED
      BY Zenon, <1>1, <3>1, FailedBatch
  <2>2. CASE DelegateAcknowledged(i, k) /\ delegateIcas[i][k].state = "failure"
    <3>1. DelegateCallback(i, k, "failure")
      BY Zenon, <2>2 DEF DelegateAcknowledged
    <3> QED
      BY Zenon, <1>1, <3>1, FailedBatch
  <2>3. CASE DelegateAcknowledged(i, k) /\ delegateIcas[i][k].state = "success"
    <3>1. /\ DelegateCallback(i, k, "success")
          /\ \A j \in 1..(k - 1) : delegateIcas[i][j].state = "none"
      BY Zenon, <2>3 DEF DelegateAcknowledged
    <3> QED
      BY Zenon, <1>1, <3>1, SuccessfulBatch
  <2> QED
    BY Zenon, <2>1, <2>2, <2>3 DEF DelegateAcknowledged, Executed
<1>5. ASSUME NEW j \in Ids \ {i} PROVE RecordInv(j)'
  BY Zenon, <1>1, <1>3, BatchRemoved, RecordUntouched DEF IInv
<1>6. RecordsTypeOK'
  <2>1. depositRecords' = [depositRecords EXCEPT ![i] = depositRecords'[i]]
    BY Zenon, <1>2 DEF DelegateCallback, AfterBatch, IInv, RecordsTypeOK
  <2>2. depositRecords' \in [Ids -> [status : Statuses, amount : Int,
                                     current : BOOLEAN, txs : Nat]]
    BY Zenon, <1>4, <2>1 DEF IInv, RecordsTypeOK
  <2>3. delegateIcas' \in [Ids -> [Batches ->
            [state : {"none", "sent", "success", "failure"}, amount : Nat]]]
    BY Zenon, <1>1 DEF IInv, RecordsTypeOK, NoIca
  <2> QED
    BY Zenon, <1>1, <2>2, <2>3 DEF IInv, RecordsTypeOK
<1>7. \A j \in Ids : Executed(j)' \subseteq Executed(j)
  BY Zenon, <1>1, BatchRemoved
<1> QED
  BY Zenon, <1>1, <1>4, <1>5, <1>6, <1>7 DEF IInv

\* MsgRestoreInterchainAccount: the old channel is empty, so nothing was pending.
LEMMA RestoreStep ==
    ASSUME IInv, OrderlyRelaying, RestoreInterchainAccount
    PROVE  IInv'
<1>1. \A i \in Ids : Pending(i) = {} /\ depositRecords[i].txs = 0
  <2>1. \A i \in Ids : Pending(i) = {}
    <3>1. \A i \in Ids, k \in Batches : delegateIcas[i][k].state # "sent"
      BY Zenon DEF RestoreInterchainAccount, OrderlyRelaying
    <3>2. \A i \in Ids, k \in Batches :
              delegateIcas[i][k].state \in {"none", "sent", "success", "failure"}
      BY DEF IInv, RecordsTypeOK
    <3>3. \A i \in Ids : Executed(i) = {}
      BY Zenon DEF IInv, RestoreInterchainAccount
    <3> QED
      BY Zenon, <3>1, <3>2, <3>3 DEF Pending, Executed
  <2> QED
    BY Zenon, <2>1, NothingCounted DEF IInv
<1>2. /\ depositRecords' = [i \in Ids |->
             IF depositRecords[i].status = "DELEGATION_IN_PROGRESS"
             THEN [depositRecords[i] EXCEPT !.status = "DELEGATION_QUEUE", !.txs = 0]
             ELSE depositRecords[i]]
      /\ delegateIcas' = [i \in Ids |-> [k \in Batches |-> NoIca]]
      /\ channel' = "handshake" /\ UNCHANGED <<transfers, reinvestIca>>
  BY Zenon DEF RestoreInterchainAccount, Restored
<1>3. RecordsTypeOK'
  <2>1. \A i \in Ids : depositRecords'[i] \in
            [status : Statuses, amount : Int, current : BOOLEAN, txs : Nat]
    BY ZenonT(30), <1>2 DEF IInv, RecordsTypeOK, Statuses
  <2> QED
    BY Zenon, <1>2, <2>1 DEF IInv, RecordsTypeOK, NoIca
<1>4. ASSUME NEW i \in Ids PROVE Pending(i)' = {} /\ Executed(i)' = {}
  BY Zenon, <1>2 DEF Pending, Executed, NoIca
<1>5. ASSUME NEW i \in Ids PROVE RecordInv(i)'
  <2>1. depositRecords'[i].txs = 0
    BY ZenonT(30), <1>1, <1>2 DEF IInv, RecordsTypeOK
  <2>2. transfers'[i] # "none" => depositRecords'[i].status = "TRANSFER_IN_PROGRESS"
    BY Zenon, <1>2 DEF IInv, RecordInv
  <2>3. \E c \in [0..MaxBatches -> Nat] : CutAt(i, c)'
    BY Zenon, <1>4 DEF IInv, RecordInv, CutAt
  <2> QED
    BY Zenon, <1>4, <2>1, <2>2, <2>3, FS_EmptySet DEF RecordInv
<1> QED
  BY Zenon, <1>3, <1>4, <1>5 DEF IInv
-----------------------------------------------------------------------------
\* A record whose delegation was submitted: the split cuts the whole amount.
LEMMA SubmittedRecord ==
    ASSUME NEW i \in Ids, NEW f \in Splits(depositRecords'[i].amount),
           depositRecords'[i].amount \in Nat,
           delegateIcas'[i] = Submitted(f),
           depositRecords'[i].txs = Used(f),
           depositRecords'[i].status = "DELEGATION_IN_PROGRESS",
           transfers'[i] = "none"
    PROVE  RecordInv(i)' /\ delegateIcas'[i] \in
              [Batches -> [state : {"none", "sent", "success", "failure"}, amount : Nat]]
<1> DEFINE amount == depositRecords'[i].amount
<1>1. PICK c \in Cuts(amount) : f = [k \in Batches |-> c[k] - c[k - 1]]
  BY Zenon DEF Splits
<1>2. /\ c \in [0..MaxBatches -> 0..amount] /\ c[0] = 0 /\ c[MaxBatches] = amount
      /\ \A j, k \in 0..MaxBatches : j <= k => c[j] <= c[k]
  BY Zenon DEF Cuts
<1>3. \A k \in Batches : /\ k \in 0..MaxBatches /\ k - 1 \in 0..MaxBatches
                         /\ c[k] \in Nat /\ c[k - 1] \in Nat
                         /\ f[k] = c[k] - c[k - 1] /\ f[k] \in Nat
  <2> SUFFICES ASSUME NEW k \in Batches
               PROVE  /\ k \in 0..MaxBatches /\ k - 1 \in 0..MaxBatches
                      /\ c[k] \in Nat /\ c[k - 1] \in Nat
                      /\ f[k] = c[k] - c[k - 1] /\ f[k] \in Nat
    BY Zenon
  <2>1. k \in 0..MaxBatches /\ k - 1 \in 0..MaxBatches /\ k - 1 <= k
    BY MaxBatchesAssumption DEF Batches
  <2>2. c[k] \in Nat /\ c[k - 1] \in Nat /\ c[k - 1] <= c[k]
    BY <1>2, <2>1
  <2> QED
    BY <1>1, <2>1, <2>2
<1>4. Pending(i)' = {k \in Batches : f[k] > 0}
  BY <1>3 DEF Pending, Submitted, NoIca
<1>5. CutAt(i, c)'
  <2>1. ASSUME NEW k \in Pending(i)'
        PROVE  /\ delegateIcas'[i][k].amount = c[k] - c[k - 1]
               /\ delegateIcas'[i][k].amount > 0
               /\ amount >= c[MaxBatches] - c[k - 1]
    BY <1>2, <1>3, <1>4 DEF Submitted
  <2> QED
    BY Zenon, <1>2, <2>1 DEF CutAt
<1>6. c \in [0..MaxBatches -> Nat]
  BY <1>2
<1>7. delegateIcas'[i] \in
          [Batches -> [state : {"none", "sent", "success", "failure"}, amount : Nat]]
  BY <1>3 DEF Submitted, NoIca
<1> QED
  BY Zenon, <1>4, <1>5, <1>6, <1>7 DEF RecordInv, Used

\* The stride epoch: new, removed and transferred records have nothing pending, and a
\* record is delegated only when it counts no transaction.
LEMMA StrideEpochStep ==
    ASSUME IInv, NEW ok, StrideEpoch(ok)
    PROVE  IInv'
<1>1. PICK new \in NewRecords :
        \E split \in [Stakeable(Aged(new), ok) ->
                         UNION {Splits(Aged(new)[i].amount) : i \in Stakeable(Aged(new), ok)}] :
          /\ \A i \in Stakeable(Aged(new), ok) : split[i] \in Splits(Aged(new)[i].amount)
          /\ depositRecords' = AfterEpoch(Aged(new), ok, split)
          /\ transfers' = [i \in Ids |-> IF i \in Transferred(Aged(new), ok) THEN "sent"
                                         ELSE transfers[i]]
          /\ delegateIcas' = [i \in Ids |-> IF i \in Stakeable(Aged(new), ok)
                                            THEN Submitted(split[i]) ELSE delegateIcas[i]]
  BY Zenon DEF StrideEpoch
<1> DEFINE records == Aged(new)
<1>2. PICK split :
          /\ \A i \in Stakeable(records, ok) : split[i] \in Splits(records[i].amount)
          /\ depositRecords' = AfterEpoch(records, ok, split)
          /\ transfers' = [i \in Ids |-> IF i \in Transferred(records, ok) THEN "sent"
                                         ELSE transfers[i]]
          /\ delegateIcas' = [i \in Ids |-> IF i \in Stakeable(records, ok)
                                            THEN Submitted(split[i]) ELSE delegateIcas[i]]
  BY Zenon, <1>1
<1>3. UNCHANGED <<channel, reinvestIca>>
  BY Zenon DEF StrideEpoch
<1> DEFINE Rec == [status : Statuses, amount : Int, current : BOOLEAN, txs : Nat]
           Ica == [Batches -> [state : {"none", "sent", "success", "failure"}, amount : Nat]]
<1>4. ASSUME NEW i \in Ids
      PROVE  /\ RecordInv(i)' /\ depositRecords'[i] \in Rec
             /\ transfers'[i] \in {"none", "sent", "received", "rejected"}
             /\ delegateIcas'[i] \in Ica
             /\ channel # "open" => delegateIcas'[i] = delegateIcas[i]
  <2>1. /\ RecordInv(i) /\ depositRecords[i] \in Rec /\ delegateIcas[i] \in Ica
        /\ transfers[i] \in {"none", "sent", "received", "rejected"}
    BY Zenon DEF IInv, RecordsTypeOK
  <2>2. records[i] = IF i \in new THEN DepositRecord("TRANSFER_QUEUE", 0, 0)
                     ELSE [depositRecords[i] EXCEPT !.current = FALSE]
    BY Zenon DEF Aged
  <2>3. CASE i \in new
    <3>1. Pending(i) = {} /\ transfers[i] = "none"
      BY Zenon, <2>3 DEF NewRecords, NextId, FreeIds
    <3>2. records[i].current /\ records[i].status = "TRANSFER_QUEUE"
      BY <2>2, <2>3 DEF DepositRecord
    <3>3. /\ i \notin Empty(records) /\ i \notin Transferred(records, ok)
          /\ i \notin Stakeable(records, ok)
      BY Zenon, <3>2 DEF Empty, Transferred, Queued, Stakeable
    <3>4. /\ depositRecords'[i] = DepositRecord("TRANSFER_QUEUE", 0, 0)
          /\ transfers'[i] = "none" /\ delegateIcas'[i] = delegateIcas[i]
      BY Zenon, <1>2, <2>2, <2>3, <3>1, <3>3 DEF AfterEpoch
    <3>5. RecordInv(i)'
      BY <3>1, <3>4, StillIdle DEF DepositRecord
    <3> QED
      BY <2>1, <3>4, <3>5 DEF DepositRecord, Statuses
  <2>4. CASE i \notin new
    <3>1. /\ records[i] \in Rec
          /\ records[i].status = depositRecords[i].status
          /\ records[i].txs = depositRecords[i].txs
          /\ records[i].amount = depositRecords[i].amount
      BY Zenon, <2>1, <2>2, <2>4
    <3>2. CASE i \in Empty(records) \/ i \in Transferred(records, ok)
      <4>1. depositRecords[i].status = "TRANSFER_QUEUE" /\ i \notin Stakeable(records, ok)
        BY Zenon, <3>1, <3>2 DEF Empty, Transferred, Queued, Stakeable
      <4>2. Pending(i) = {} /\ depositRecords[i].txs = 0 /\ transfers[i] = "none"
        BY Zenon, <2>1, <4>1, NothingPending DEF RecordInv
      <4>3. delegateIcas'[i] = delegateIcas[i]
        BY Zenon, <1>2, <4>1
      <4>4. CASE i \in Empty(records)
        <5>1. depositRecords'[i] = NoRecord /\ transfers'[i] = "none"
          BY Zenon, <1>2, <4>2, <4>4 DEF AfterEpoch, Transferred
        <5>2. RecordInv(i)'
          BY <4>2, <4>3, <5>1, StillIdle DEF NoRecord
        <5> QED
          BY <2>1, <4>3, <5>1, <5>2 DEF NoRecord, Statuses
      <4>5. CASE i \notin Empty(records)
        <5>1. /\ depositRecords'[i] = [records[i] EXCEPT !.status = "TRANSFER_IN_PROGRESS"]
              /\ transfers'[i] = "sent"
          BY Zenon, <1>2, <3>2, <4>5 DEF AfterEpoch
        <5>2. /\ depositRecords'[i] \in Rec /\ depositRecords'[i].txs = 0
              /\ depositRecords'[i].status = "TRANSFER_IN_PROGRESS"
          BY Zenon, <3>1, <4>2, <5>1 DEF Statuses
        <5>3. RecordInv(i)'
          BY Zenon, <4>2, <4>3, <5>2, StillIdle
        <5> QED
          BY Zenon, <2>1, <4>3, <5>1, <5>2, <5>3
      <4> QED
        BY Zenon, <4>4, <4>5
    <3>3. CASE /\ i \in Stakeable(records, ok)
               /\ i \notin Empty(records) /\ i \notin Transferred(records, ok)
      <4>1. /\ records[i].status = "DELEGATION_QUEUE" /\ records[i].txs = 0
            /\ records[i].amount \in Nat /\ channel = "open"
        BY <3>1, <3>3 DEF Stakeable
      <4>2. transfers[i] = "none"
        BY Zenon, <2>1, <3>1, <4>1 DEF RecordInv
      <4> DEFINE n == Used(split[i])
      <4>3. n \in Nat
        <5>1. IsFiniteSet(Batches)
          BY FS_Interval, MaxBatchesAssumption DEF Batches
        <5>2. IsFiniteSet({k \in Batches : split[i][k] > 0})
          BY Zenon, <5>1, FS_Subset
        <5> QED
          BY Zenon, <5>2, FS_CardinalityType DEF Used
      <4>4. depositRecords'[i] = [records[i] EXCEPT !.status = "DELEGATION_IN_PROGRESS",
                                                    !.txs = @ + n]
        BY Zenon, <1>2, <3>3 DEF AfterEpoch
      <4>5. /\ depositRecords'[i] \in Rec /\ depositRecords'[i].txs = n
            /\ depositRecords'[i].amount = records[i].amount
            /\ depositRecords'[i].status = "DELEGATION_IN_PROGRESS"
        <5>1. \A m \in Nat :
                 LET r == [records[i] EXCEPT !.status = "DELEGATION_IN_PROGRESS", !.txs = m]
                 IN  /\ r \in Rec /\ r.txs = m /\ r.amount = records[i].amount
                     /\ r.status = "DELEGATION_IN_PROGRESS"
          BY Zenon, <3>1 DEF Statuses
        <5>2. records[i].txs + n = n
          BY <4>1, <4>3
        <5>3. depositRecords'[i] = [records[i] EXCEPT !.status = "DELEGATION_IN_PROGRESS",
                                                      !.txs = n]
          BY Zenon, <3>1, <4>4, <5>2
        <5> QED
          BY Zenon, <4>3, <5>1, <5>3
      <4>6. /\ delegateIcas'[i] = Submitted(split[i]) /\ transfers'[i] = "none"
            /\ split[i] \in Splits(depositRecords'[i].amount)
        BY Zenon, <1>2, <3>3, <4>2, <4>5
      <4>7. RecordInv(i)' /\ delegateIcas'[i] \in Ica
        BY Zenon, <4>1, <4>5, <4>6, SubmittedRecord
      <4> QED
        BY Zenon, <4>1, <4>5, <4>6, <4>7
    <3>4. CASE /\ i \notin Stakeable(records, ok)
               /\ i \notin Empty(records) /\ i \notin Transferred(records, ok)
      <4>1. /\ depositRecords'[i] = records[i] /\ transfers'[i] = transfers[i]
            /\ delegateIcas'[i] = delegateIcas[i]
        BY Zenon, <1>2, <3>4 DEF AfterEpoch
      <4>2. RecordInv(i)'
        BY Zenon, <2>1, <3>1, <4>1, RecordUntouched
      <4> QED
        BY Zenon, <2>1, <3>1, <4>1, <4>2
    <3> QED
      BY Zenon, <3>2, <3>3, <3>4
  <2> QED
    BY Zenon, <2>3, <2>4
<1>5. RecordsTypeOK'
  <2>1. /\ depositRecords' \in [Ids -> Rec] /\ delegateIcas' \in [Ids -> Ica]
        /\ transfers' \in [Ids -> {"none", "sent", "received", "rejected"}]
    BY Zenon, <1>2, <1>4 DEF AfterEpoch
  <2> QED
    BY Zenon, <1>3, <2>1 DEF IInv, RecordsTypeOK
<1>6. channel # "open" => \A i \in Ids : Executed(i)' = {}
  BY Zenon, <1>4 DEF IInv, Executed
<1> QED
  BY Zenon, <1>3, <1>4, <1>5, <1>6 DEF IInv
-----------------------------------------------------------------------------
\* Every step preserves the invariant.
LEMMA NextIInv ==
    ASSUME OrderlyRelaying
    PROVE  IInv /\ [Next]_vars => IInv'
<1> SUFFICES ASSUME IInv, [Next]_vars PROVE IInv'
  BY Zenon
<1>1. ASSUME NEW amount \in StakeAmounts, LiquidStake(amount) PROVE IInv'
  BY Zenon, <1>1, LiquidStakeStep
<1>2. ASSUME NEW amount \in StakeAmounts, WithdrawalHostBalanceCallback(amount) PROVE IInv'
  <2>1. UNCHANGED <<depositRecords, transfers, delegateIcas, channel>>
    BY Zenon, <1>2 DEF WithdrawalHostBalanceCallback, recordVars, icaVars
  <2>2. reinvestIca' \in [state : {"none", "sent", "success", "failure"}, amount : Nat]
    BY Zenon, <1>2, DepositAssumptions DEF WithdrawalHostBalanceCallback
  <2> QED
    BY Zenon, <2>1, <2>2, UnrelatedStep DEF IInv, RecordsTypeOK
<1>3. CASE BeginBlocker \/ DeprecateHostZone \/ ResumeHostZone
  <2>1. UNCHANGED <<depositRecords, transfers, delegateIcas, channel, reinvestIca>>
    BY Zenon, <1>3 DEF BeginBlocker, DeprecateHostZone, ResumeHostZone, recordVars, icaVars
  <2> QED
    BY Zenon, <2>1, UnrelatedStep DEF IInv, RecordsTypeOK
<1>4. CASE StrideEpochStart \/ StrideEpochWithErrors
  <2>1. PICK ok \in SUBSET Submissions : StrideEpoch(ok)
    BY Zenon, <1>4 DEF StrideEpochStart, StrideEpochWithErrors
  <2> QED
    BY Zenon, <2>1, StrideEpochStep
<1>5. ASSUME NEW i \in Ids,
             TransferReceived(i) \/ TransferAcknowledged(i) \/ TransferTimedOut(i)
      PROVE  IInv'
  BY Zenon, <1>5, TransferStep
<1>6. ASSUME NEW i \in Ids, NEW k \in Batches, HostExecutesDelegate(i, k) PROVE IInv'
  BY Zenon, <1>6, HostExecutesDelegateStep
<1>7. ASSUME NEW i \in Ids, NEW k \in Batches,
             DelegateAcknowledged(i, k) \/ DelegateTimedOut(i, k)
      PROVE  IInv'
  BY Zenon, <1>7, DelegateCallbackStep
<1>14. CASE RemoveValidator
  <2>1. UNCHANGED <<depositRecords, transfers, delegateIcas, channel, reinvestIca>>
    BY Zenon, <1>14 DEF RemoveValidator, recordVars
  <2> QED
    BY Zenon, <2>1, UnrelatedStep DEF IInv, RecordsTypeOK
<1>8. CASE DelegationChannelCloses
  <2>1. /\ UNCHANGED <<depositRecords, transfers, delegateIcas, reinvestIca>>
        /\ channel' = "closed" /\ \A i \in Ids : Executed(i) = {}
    BY Zenon, <1>8 DEF DelegationChannelCloses, recordVars, MayClose, OrderlyRelaying
  <2> QED
    BY Zenon, <2>1, UnrelatedStep DEF IInv, RecordsTypeOK
<1>9. CASE RestoreInterchainAccount
  BY Zenon, <1>9, RestoreStep
<1>10. CASE OnChanOpenAck
  <2>1. UNCHANGED <<depositRecords, transfers, delegateIcas, reinvestIca>> /\ channel' = "open"
    BY Zenon, <1>10 DEF OnChanOpenAck, recordVars
  <2> QED
    BY Zenon, <2>1, UnrelatedStep DEF IInv, RecordsTypeOK
<1>11. CASE HostExecutesReinvest
  <2>1. UNCHANGED <<depositRecords, transfers, delegateIcas, channel>>
    BY Zenon, <1>11 DEF HostExecutesReinvest, recordVars, icaVars
  <2>2. reinvestIca' \in [state : {"none", "sent", "success", "failure"}, amount : Nat]
    BY Zenon, <1>11 DEF HostExecutesReinvest, IInv, RecordsTypeOK
  <2> QED
    BY Zenon, <2>1, <2>2, UnrelatedStep DEF IInv, RecordsTypeOK
<1>12. CASE ReinvestCallback
  BY Zenon, <1>12, ReinvestCallbackStep
<1>13. CASE UNCHANGED vars
  <2>1. UNCHANGED <<depositRecords, transfers, delegateIcas, channel, reinvestIca>>
    BY Zenon, <1>13 DEF vars, recordVars, icaVars
  <2> QED
    BY <2>1, UnrelatedStep DEF IInv, RecordsTypeOK
<1> QED
  BY Zenon, <1>1, <1>2, <1>3, <1>4, <1>5, <1>6, <1>7, <1>8, <1>9, <1>10, <1>11, <1>12, <1>13,
     <1>14 DEF Next, DelegationStep

\* The records, transfers and ICAs keep their types, and DelegationTxsInProgress of every
\* record counts exactly its ICAs in flight, for any number of records, batches, tokens
\* and faults.
THEOREM TxsExact ==
    ASSUME OrderlyRelaying
    PROVE  Spec => [](RecordsTypeOK /\ TxsInProgressExact)
<1>1. IInv => RecordsTypeOK /\ TxsInProgressExact
  BY Zenon DEF IInv, RecordInv, TxsInProgressExact
<1>2. IInv /\ [Next]_vars => IInv'
  BY Zenon, NextIInv
<1> QED
  BY <1>1, <1>2, InitIInv, PTL DEF Spec
-----------------------------------------------------------------------------
(* The ledger: what each record contributes to an account, and the sums.   *)

Total(f) == SumFunctionOnSet(f, Ids)

\* Tokens of a record; those still in the deposit account; those in the delegation account
\* or already staked from it; those staked without the acknowledgement having come.
Counted == [i \in Ids |-> IF depositRecords[i].status = "NONE" THEN 0
                          ELSE depositRecords[i].amount]
Queueing == [i \in Ids |-> IF depositRecords[i].status = "TRANSFER_QUEUE"
                           THEN depositRecords[i].amount ELSE 0]
Landed == [i \in Ids |->
              IF \/ depositRecords[i].status \in {"DELEGATION_QUEUE", "DELEGATION_IN_PROGRESS"}
                 \/ transfers[i] = "received"
              THEN depositRecords[i].amount ELSE 0]
Unacked == [i \in Ids |-> ExecutedAmount(i)]
Rewards == IF reinvestIca.state = "success" THEN reinvestIca.amount ELSE 0

\* The tokens the redemption rate is computed from.
Locked == Total(Counted) + totalDelegations

\* A record that waits for its transfer, or is in it, has no delegation, and nothing else
\* is in transfer.
BeforeDelegation(i) ==
    /\ depositRecords[i].status \in {"TRANSFER_QUEUE", "TRANSFER_IN_PROGRESS"} =>
          depositRecords[i].amount \in Nat /\ Pending(i) = {}
    /\ transfers[i] # "none" => depositRecords[i].status = "TRANSFER_IN_PROGRESS"

\* The types of the ledger: the records, and the rest, which most steps leave alone.
ZoneTypeOK ==
    /\ epoch \in 0..(EpochCycle - 1) /\ halted \in BOOLEAN
    /\ redemptionRate \in Nat /\ totalDelegations \in Nat /\ stSupply \in Nat
    /\ delegationBalance \in Nat /\ staked \in Nat /\ faults \in Nat /\ depositBalance \in Int
LedgerTypeOK == RecordsTypeOK /\ ZoneTypeOK

\* The inductive invariant of any relaying.
GInv ==
    /\ LedgerTypeOK
    /\ \A i \in Ids : BeforeDelegation(i)
    /\ totalDelegations + Total(Unacked) <= staked
    /\ Locked \in Nat

\* AccountsBacked, by record.
Ledger ==
    /\ depositBalance = Total(Queueing)
    /\ staked = totalDelegations + Total(Unacked)
    /\ delegationBalance = Total(Landed) + Rewards - Total(Unacked)
-----------------------------------------------------------------------------
Integral(f) == \A i \in Ids : f[i] \in Int
SameBut(i, f, g) == \A j \in Ids \ {i} : f[j] = g[j]

\* A change at one record changes the sum by as much.
LEMMA TotalChange ==
    ASSUME NEW i \in Ids, NEW f, Integral(f), NEW g, Integral(g), SameBut(i, f, g)
    PROVE  Total(g) = Total(f) - f[i] + g[i]
<1>1. /\ IsFiniteSet(Ids) /\ Ids \ {i} = Ids \ {i} /\ At(f, Ids, i) = f[i] /\ At(g, Ids, i) = g[i]
  BY Zenon, DepositAssumptions DEF At
<1>2. SumFunctionOnSet(g, Ids) = SumFunctionOnSet(f, Ids) - At(f, Ids, i) + At(g, Ids, i)
  BY <1>1, SumChange DEF Integral, SameBut
<1> QED
  BY Zenon, <1>1, <1>2 DEF Total

\* Sums of integers are integers, and sums of natural numbers natural numbers.
LEMMA TotalInt ==
    ASSUME NEW f, Integral(f)
    PROVE  Total(f) \in Int
BY Zenon, DepositAssumptions, SumInt DEF Total, Integral

\* A total of natural numbers is one.
LEMMA TotalNat ==
    ASSUME NEW f, \A i \in Ids : f[i] \in Nat
    PROVE  Total(f) \in Nat
BY Zenon, DepositAssumptions, SumNat DEF Total

\* No record changed, and none fell.
LEMMA TotalSame ==
    ASSUME NEW f, NEW g, \A i \in Ids : f[i] = g[i]
    PROVE  Total(f) = Total(g)
BY Zenon, DepositAssumptions, SumEqual DEF Total

\* No record's part falls: neither does the total.
LEMMA TotalMonotone ==
    ASSUME NEW f, Integral(f), NEW g, Integral(g), \A i \in Ids : f[i] <= g[i]
    PROVE  Total(f) <= Total(g)
BY Zenon, DepositAssumptions, SumMonotone DEF Total, Integral

\* Nothing in any record.
LEMMA TotalZero ==
    ASSUME NEW f, \A i \in Ids : f[i] = 0
    PROVE  Total(f) = 0
BY Zenon, DepositAssumptions, SumZero DEF Total

\* A sum over some records as one over all of them.
LEMMA AmountIsTotal ==
    ASSUME RecordsTypeOK, NEW S \in SUBSET Ids, NEW g,
           \A i \in Ids : g[i] = IF i \in S THEN depositRecords[i].amount ELSE 0
    PROVE  Amount(S) = Total(g)
<1> DEFINE f == [i \in Ids |-> depositRecords[i].amount]
<1>1. \A i \in S : f[i] \in Int
  BY Zenon DEF RecordsTypeOK
<1>2. \A i \in Ids : g[i] = IF i \in S THEN f[i] ELSE 0
  BY Zenon
<1>3. IsFiniteSet(Ids)
  BY Zenon, DepositAssumptions
<1>4. Amount(S) = SumFunctionOnSet(f, S)
  BY Zenon DEF Amount
<1> HIDE DEF f
<1> QED
  BY <1>1, <1>2, <1>3, <1>4, SumPart DEF Total
-----------------------------------------------------------------------------
\* Finitely many batches.
LEMMA BatchesFinite == IsFiniteSet(Batches)
BY FS_Interval, MaxBatchesAssumption DEF Batches

\* The batches a record has staked and not heard of.
Succeeded(i) == {k \in Batches : delegateIcas[i][k].state = "success"}

\* What the host has executed of a record's batches, unacknowledged, is a natural number.
LEMMA ExecutedNat ==
    ASSUME RecordsTypeOK, NEW i \in Ids
    PROVE  ExecutedAmount(i) \in Nat
<1> DEFINE f == [k \in Batches |-> delegateIcas[i][k].amount]
<1>1. IsFiniteSet(Batches)
  BY Zenon, BatchesFinite
<1>2. IsFiniteSet(Succeeded(i))
  BY Zenon, <1>1, FS_Subset DEF Succeeded
<1>3. \A k \in Succeeded(i) : f[k] \in Nat
  BY Zenon DEF RecordsTypeOK, Succeeded
<1>4. ExecutedAmount(i) = SumFunctionOnSet(f, Succeeded(i))
  BY Zenon DEF ExecutedAmount, Succeeded
<1> HIDE DEF f
<1> QED
  BY Zenon, <1>2, <1>3, <1>4, SumNat

\* Nothing executed, nothing unacknowledged.
LEMMA NothingExecuted ==
    ASSUME NEW i \in Ids, \A k \in Batches : delegateIcas[i][k].state # "success"
    PROVE  ExecutedAmount(i) = 0
<1> DEFINE f == [k \in Batches |-> delegateIcas[i][k].amount]
<1>1. {k \in Batches : delegateIcas[i][k].state = "success"} = {}
  BY Zenon
<1>2. ExecutedAmount(i) = SumFunctionOnSet(f, {})
  BY Zenon, <1>1 DEF ExecutedAmount
<1> HIDE DEF f
<1> QED
  BY Zenon, <1>2, SumEmpty

\* One batch of record i changes.
Weight(b) == IF b.state = "success" THEN b.amount ELSE 0

\* One batch of a record changes: the executed amount changes by the difference of their weights.
LEMMA BatchChange ==
    ASSUME RecordsTypeOK, RecordsTypeOK', NEW i \in Ids, NEW k \in Batches,
           \A j \in Batches \ {k} : delegateIcas'[i][j] = delegateIcas[i][j]
    PROVE  ExecutedAmount(i)' =
              ExecutedAmount(i) - Weight(delegateIcas[i][k]) + Weight(delegateIcas'[i][k])
<1> DEFINE f == [j \in Batches |-> delegateIcas[i][j].amount]
           g == [j \in Batches |-> delegateIcas'[i][j].amount]
           T == {j \in Batches : delegateIcas[i][j].state = "success"}
           U == {j \in Batches : delegateIcas'[i][j].state = "success"}
<1>1. IsFiniteSet(Batches)
  BY Zenon, BatchesFinite
<1>2. IsFiniteSet(T) /\ IsFiniteSet(U)
  BY Zenon, <1>1, FS_Subset
<1>3. T \ {k} = U \ {k} /\ \A j \in T \ {k} : f[j] = g[j]
  BY Zenon
<1>4. (\A j \in T : f[j] \in Int) /\ (\A j \in U : g[j] \in Int)
  BY DEF RecordsTypeOK
<1>5. At(f, T, k) = Weight(delegateIcas[i][k]) /\ At(g, U, k) = Weight(delegateIcas'[i][k])
  BY Zenon DEF At, Weight
<1>6. ExecutedAmount(i) = SumFunctionOnSet(f, T) /\ ExecutedAmount(i)' = SumFunctionOnSet(g, U)
  BY Zenon DEF ExecutedAmount
<1> HIDE DEF f, g, T, U
<1>7. SumFunctionOnSet(g, U) = SumFunctionOnSet(f, T) - At(f, T, k) + At(g, U, k)
  BY <1>2, <1>3, <1>4, SumChange
<1> QED
  BY Zenon, <1>5, <1>6, <1>7
-----------------------------------------------------------------------------
\* What the records contribute are integers, and what is unacknowledged is no debt.
TotalsOK ==
    /\ Integral(Counted) /\ Integral(Queueing) /\ Integral(Landed) /\ Integral(Unacked)
    /\ \A i \in Ids : Unacked[i] \in Nat
    /\ Total(Counted) \in Int /\ Total(Queueing) \in Int /\ Total(Landed) \in Int
    /\ Total(Unacked) \in Nat

\* The parts of every record are numbers, so that they can be totalled.
LEMMA RecordTotals == RecordsTypeOK => TotalsOK
<1> SUFFICES ASSUME RecordsTypeOK PROVE TotalsOK
  OBVIOUS
<1>1. \A i \in Ids : depositRecords[i].amount \in Int
  BY Zenon DEF RecordsTypeOK
<1>2. Integral(Counted) /\ Integral(Queueing) /\ Integral(Landed)
  BY <1>1 DEF Integral, Counted, Queueing, Landed
<1>3. \A i \in Ids : Unacked[i] \in Nat
  BY Zenon, ExecutedNat DEF Unacked
<1>4. Integral(Unacked)
  BY <1>3 DEF Integral
<1>5. Total(Counted) \in Int /\ Total(Queueing) \in Int /\ Total(Landed) \in Int
  BY Zenon, <1>2, TotalInt
<1>6. Total(Unacked) \in Nat
  BY Zenon, <1>3, TotalNat
<1> QED
  BY Zenon, <1>2, <1>3, <1>4, <1>5, <1>6 DEF TotalsOK

\* The same after a step.
LEMMA RecordTotalsAfter == RecordsTypeOK' => TotalsOK'
BY RecordTotals, PTL
-----------------------------------------------------------------------------
\* All records but i are left alone.
Others(i) ==
    \A j \in Ids \ {i} : /\ depositRecords'[j] = depositRecords[j]
                         /\ transfers'[j] = transfers[j] /\ delegateIcas'[j] = delegateIcas[j]

\* The contributions of the records that are left alone.
LEMMA OthersSame ==
    ASSUME NEW i \in Ids, Others(i)
    PROVE  /\ SameBut(i, Counted, Counted') /\ SameBut(i, Queueing, Queueing')
           /\ SameBut(i, Landed, Landed') /\ SameBut(i, Unacked, Unacked')
           /\ \A j \in Ids \ {i} : BeforeDelegation(j) => BeforeDelegation(j)'
<1>1. SameBut(i, Counted, Counted') /\ SameBut(i, Queueing, Queueing')
  BY Zenon DEF Others, SameBut, Counted, Queueing
<1>2. SameBut(i, Landed, Landed')
  BY Zenon DEF Others, SameBut, Landed
<1>3. SameBut(i, Unacked, Unacked')
  BY Zenon DEF Others, SameBut, Unacked, ExecutedAmount
<1>4. \A j \in Ids \ {i} : BeforeDelegation(j) => BeforeDelegation(j)'
  BY Zenon DEF Others, BeforeDelegation, Pending
<1> QED
  BY Zenon, <1>1, <1>2, <1>3, <1>4

\* What record i contributes changes by c, q, l and u, the zone's delegations by d and the
\* rewards that have arrived by w.
Moved(i, c, q, l, u, w, d) ==
    /\ Counted'[i] = Counted[i] + c /\ Queueing'[i] = Queueing[i] + q
    /\ Landed'[i] = Landed[i] + l /\ Unacked'[i] = Unacked[i] + u
    /\ Rewards' = Rewards + w
    /\ totalDelegations' = totalDelegations + d /\ 0 <= c + d
    /\ staked' = staked + d + u
    /\ depositBalance' = depositBalance + q
    /\ delegationBalance' = delegationBalance + l + w - u

\* A step that moves one record's tokens keeps the books.
LEMMA OneRecord ==
    ASSUME GInv, LedgerTypeOK', NEW i \in Ids, Others(i), BeforeDelegation(i)',
           NEW c \in Int, NEW q \in Int, NEW l \in Int, NEW u \in Int, NEW w \in Int,
           NEW d \in Int, Moved(i, c, q, l, u, w, d)
    PROVE  GInv' /\ Locked' = Locked + c + d /\ (Ledger => Ledger')
<1>1. TotalsOK /\ TotalsOK'
  BY Zenon, RecordTotals, RecordTotalsAfter DEF GInv, LedgerTypeOK
<1>2. /\ Integral(Counted) /\ Integral(Queueing) /\ Integral(Landed) /\ Integral(Unacked)
      /\ Integral(Counted') /\ Integral(Queueing') /\ Integral(Landed') /\ Integral(Unacked')
  BY Zenon, <1>1 DEF TotalsOK
<1>3. /\ SameBut(i, Counted, Counted') /\ SameBut(i, Queueing, Queueing')
      /\ SameBut(i, Landed, Landed') /\ SameBut(i, Unacked, Unacked')
  BY Zenon, OthersSame
<1>4. /\ Total(Counted)' = Total(Counted') /\ Total(Queueing)' = Total(Queueing')
      /\ Total(Landed)' = Total(Landed') /\ Total(Unacked)' = Total(Unacked')
  BY Zenon DEF Total
<1>5. /\ Total(Counted') = Total(Counted) - Counted[i] + Counted'[i]
      /\ Total(Queueing') = Total(Queueing) - Queueing[i] + Queueing'[i]
      /\ Total(Landed') = Total(Landed) - Landed[i] + Landed'[i]
      /\ Total(Unacked') = Total(Unacked) - Unacked[i] + Unacked'[i]
  BY Zenon, <1>2, <1>3, TotalChange
<1>6. /\ Counted[i] \in Int /\ Queueing[i] \in Int /\ Landed[i] \in Int /\ Unacked[i] \in Int
      /\ Total(Counted) \in Int /\ Total(Queueing) \in Int
      /\ Total(Landed) \in Int /\ Total(Unacked) \in Int
  BY <1>1 DEF TotalsOK, Integral
<1>7. /\ Total(Counted)' = Total(Counted) + c /\ Total(Queueing)' = Total(Queueing) + q
      /\ Total(Landed)' = Total(Landed) + l /\ Total(Unacked)' = Total(Unacked) + u
  BY <1>4, <1>5, <1>6 DEF Moved
<1>8. /\ totalDelegations \in Int /\ staked \in Int /\ depositBalance \in Int
      /\ delegationBalance \in Int /\ Rewards \in Int
  BY DEF GInv, LedgerTypeOK, ZoneTypeOK, RecordsTypeOK, Rewards
<1>9. Locked' = Locked + c + d
  BY <1>6, <1>7, <1>8 DEF Locked, Moved
<1>10. Locked' \in Nat
  BY <1>9 DEF GInv, Moved
<1>11. totalDelegations' + Total(Unacked)' <= staked'
  <2>1. totalDelegations + Total(Unacked) <= staked
    BY Zenon DEF GInv
  <2> QED
    BY <1>6, <1>7, <1>8, <2>1 DEF Moved
<1>12. \A j \in Ids : BeforeDelegation(j)'
  BY Zenon, OthersSame DEF GInv
<1>13. ASSUME Ledger PROVE Ledger'
  BY <1>6, <1>7, <1>8, <1>13 DEF Ledger, Moved
<1> QED
  BY Zenon, <1>9, <1>10, <1>11, <1>12, <1>13 DEF GInv

\* A step that changes no record.
LEMMA NoRecordStep ==
    ASSUME GInv, LedgerTypeOK', UNCHANGED <<depositRecords, transfers, delegateIcas>>,
           UNCHANGED <<totalDelegations, staked, depositBalance>>,
           NEW w \in Int, Rewards' = Rewards + w, delegationBalance' = delegationBalance + w
    PROVE  GInv' /\ Locked' = Locked /\ (Ledger => Ledger')
<1>1. Counted' = Counted /\ Queueing' = Queueing /\ Landed' = Landed
  BY Zenon DEF Counted, Queueing, Landed
<1>2. Unacked' = Unacked
  BY Zenon DEF Unacked, ExecutedAmount
<1>3. /\ Total(Counted)' = Total(Counted) /\ Total(Queueing)' = Total(Queueing)
      /\ Total(Landed)' = Total(Landed) /\ Total(Unacked)' = Total(Unacked)
  BY Zenon, <1>1, <1>2 DEF Total
<1>4. Locked' = Locked
  BY Zenon, <1>3 DEF Locked
<1>5. \A j \in Ids : BeforeDelegation(j)'
  BY Zenon DEF GInv, BeforeDelegation, Pending
<1>6. TotalsOK
  BY Zenon, RecordTotals DEF GInv, LedgerTypeOK
<1>7. /\ delegationBalance \in Int /\ Rewards \in Int /\ Total(Landed) \in Int
      /\ Total(Unacked) \in Int
  BY <1>6 DEF GInv, LedgerTypeOK, ZoneTypeOK, RecordsTypeOK, Rewards, TotalsOK
<1>8. ASSUME Ledger PROVE Ledger'
  BY <1>3, <1>7, <1>8 DEF Ledger
<1> QED
  BY Zenon, <1>3, <1>4, <1>5, <1>8 DEF GInv
-----------------------------------------------------------------------------
\* Integer division.
LEMMA DivMod ==
    ASSUME NEW n \in Int, NEW d \in Nat \ {0}
    PROVE  n \div d \in Int /\ n % d \in 0..(d - 1) /\ n = d * (n \div d) + (n % d)
OBVIOUS

\* What rounding to the closest integer may add or drop: half of the unit.
LEMMA RoundBounds ==
    ASSUME NEW n \in Nat, NEW d \in Nat \ {0}
    PROVE  /\ RoundHalfEven(n, d) \in Nat
           /\ 2 * (d * RoundHalfEven(n, d)) <= 2 * n + d
           /\ 2 * n <= 2 * (d * RoundHalfEven(n, d)) + d
<1> DEFINE q == n \div d
           r == n % d
<1>1. q \in Int /\ r \in Int /\ 0 <= r /\ r < d /\ n = d * q + r
  BY DivMod
<1>2. q \in Nat
  <2>1. SUFFICES ASSUME q <= -1 PROVE FALSE
    BY <1>1
  <2>2. d * q <= d * (-1)
    BY <1>1, <2>1
  <2> QED
    BY <1>1, <2>2
<1>3. d * q \in Int /\ d * (q + 1) = d * q + d
  BY <1>1
<1>4. CASE RoundHalfEven(n, d) = q /\ 2 * r <= d
  BY <1>1, <1>2, <1>3, <1>4
<1>5. CASE RoundHalfEven(n, d) = q + 1 /\ 2 * r >= d
  <2>1. RoundHalfEven(n, d) \in Nat /\ d * RoundHalfEven(n, d) = d * q + d
    BY <1>2, <1>3, <1>5
  <2> QED
    BY <1>1, <1>3, <1>5, <2>1
<1> QED
  BY <1>1, <1>4, <1>5 DEF RoundHalfEven

\* Division by a positive number keeps the order.
LEMMA Cancel ==
    ASSUME NEW a \in Int, NEW b \in Int, NEW p \in Nat \ {0}, p * a <= p * b
    PROVE  a <= b
<1>1. SUFFICES ASSUME b + 1 <= a PROVE FALSE
  OBVIOUS
<1>2. p * (b + 1) <= p * a /\ p * (b + 1) = p * b + p /\ p * a \in Int /\ p * b \in Int
  BY <1>1
<1> QED
  BY <1>2

\* The quotient of natural numbers is natural.
LEMMA DivNat ==
    ASSUME NEW n \in Nat, NEW d \in Nat \ {0}
    PROVE  n \div d \in Nat /\ d * (n \div d) <= n
OBVIOUS

\* The stTokens of a stake: rounding and truncation never give out more than the rate, as
\* long as the rate is below two.
LEMMA StakeRounding ==
    ASSUME NEW a \in Nat, NEW rate \in Nat \ {0}
    PROVE  /\ TruncateInt(Quo(NewDecFromInt(a), rate)) \in Nat
           /\ rate < 2 * Precision =>
                 TruncateInt(Quo(NewDecFromInt(a), rate)) * rate <= a * Precision
<1> DEFINE y == Quo(NewDecFromInt(a), rate)
           st == TruncateInt(y)
           n == (a * Precision) * Precision
<1>1. PICK P \in Nat \ {0} : P = Precision
  BY Zenon, PrecisionAssumption
<1>2. n \in Nat /\ y = RoundHalfEven(n, rate)
  BY <1>1 DEF Quo, NewDecFromInt
<1> HIDE DEF n
<1>3. y \in Nat /\ 2 * (rate * y) <= 2 * n + rate
  BY Zenon, <1>2, RoundBounds
<1>4. st = y \div P
  BY Zenon, <1>1 DEF TruncateInt
<1> HIDE DEF y
<1>5. st \in Nat /\ P * st <= y
  BY Zenon, <1>3, <1>4, DivNat
<1> HIDE DEF st
<1> SUFFICES ASSUME rate < 2 * P PROVE st * rate <= a * P
  BY Zenon, <1>1, <1>5 DEF st, y
<1>6. PICK v \in Nat : v = P * st
  BY <1>5
<1>7. rate * v <= rate * y
  BY <1>3, <1>5, <1>6
<1>8. PICK x \in Nat : x = st * rate
  BY <1>5
<1>9. PICK b \in Nat : b = a * P
  OBVIOUS
<1>10. rate * v = P * x /\ n = P * b /\ P * x \in Nat /\ P * b \in Nat /\ rate * y \in Nat
  <2>1. n = (a * P) * P
    BY Zenon, <1>1 DEF n
  <2> QED
    BY <1>3, <1>5, <1>6, <1>8, <1>9, <2>1
<1>11. 2 * (P * x) <= 2 * (P * b) + rate
  BY <1>3, <1>7, <1>10
<1>12. SUFFICES ASSUME b + 1 <= x PROVE FALSE
  BY <1>8, <1>9
<1>13. P * (b + 1) <= P * x /\ P * (b + 1) = P * b + P
  BY <1>12
<1> QED
  BY <1>10, <1>11, <1>13
-----------------------------------------------------------------------------
Record == [status : Statuses, amount : Int, current : BOOLEAN, txs : Nat]

\* The types, split into the records' and the zone's part.
LEMMA TypeOKParts == LedgerTypeOK <=> RecordsTypeOK /\ ZoneTypeOK
BY Zenon DEF LedgerTypeOK

\* The same of the state after a step.
LEMMA TypeOKPartsAfter == LedgerTypeOK' <=> RecordsTypeOK' /\ ZoneTypeOK'
BY TypeOKParts, PTL

\* What is left as it was has neither fallen nor risen.
LEMMA IntFacts ==
    /\ \A a \in Int : a <= a /\ a = a + 0 /\ a = 0 + a
    /\ \A n \in Nat : 0 <= n /\ n \in Int
    /\ 0 \in Int
OBVIOUS

\* Taking d away is adding -d.
LEMMA Negated ==
    \A d \in Nat : \E e \in Int :
        /\ e = -d /\ 0 <= e + d /\ 0 = d + e
        /\ \A a \in Int : /\ a - d = a + e /\ a - d + 0 = a + e
                          /\ a = a + d + e /\ a = a + e + 0 - e
<1> TAKE d \in Nat
<1> WITNESS -d \in Int
<1> QED
  OBVIOUS

\* The rewards the host has sent back are an amount.
LEMMA RewardsInt == ASSUME RecordsTypeOK PROVE Rewards \in Nat
BY Zenon DEF RecordsTypeOK, Rewards

\* The record that is not in the store.
LEMMA NoRecordIs == NoRecord \in Record /\ NoRecord.status = "NONE" /\ NoRecord.amount = 0
BY DEF NoRecord, Record, Statuses

\* Record i gets new contents, its transfer a new state.
LEMMA RecordReplaced ==
    ASSUME GInv, NEW i \in Ids, NEW r \in Record, NEW t \in {"none", "sent", "received", "rejected"},
           depositRecords' = [depositRecords EXCEPT ![i] = r],
           transfers' = [transfers EXCEPT ![i] = t],
           UNCHANGED <<delegateIcas, channel>>,
           reinvestIca' \in [state : {"none", "sent", "success", "failure"}, amount : Nat]
    PROVE  /\ RecordsTypeOK' /\ Others(i)
           /\ depositRecords'[i] = r /\ transfers'[i] = t
           /\ Pending(i)' = Pending(i) /\ Unacked'[i] = Unacked[i]
<1>1. RecordsTypeOK
  BY Zenon, TypeOKParts DEF GInv
<1>2. depositRecords \in [Ids -> Record] /\ transfers \in [Ids -> {"none", "sent", "received", "rejected"}]
  BY Zenon, <1>1 DEF RecordsTypeOK, Record
<1>3. depositRecords' \in [Ids -> Record] /\ transfers' \in [Ids -> {"none", "sent", "received", "rejected"}]
  BY Zenon, <1>2
<1>4. RecordsTypeOK'
  BY Zenon, <1>1, <1>3 DEF RecordsTypeOK, Record
<1>5. Others(i) /\ depositRecords'[i] = r /\ transfers'[i] = t
  BY Zenon, <1>2 DEF Others
<1>6. Pending(i)' = Pending(i)
  BY Zenon DEF Pending
<1>7. Unacked'[i] = Unacked[i]
  BY Zenon DEF Unacked, ExecutedAmount
<1> QED
  BY Zenon, <1>4, <1>5, <1>6, <1>7

\* MsgLiquidStake.
LEMMA LiquidStakeLedger ==
    ASSUME GInv, NEW amount \in StakeAmounts, LiquidStake(amount)
    PROVE  /\ GInv' /\ Locked' = Locked + amount /\ (Ledger => Ledger')
           /\ UNCHANGED redemptionRate /\ redemptionRate \in Nat \ {0}
           /\ redemptionRate <= MaxSafetyThreshold
           /\ stSupply' = stSupply + TruncateInt(Quo(NewDecFromInt(amount), redemptionRate))
<1>0. /\ RecordsTypeOK /\ ZoneTypeOK /\ amount \in Nat
      /\ MinSafetyThreshold \in Nat \ {0} /\ MaxSafetyThreshold \in Nat
  BY Zenon, TypeOKParts, DepositAssumptions DEF GInv
<1>1. PICK i \in Ids :
          /\ depositRecords[i].status = "TRANSFER_QUEUE"
          /\ depositRecords' = [depositRecords EXCEPT ![i].amount = @ + amount]
  BY ZenonT(30) DEF LiquidStake
<1> DEFINE r == [depositRecords[i] EXCEPT !.amount = @ + amount]
<1>2. depositRecords[i] \in Record /\ transfers[i] = "none"
  BY Zenon, <1>0, <1>1 DEF RecordsTypeOK, Record, GInv, BeforeDelegation
<1>3. /\ r \in Record /\ r.status = "TRANSFER_QUEUE"
      /\ r.amount = depositRecords[i].amount + amount
  BY <1>0, <1>1, <1>2 DEF Record
<1>4. /\ depositRecords' = [depositRecords EXCEPT ![i] = r]
      /\ transfers' = [transfers EXCEPT ![i] = "none"]
      /\ UNCHANGED <<delegateIcas, channel, reinvestIca>>
      /\ reinvestIca \in [state : {"none", "sent", "success", "failure"}, amount : Nat]
  BY Zenon, <1>0, <1>1, <1>2 DEF RecordsTypeOK, LiquidStake, icaVars
<1> HIDE DEF r
<1>5. /\ RecordsTypeOK' /\ Others(i) /\ depositRecords'[i] = r /\ transfers'[i] = "none"
      /\ Pending(i)' = Pending(i) /\ Unacked'[i] = Unacked[i]
  BY Zenon, <1>3, <1>4, RecordReplaced
<1>6. depositRecords[i].amount \in Nat /\ Pending(i) = {}
  BY Zenon, <1>1 DEF GInv, BeforeDelegation
<1>7. BeforeDelegation(i)'
  BY <1>0, <1>3, <1>5, <1>6 DEF BeforeDelegation
<1>8. /\ UNCHANGED <<epoch, halted, redemptionRate, totalDelegations, delegationBalance, staked,
                     faults, reinvestIca>>
      /\ depositBalance' = depositBalance + amount
      /\ stSupply' = stSupply + TruncateInt(Quo(NewDecFromInt(amount), redemptionRate))
      /\ IsRedemptionRateWithinSafetyBounds
  BY Zenon DEF LiquidStake, hostVars
<1>9. redemptionRate \in Nat \ {0} /\ redemptionRate <= MaxSafetyThreshold
  BY <1>0, <1>8 DEF IsRedemptionRateWithinSafetyBounds, ZoneTypeOK
<1>10. stSupply' \in Nat
  BY <1>0, <1>8, <1>9, StakeRounding DEF ZoneTypeOK
<1>11. LedgerTypeOK'
  BY <1>0, <1>5, <1>8, <1>10, TypeOKPartsAfter DEF ZoneTypeOK
<1>12. /\ Counted'[i] = Counted[i] + amount /\ Queueing'[i] = Queueing[i] + amount
       /\ Landed'[i] = Landed[i] + 0
  BY <1>1, <1>2, <1>3, <1>5 DEF Counted, Queueing, Landed
<1>13. /\ Unacked'[i] = Unacked[i] + 0 /\ Rewards' = Rewards + 0
       /\ totalDelegations' = totalDelegations + 0 /\ staked' = staked + 0 + 0
       /\ delegationBalance' = delegationBalance + 0 + 0 - 0
  <2>1. Unacked[i] \in Int
    BY <1>0, RecordTotals DEF TotalsOK
  <2> QED
    BY <1>0, <1>5, <1>8, <2>1 DEF ZoneTypeOK, Rewards, RecordsTypeOK
<1>m. Moved(i, amount, amount, 0, 0, 0, 0)
  BY <1>0, <1>8, <1>12, <1>13 DEF Moved
<1>14. GInv' /\ Locked' = Locked + amount + 0 /\ (Ledger => Ledger')
  BY Zenon, <1>0, <1>5, <1>7, <1>11, <1>m, IntFacts, OneRecord
<1>15. Locked + amount + 0 = Locked + amount
  BY <1>0 DEF GInv
<1> QED
  BY Zenon, <1>8, <1>9, <1>14, <1>15
-----------------------------------------------------------------------------
\* What every step but LiquidStake and the epoch does: the books stay right, the tokens the
\* rate is computed from do not fall, and neither rate nor supply change.
Kept ==
    /\ GInv' /\ Locked <= Locked' /\ (IInv /\ Ledger => Ledger')
    /\ UNCHANGED <<redemptionRate, stSupply>>

\* The transfer of a record arrives, or is rejected.
LEMMA TransferReceivedLedger ==
    ASSUME GInv, NEW i \in Ids, TransferReceived(i)
    PROVE  Kept
<1>0. RecordsTypeOK /\ ZoneTypeOK
  BY Zenon, TypeOKParts DEF GInv
<1>1. transfers[i] = "sent" /\ depositRecords[i].status = "TRANSFER_IN_PROGRESS"
  BY Zenon DEF TransferReceived, GInv, BeforeDelegation
<1> DEFINE r == depositRecords[i]
<1>2. r \in Record /\ r.amount \in Nat /\ Pending(i) = {}
  BY Zenon, <1>0, <1>1 DEF RecordsTypeOK, Record, GInv, BeforeDelegation
<1>3. PICK t \in {"received", "rejected"} :
          /\ transfers' = [transfers EXCEPT ![i] = t]
          /\ delegationBalance' = delegationBalance + (IF t = "received" THEN r.amount ELSE 0)
          /\ faults' \in Nat
  BY <1>0, <1>2 DEF TransferReceived, Fault, ZoneTypeOK
<1>4. /\ UNCHANGED <<epoch, halted, redemptionRate, stSupply, totalDelegations, depositRecords,
                     delegateIcas, channel, reinvestIca, depositBalance, staked>>
      /\ depositRecords' = [depositRecords EXCEPT ![i] = r]
      /\ reinvestIca \in [state : {"none", "sent", "success", "failure"}, amount : Nat]
  BY Zenon, <1>0 DEF TransferReceived, zoneVars, recordVars, icaVars, RecordsTypeOK
<1>5. /\ RecordsTypeOK' /\ Others(i) /\ depositRecords'[i] = r /\ transfers'[i] = t
      /\ Pending(i)' = Pending(i) /\ Unacked'[i] = Unacked[i]
  BY Zenon, <1>2, <1>3, <1>4, RecordReplaced
<1> HIDE DEF r
<1>6. BeforeDelegation(i)'
  BY Zenon, <1>1, <1>2, <1>5 DEF BeforeDelegation, r
<1> DEFINE l == IF t = "received" THEN r.amount ELSE 0
<1>7. l \in Nat /\ delegationBalance' = delegationBalance + l
  BY Zenon, <1>2, <1>3
<1>8. LedgerTypeOK'
  BY <1>0, <1>3, <1>4, <1>5, <1>7, TypeOKPartsAfter DEF ZoneTypeOK
<1>9. /\ Counted'[i] = Counted[i] + 0 /\ Queueing'[i] = Queueing[i] + 0
      /\ Landed'[i] = Landed[i] + l
  BY <1>1, <1>2, <1>5, <1>7 DEF Counted, Queueing, Landed, r
<1> HIDE DEF l
<1>10. /\ Unacked'[i] = Unacked[i] + 0 /\ Rewards' = Rewards + 0
       /\ totalDelegations' = totalDelegations + 0 /\ staked' = staked + 0 + 0
       /\ depositBalance' = depositBalance + 0
       /\ delegationBalance' = delegationBalance + l + 0 - 0
  <2>1. Unacked[i] \in Int
    BY <1>0, RecordTotals DEF TotalsOK
  <2> QED
    BY <1>0, <1>4, <1>5, <1>7, <2>1 DEF ZoneTypeOK, Rewards, RecordsTypeOK
<1>m. Moved(i, 0, 0, l, 0, 0, 0)
  BY <1>9, <1>10 DEF Moved
<1>11. GInv' /\ Locked' = Locked + 0 + 0 /\ (Ledger => Ledger')
  BY Zenon, <1>5, <1>6, <1>7, <1>8, <1>m, IntFacts, OneRecord
<1>12. Locked <= Locked'
  BY <1>11 DEF GInv
<1> QED
  BY Zenon, <1>4, <1>11, <1>12 DEF Kept

\* TransferCallback.
LEMMA TransferCallbackLedger ==
    ASSUME GInv, NEW i \in Ids, TransferAcknowledged(i) \/ TransferTimedOut(i)
    PROVE  Kept
<1>0. RecordsTypeOK /\ ZoneTypeOK
  BY Zenon, TypeOKParts DEF GInv
<1>1. PICK status \in {"success", "failure", "timeout"} :
          /\ TransferCallback(i, status) /\ transfers[i] # "none"
          /\ status = "success" <=> transfers[i] = "received"
  BY Zenon DEF TransferAcknowledged, TransferTimedOut
<1>2. faults' \in Nat
  BY <1>0 DEF TransferAcknowledged, TransferTimedOut, Fault, ZoneTypeOK
<1>3. depositRecords[i].status = "TRANSFER_IN_PROGRESS"
  BY Zenon, <1>1 DEF GInv, BeforeDelegation
<1> DEFINE r == [depositRecords[i] EXCEPT !.status =
                    IF status = "success" THEN "DELEGATION_QUEUE" ELSE "TRANSFER_QUEUE"]
<1>4. /\ depositRecords[i] \in Record /\ depositRecords[i].amount \in Nat /\ Pending(i) = {}
  BY Zenon, <1>0, <1>3 DEF RecordsTypeOK, Record, GInv, BeforeDelegation
<1>5. /\ r \in Record /\ r.amount = depositRecords[i].amount
      /\ r.status = IF status = "success" THEN "DELEGATION_QUEUE" ELSE "TRANSFER_QUEUE"
  BY Zenon, <1>4 DEF Record, Statuses
<1>6. /\ UNCHANGED <<epoch, halted, redemptionRate, stSupply, totalDelegations,
                     delegateIcas, channel, reinvestIca, delegationBalance, staked>>
      /\ depositRecords' = [depositRecords EXCEPT ![i] = r]
      /\ transfers' = [transfers EXCEPT ![i] = "none"]
      /\ reinvestIca \in [state : {"none", "sent", "success", "failure"}, amount : Nat]
      /\ depositBalance' = IF status = "success" THEN depositBalance
                           ELSE depositBalance + depositRecords[i].amount
  BY Zenon, <1>0, <1>1 DEF TransferCallback, StatusAfterTransfer, zoneVars, icaVars, hostVars, RecordsTypeOK
<1> HIDE DEF r
<1>7. /\ RecordsTypeOK' /\ Others(i) /\ depositRecords'[i] = r /\ transfers'[i] = "none"
      /\ Pending(i)' = Pending(i) /\ Unacked'[i] = Unacked[i]
  BY Zenon, <1>5, <1>6, RecordReplaced
<1>8. BeforeDelegation(i)'
  BY Zenon, <1>4, <1>5, <1>7 DEF BeforeDelegation
<1>9. PICK q \in Nat :
          /\ q = (IF status = "success" THEN 0 ELSE depositRecords[i].amount)
          /\ depositBalance' = depositBalance + q
  BY Zenon, <1>0, <1>4, <1>6, IntFacts DEF ZoneTypeOK
<1>10. LedgerTypeOK'
  <2>1. depositBalance' \in Int
    BY <1>0, <1>9 DEF ZoneTypeOK
  <2> QED
    BY Zenon, <1>0, <1>2, <1>6, <1>7, <2>1, TypeOKPartsAfter DEF ZoneTypeOK
<1>11. /\ Counted'[i] = Counted[i] + 0 /\ Queueing'[i] = Queueing[i] + q
       /\ Landed'[i] = Landed[i] + 0
  BY Zenon, <1>1, <1>3, <1>4, <1>5, <1>7, <1>9, IntFacts DEF Counted, Queueing, Landed
<1>12. /\ Unacked'[i] = Unacked[i] + 0 /\ Rewards' = Rewards + 0
       /\ totalDelegations' = totalDelegations + 0 /\ staked' = staked + 0 + 0
       /\ delegationBalance' = delegationBalance + 0 + 0 - 0
  <2>1. Unacked[i] \in Int
    BY <1>0, RecordTotals DEF TotalsOK
  <2> QED
    BY <1>0, <1>6, <1>7, <2>1 DEF ZoneTypeOK, Rewards, RecordsTypeOK
<1>m. Moved(i, 0, q, 0, 0, 0, 0)
  BY <1>9, <1>11, <1>12 DEF Moved
<1>13. GInv' /\ Locked' = Locked + 0 + 0 /\ (Ledger => Ledger')
  BY Zenon, <1>7, <1>8, <1>9, <1>10, <1>m, IntFacts, OneRecord
<1>14. Locked <= Locked'
  BY <1>13 DEF GInv
<1> QED
  BY Zenon, <1>6, <1>13, <1>14 DEF Kept
-----------------------------------------------------------------------------
\* Steps that change no record: the withdrawal balance callback, halting and resuming, the
\* channel closing and opening, the removal of a validator, the host executing a reinvestment.
LEMMA NoRecordLedger ==
    ASSUME GInv,
           \/ \E amount \in StakeAmounts : WithdrawalHostBalanceCallback(amount)
           \/ BeginBlocker \/ DeprecateHostZone \/ ResumeHostZone
           \/ DelegationChannelCloses \/ OnChanOpenAck \/ RemoveValidator
           \/ HostExecutesReinvest \/ UNCHANGED vars
    PROVE  Kept
<1>0. RecordsTypeOK /\ ZoneTypeOK
  BY Zenon, TypeOKParts DEF GInv
<1> DEFINE Same == UNCHANGED <<depositRecords, transfers, delegateIcas, totalDelegations, staked,
                               depositBalance, redemptionRate, stSupply, epoch>>
           Ica == [state : {"none", "sent", "success", "failure"}, amount : Nat]
<1>1. PICK w \in Nat :
          /\ Same /\ halted' \in BOOLEAN /\ faults' \in Nat
          /\ channel' \in {"open", "closed", "handshake"} /\ reinvestIca' \in Ica
          /\ Rewards' = Rewards + w /\ delegationBalance' = delegationBalance + w
  <2>0. /\ reinvestIca \in Ica /\ halted \in BOOLEAN /\ delegationBalance \in Nat /\ Rewards \in Nat
        /\ channel \in {"open", "closed", "handshake"} /\ faults \in Nat /\ faults + 1 \in Nat
    BY <1>0 DEF RecordsTypeOK, ZoneTypeOK, Rewards
  <2>1. ASSUME NEW amount \in StakeAmounts, WithdrawalHostBalanceCallback(amount)
        PROVE  /\ Same /\ UNCHANGED <<halted, faults, channel, delegationBalance>>
               /\ reinvestIca' \in Ica /\ Rewards' = Rewards
    BY Zenon, <2>1, DepositAssumptions
       DEF WithdrawalHostBalanceCallback, zoneVars, recordVars, icaVars, hostVars, Rewards, NoIca
  <2>2. ASSUME BeginBlocker \/ DeprecateHostZone \/ ResumeHostZone
        PROVE  /\ Same /\ UNCHANGED <<channel, delegationBalance, reinvestIca>>
               /\ halted' \in BOOLEAN /\ faults' \in Nat /\ Rewards' = Rewards
    BY Zenon, <2>0, <2>2 DEF BeginBlocker, DeprecateHostZone, ResumeHostZone, recordVars, icaVars,
                      hostVars, Rewards, Fault
  <2>3. ASSUME DelegationChannelCloses \/ OnChanOpenAck \/ RemoveValidator
        PROVE  /\ Same /\ UNCHANGED <<halted, delegationBalance, reinvestIca>>
               /\ channel' \in {"open", "closed", "handshake"} /\ faults' \in Nat
               /\ Rewards' = Rewards
    BY Zenon, <2>0, <2>3 DEF DelegationChannelCloses, OnChanOpenAck, RemoveValidator, recordVars, zoneVars,
                      hostVars, Rewards, Fault
  <2>4. ASSUME HostExecutesReinvest
        PROVE  /\ Same /\ UNCHANGED <<halted, channel>> /\ faults' \in Nat
               /\ reinvestIca' \in Ica
               /\ \E w \in Nat : /\ Rewards' = Rewards + w
                                 /\ delegationBalance' = delegationBalance + w
    <3>1. Same /\ UNCHANGED <<halted, channel>> /\ faults' \in Nat
      BY Zenon, <2>0, <2>4 DEF HostExecutesReinvest, recordVars, zoneVars, icaVars, Fault
    <3>2. reinvestIca.state = "sent" /\ reinvestIca.amount \in Nat /\ Rewards = 0
      BY Zenon, <2>0, <2>4 DEF HostExecutesReinvest, Rewards
    <3>3. CASE /\ reinvestIca' = [reinvestIca EXCEPT !.state = "success"]
               /\ delegationBalance' = delegationBalance + reinvestIca.amount
      <4>1. reinvestIca' \in Ica /\ Rewards' = reinvestIca.amount
        BY Zenon, <2>0, <3>3 DEF Rewards
      <4>2. Rewards' = Rewards + reinvestIca.amount
        BY <3>2, <4>1
      <4> QED
        BY Zenon, <3>1, <3>2, <3>3, <4>1, <4>2
    <3>4. CASE /\ reinvestIca' = [reinvestIca EXCEPT !.state = "failure"]
               /\ UNCHANGED delegationBalance
      <4>1. reinvestIca' \in Ica /\ Rewards' = 0
        BY Zenon, <2>0, <3>4 DEF Rewards
      <4>2. Rewards' = Rewards + 0 /\ delegationBalance' = delegationBalance + 0
        BY <2>0, <3>2, <3>4, <4>1
      <4> QED
        BY Zenon, <3>1, <4>1, <4>2
    <3> QED
      BY Zenon, <2>4, <3>3, <3>4 DEF HostExecutesReinvest
  <2>5. ASSUME UNCHANGED vars
        PROVE  /\ Same /\ UNCHANGED <<halted, faults, channel, delegationBalance, reinvestIca>>
               /\ Rewards' = Rewards
    BY Zenon, <2>5 DEF vars, zoneVars, recordVars, icaVars, hostVars, Rewards
  <2>6. ASSUME Rewards' = Rewards, delegationBalance' = delegationBalance
        PROVE  /\ Rewards' = Rewards + 0 /\ delegationBalance' = delegationBalance + 0
    BY <2>0, <2>6
  <2> HIDE DEF Same, Ica
  <2>7. CASE HostExecutesReinvest
    BY Zenon, <2>0, <2>4, <2>7
  <2> QED
    BY Zenon, <2>0, <2>1, <2>2, <2>3, <2>5, <2>6, <2>7
<1>2. RecordsTypeOK'
  BY Zenon, <1>0, <1>1 DEF RecordsTypeOK
<1>3. LedgerTypeOK'
  BY <1>0, <1>1, <1>2, TypeOKPartsAfter DEF ZoneTypeOK
<1>4. GInv' /\ Locked' = Locked /\ (Ledger => Ledger')
  BY <1>1, <1>3, NoRecordStep
<1> QED
  BY <1>1, <1>4 DEF Kept, GInv

\* The callback of the reinvestment: the rewards become a record, if they arrived.
LEMMA ReinvestCallbackLedger ==
    ASSUME GInv, ReinvestCallback
    PROVE  Kept
<1>0. RecordsTypeOK /\ ZoneTypeOK
  BY Zenon, TypeOKParts DEF GInv
<1>1. /\ UNCHANGED <<epoch, halted, redemptionRate, stSupply, totalDelegations, transfers,
                     delegateIcas, channel, depositBalance, delegationBalance, staked>>
      /\ reinvestIca' = NoIca /\ Rewards' = 0
      /\ NoIca \in [state : {"none", "sent", "success", "failure"}, amount : Nat]
  BY Zenon DEF ReinvestCallback, zoneVars, icaVars, hostVars, NoIca, Rewards
<1>2. faults' \in Nat
  BY <1>0 DEF ReinvestCallback, Fault, ZoneTypeOK
<1>3. CASE depositRecords' = depositRecords /\ reinvestIca.state # "success"
  <2>1. RecordsTypeOK'
    BY Zenon, <1>0, <1>1, <1>3 DEF RecordsTypeOK
  <2>2. LedgerTypeOK'
    BY Zenon, <1>0, <1>1, <1>2, <2>1, TypeOKPartsAfter DEF ZoneTypeOK
  <2>3. Rewards' = Rewards + 0 /\ delegationBalance' = delegationBalance + 0
    BY <1>0, <1>1, <1>3 DEF Rewards, ZoneTypeOK
  <2>4. GInv' /\ Locked' = Locked /\ (Ledger => Ledger')
    BY <1>1, <1>3, <2>2, <2>3, NoRecordStep
  <2> QED
    BY <1>1, <2>4 DEF Kept, GInv
<1>4. CASE reinvestIca.state = "success"
  <2>1. PICK i \in Ids :
            /\ NextId(i)
            /\ depositRecords' = [depositRecords EXCEPT ![i] =
                  DepositRecord("DELEGATION_QUEUE", reinvestIca.amount, 0)]
    BY Zenon, <1>4 DEF ReinvestCallback
  <2> DEFINE r == DepositRecord("DELEGATION_QUEUE", reinvestIca.amount, 0)
  <2>2. /\ depositRecords[i].status = "NONE" /\ transfers[i] = "none"
        /\ reinvestIca.amount \in Nat /\ Rewards = reinvestIca.amount
    BY Zenon, <1>0, <1>4, <2>1 DEF NextId, FreeIds, RecordsTypeOK, Rewards
  <2>3. r \in Record /\ r.status = "DELEGATION_QUEUE" /\ r.amount = reinvestIca.amount
    BY <2>2 DEF DepositRecord, Record, Statuses
  <2>4. transfers' = [transfers EXCEPT ![i] = "none"]
    BY Zenon, <1>0, <1>1, <2>2 DEF RecordsTypeOK
  <2> HIDE DEF r
  <2>5. /\ RecordsTypeOK' /\ Others(i) /\ depositRecords'[i] = r /\ transfers'[i] = "none"
        /\ Pending(i)' = Pending(i) /\ Unacked'[i] = Unacked[i]
    BY Zenon, <1>1, <2>1, <2>3, <2>4, RecordReplaced DEF r
  <2>6. BeforeDelegation(i)'
    BY Zenon, <2>3, <2>5 DEF BeforeDelegation
  <2>7. LedgerTypeOK'
    BY Zenon, <1>0, <1>1, <1>2, <2>5, TypeOKPartsAfter DEF ZoneTypeOK
  <2>8. PICK a \in Nat : a = reinvestIca.amount
    BY Zenon, <2>2
  <2>9. /\ Counted'[i] = Counted[i] + a /\ Queueing'[i] = Queueing[i] + 0
        /\ Landed'[i] = Landed[i] + a
    BY Zenon, <2>2, <2>3, <2>5, <2>8, IntFacts DEF Counted, Queueing, Landed
  <2>10. /\ Unacked'[i] = Unacked[i] + 0 /\ Rewards' = Rewards + (-a)
         /\ totalDelegations' = totalDelegations + 0 /\ staked' = staked + 0 + 0
         /\ depositBalance' = depositBalance + 0
         /\ delegationBalance' = delegationBalance + a + (-a) - 0
    <3>1. Unacked[i] \in Int
      BY <1>0, RecordTotals DEF TotalsOK
    <3> QED
      BY <1>0, <1>1, <2>2, <2>5, <2>8, <3>1 DEF ZoneTypeOK
  <2>11. -a \in Int /\ a \in Int /\ 0 \in Int
    OBVIOUS
  <2>m. Moved(i, a, 0, a, 0, -a, 0)
    BY <2>9, <2>10 DEF Moved
  <2>12. GInv' /\ Locked' = Locked + a + 0 /\ (Ledger => Ledger')
    BY Zenon, <2>5, <2>6, <2>7, <2>11, <2>m, OneRecord
  <2>13. Locked <= Locked'
    BY <2>12 DEF GInv
  <2> QED
    BY Zenon, <1>1, <2>12, <2>13 DEF Kept
<1> QED
  BY Zenon, <1>3, <1>4 DEF ReinvestCallback
-----------------------------------------------------------------------------
Batch == [state : {"none", "sent", "success", "failure"}, amount : Nat]

BatchSet(i, k, b) == delegateIcas' = [delegateIcas EXCEPT ![i][k] = b]
RecordSet(i, r) == depositRecords' = [depositRecords EXCEPT ![i] = r]

\* Batch k of record i gets new contents, and so may the record.
LEMMA BatchReplaced ==
    ASSUME GInv, NEW i \in Ids, NEW k \in Batches, NEW b \in Batch, NEW r \in Record,
           BatchSet(i, k, b), RecordSet(i, r),
           transfers' = transfers, reinvestIca' = reinvestIca, channel' \in {"open", "closed", "handshake"}
    PROVE  /\ RecordsTypeOK' /\ Others(i)
           /\ depositRecords'[i] = r /\ transfers'[i] = transfers[i]
           /\ delegateIcas'[i][k] = b
           /\ Unacked'[i] = Unacked[i] - Weight(delegateIcas[i][k]) + Weight(b)
<1>1. RecordsTypeOK
  BY Zenon, TypeOKParts DEF GInv
<1>2. depositRecords \in [Ids -> Record] /\ delegateIcas \in [Ids -> [Batches -> Batch]]
  BY Zenon, <1>1 DEF RecordsTypeOK, Record, Batch
<1>3. depositRecords' \in [Ids -> Record] /\ delegateIcas' \in [Ids -> [Batches -> Batch]]
  BY Zenon, <1>2 DEF BatchSet, RecordSet
<1>4. RecordsTypeOK'
  BY Zenon, <1>1, <1>3 DEF RecordsTypeOK, Record, Batch
<1>5. /\ Others(i) /\ depositRecords'[i] = r /\ transfers'[i] = transfers[i]
      /\ delegateIcas'[i][k] = b
      /\ \A j \in Batches \ {k} : delegateIcas'[i][j] = delegateIcas[i][j]
  BY Zenon, <1>2 DEF Others, BatchSet, RecordSet
<1>6. ExecutedAmount(i)' = ExecutedAmount(i) - Weight(delegateIcas[i][k]) + Weight(b)
  BY Zenon, <1>1, <1>4, <1>5, BatchChange
<1>7. Unacked'[i] = Unacked[i] - Weight(delegateIcas[i][k]) + Weight(b)
  BY Zenon, <1>6 DEF Unacked
<1> QED
  BY Zenon, <1>4, <1>5, <1>7

\* The host executes a batch.
LEMMA HostExecutesLedger ==
    ASSUME GInv, NEW i \in Ids, NEW k \in Batches, HostExecutesDelegate(i, k)
    PROVE  Kept
<1>0. RecordsTypeOK /\ ZoneTypeOK
  BY Zenon, TypeOKParts DEF GInv
<1>1. /\ UNCHANGED <<epoch, halted, redemptionRate, stSupply, totalDelegations, depositRecords,
                     transfers, channel, reinvestIca, depositBalance>>
      /\ delegateIcas[i][k].state = "sent"
  BY Zenon DEF HostExecutesDelegate, zoneVars, recordVars
<1>2. /\ delegateIcas[i][k] \in Batch /\ delegateIcas[i][k].amount \in Nat
      /\ depositRecords[i] \in Record
  BY <1>0 DEF RecordsTypeOK, Batch, Record
<1>3. PICK a \in Nat : a = delegateIcas[i][k].amount
  BY Zenon, <1>2
<1>4. PICK st \in {"success", "failure"}, u \in Nat :
          /\ delegateIcas' = [delegateIcas EXCEPT ![i][k].state = st]
          /\ u = (IF st = "success" THEN a ELSE 0)
          /\ delegationBalance' = delegationBalance - u /\ delegationBalance' \in Nat
          /\ staked' = staked + u /\ faults' \in Nat
  <2>0. delegationBalance \in Nat /\ staked \in Nat /\ faults \in Nat
    BY Zenon, <1>0 DEF ZoneTypeOK
  <2>1. CASE /\ delegationBalance >= a
             /\ delegateIcas' = [delegateIcas EXCEPT ![i][k].state = "success"]
             /\ delegationBalance' = delegationBalance - a
             /\ staked' = staked + a
             /\ UNCHANGED faults
    <3>1. delegationBalance' \in Nat /\ faults' \in Nat
      BY <2>0, <2>1
    <3> QED
      BY Zenon, <2>1, <3>1
  <2>2. CASE /\ delegateIcas' = [delegateIcas EXCEPT ![i][k].state = "failure"]
             /\ faults' \in Nat
             /\ UNCHANGED hostVars
    <3>1. /\ delegationBalance' = delegationBalance - 0 /\ delegationBalance' \in Nat
          /\ staked' = staked + 0
      BY <2>0, <2>2 DEF hostVars
    <3> QED
      BY Zenon, <2>2, <3>1
  <2> QED
    BY <1>3, <2>0, <2>1, <2>2 DEF HostExecutesDelegate, Fault
<1> DEFINE b == [delegateIcas[i][k] EXCEPT !.state = st]
<1>5. /\ b \in Batch /\ b.state = st /\ b.amount = a
      /\ delegateIcas' = [delegateIcas EXCEPT ![i][k] = b]
  BY Zenon, <1>0, <1>2, <1>3, <1>4 DEF Batch, RecordsTypeOK
<1> HIDE DEF b
<1>6. /\ depositRecords' = [depositRecords EXCEPT ![i] = depositRecords[i]]
      /\ channel' \in {"open", "closed", "handshake"}
  BY Zenon, <1>0, <1>1 DEF RecordsTypeOK
<1>7. /\ RecordsTypeOK' /\ Others(i) /\ delegateIcas'[i][k] = b
      /\ Unacked'[i] = Unacked[i] - Weight(delegateIcas[i][k]) + Weight(b)
  <2>1. /\ transfers' = transfers /\ reinvestIca' = reinvestIca
        /\ BatchSet(i, k, b) /\ RecordSet(i, depositRecords[i])
    BY Zenon, <1>1, <1>5, <1>6 DEF BatchSet, RecordSet
  <2> QED
    BY <1>2, <1>5, <1>6, <2>1, BatchReplaced
<1>8. Weight(delegateIcas[i][k]) = 0 /\ Weight(b) = u
  BY Zenon, <1>1, <1>4, <1>5 DEF Weight
<1>9. Unacked[i] \in Int
  BY <1>0, RecordTotals DEF TotalsOK
<1>10. Unacked'[i] = Unacked[i] + u
  BY <1>7, <1>8, <1>9
<1>11. BeforeDelegation(i)'
  <2>1. Pending(i)' = {} => Pending(i) = {}
    BY Zenon, <1>5, <1>7 DEF Others, Pending
  <2>2. k \in Pending(i)
    BY Zenon, <1>1 DEF Pending
  <2> QED
    BY Zenon, <1>1, <2>2 DEF GInv, BeforeDelegation
<1>12. LedgerTypeOK'
  BY <1>0, <1>1, <1>4, <1>7, TypeOKPartsAfter DEF ZoneTypeOK
<1>13. /\ Counted'[i] = Counted[i] + 0 /\ Queueing'[i] = Queueing[i] + 0
       /\ Landed'[i] = Landed[i] + 0
  <2>1. Integral(Counted) /\ Integral(Queueing) /\ Integral(Landed)
    BY Zenon, <1>0, RecordTotals DEF TotalsOK
  <2>2. Counted'[i] = Counted[i] /\ Queueing'[i] = Queueing[i] /\ Landed'[i] = Landed[i]
    BY Zenon, <1>1 DEF Counted, Queueing, Landed
  <2> QED
    BY <2>1, <2>2 DEF Integral
<1>14. /\ Rewards' = Rewards + 0
       /\ totalDelegations' = totalDelegations + 0 /\ staked' = staked + 0 + u
       /\ depositBalance' = depositBalance + 0
       /\ delegationBalance' = delegationBalance + 0 + 0 - u
  BY <1>0, <1>1, <1>4 DEF ZoneTypeOK, Rewards, RecordsTypeOK
<1>m. Moved(i, 0, 0, 0, u, 0, 0)
  BY <1>10, <1>13, <1>14 DEF Moved
<1>15. GInv' /\ Locked' = Locked + 0 + 0 /\ (Ledger => Ledger')
  BY Zenon, <1>7, <1>11, <1>12, <1>m, IntFacts, OneRecord
<1>16. Locked <= Locked'
  BY <1>15 DEF GInv
<1> QED
  BY Zenon, <1>1, <1>15, <1>16 DEF Kept

\* DelegateCallback: a successful batch moves its tokens from the record to the zone's
\* delegations, and removes the record with its last tokens.
LEMMA DelegateCallbackLedger ==
    ASSUME GInv, NEW i \in Ids, NEW k \in Batches,
           DelegateAcknowledged(i, k) \/ DelegateTimedOut(i, k)
    PROVE  Kept
<1>0. RecordsTypeOK /\ ZoneTypeOK
  BY Zenon, TypeOKParts DEF GInv
<1>1. PICK status \in {"success", "failure", "timeout"} :
          /\ DelegateCallback(i, k, status)
          /\ status = "success" <=> delegateIcas[i][k].state = "success"
  <2>1. CASE DelegateAcknowledged(i, k)
    BY Zenon, <2>1 DEF DelegateAcknowledged, Executed
  <2>2. CASE DelegateTimedOut(i, k)
    BY Zenon, <2>2 DEF DelegateTimedOut
  <2> QED
    BY Zenon, <2>1, <2>2
<1>2. /\ k \in Pending(i) /\ delegateIcas' = [delegateIcas EXCEPT ![i][k] = NoIca]
      /\ UNCHANGED <<epoch, halted, redemptionRate, stSupply, transfers, reinvestIca,
                     depositBalance, delegationBalance, staked>>
      /\ channel' \in {"open", "closed", "handshake"} /\ faults' \in Nat
  <2>1. CASE DelegateAcknowledged(i, k)
    BY Zenon, <1>0, <2>1 DEF DelegateAcknowledged, Executed, Pending, zoneVars, hostVars, ZoneTypeOK
  <2>2. CASE DelegateTimedOut(i, k)
    BY <1>0, <2>2 DEF DelegateTimedOut, Pending, zoneVars, hostVars, ZoneTypeOK, Fault
  <2> QED
    BY Zenon, <2>1, <2>2
<1>3. /\ delegateIcas[i][k] \in Batch /\ delegateIcas[i][k].amount \in Nat
      /\ depositRecords[i] \in Record /\ NoIca \in Batch /\ Weight(NoIca) = 0
  BY <1>0 DEF RecordsTypeOK, Batch, Record, NoIca, Weight
<1>4. PICK a \in Nat : a = delegateIcas[i][k].amount
  BY Zenon, <1>3
<1>5. depositRecords[i].status \in {"DELEGATION_QUEUE", "DELEGATION_IN_PROGRESS"}
  BY Zenon, <1>1, <1>2, <1>3 DEF DelegateCallback, GInv, BeforeDelegation, Record, Statuses
<1>6. PICK r \in Record, d \in Nat :
          /\ depositRecords' = [depositRecords EXCEPT ![i] = r]
          /\ totalDelegations' = totalDelegations + d
          /\ d = (IF status = "success" THEN a ELSE 0)
          /\ \/ r = NoRecord /\ depositRecords[i].amount = d
             \/ /\ r.status \in {"DELEGATION_QUEUE", "DELEGATION_IN_PROGRESS"}
                /\ r.amount = depositRecords[i].amount - d
  <2>1. /\ depositRecords' = [depositRecords EXCEPT ![i] = AfterBatch(depositRecords[i], a, status)]
        /\ totalDelegations' = totalDelegations + Delegated(a, status)
        /\ depositRecords[i].txs \in Nat \ {0} /\ depositRecords[i].amount \in Int
    BY Zenon, <1>1, <1>3, <1>4 DEF DelegateCallback, Record
  <2>2. PICK n \in Nat : n = depositRecords[i].txs - 1
    BY <2>1
  <2>3. PICK m \in Int : m = depositRecords[i].amount - a
    BY <2>1
  <2>4. NoRecord \in Record
    BY DEF Record, NoRecord, Statuses
  <2>5. CASE status = "timeout"
    <3>1. [depositRecords[i] EXCEPT !.txs = n] \in Record
      BY Zenon, <1>3 DEF Record
    <3>2. PICK s \in Record : s = [depositRecords[i] EXCEPT !.txs = n]
      BY Zenon, <3>1
    <3>3. AfterBatch(depositRecords[i], a, status) = s
      BY Zenon, <1>3, <2>2, <2>5, <3>2 DEF AfterBatch
    <3>4. Delegated(a, status) = 0 /\ depositRecords[i].amount = depositRecords[i].amount - 0
      BY <2>1, <2>5 DEF Delegated
    <3>5. s.status = depositRecords[i].status /\ s.amount = depositRecords[i].amount - 0
      BY Zenon, <1>3, <3>2, <3>4 DEF Record
    <3>6. /\ depositRecords' = [depositRecords EXCEPT ![i] = s]
          /\ totalDelegations' = totalDelegations + 0
      BY Zenon, <2>1, <3>3, <3>4
    <3> QED
      BY Zenon, <1>5, <2>5, <3>5, <3>6
  <2>6. CASE status = "failure"
    <3>1. [depositRecords[i] EXCEPT !.txs = n, !.status = "DELEGATION_QUEUE"] \in Record
      BY Zenon, <1>3 DEF Record, Statuses
    <3>2. PICK s \in Record :
              s = [depositRecords[i] EXCEPT !.txs = n, !.status = "DELEGATION_QUEUE"]
      BY Zenon, <3>1
    <3>3. AfterBatch(depositRecords[i], a, status) = s
      BY Zenon, <1>3, <2>2, <2>6, <3>2 DEF AfterBatch
    <3>4. Delegated(a, status) = 0 /\ depositRecords[i].amount = depositRecords[i].amount - 0
      BY <2>1, <2>6 DEF Delegated
    <3>5. s.status = "DELEGATION_QUEUE" /\ s.amount = depositRecords[i].amount - 0
      BY Zenon, <1>3, <3>2, <3>4 DEF Record
    <3>6. /\ depositRecords' = [depositRecords EXCEPT ![i] = s]
          /\ totalDelegations' = totalDelegations + 0
      BY <2>1, <3>3, <3>4
    <3> QED
      BY Zenon, <2>6, <3>5, <3>6
  <2>7. CASE status = "success" /\ depositRecords[i].amount = a
    <3>1. AfterBatch(depositRecords[i], a, status) = NoRecord /\ Delegated(a, status) = a
      BY Zenon, <2>7 DEF AfterBatch, Delegated
    <3> QED
      BY Zenon, <2>1, <2>4, <2>7, <3>1
  <2>8. CASE status = "success" /\ depositRecords[i].amount # a
    <3>1. [depositRecords[i] EXCEPT !.txs = n, !.amount = m] \in Record
      BY Zenon, <1>3 DEF Record
    <3>2. PICK s \in Record : s = [depositRecords[i] EXCEPT !.txs = n, !.amount = m]
      BY Zenon, <3>1
    <3>3. AfterBatch(depositRecords[i], a, status) = s /\ Delegated(a, status) = a
      BY Zenon, <1>3, <2>2, <2>3, <2>8, <3>2 DEF AfterBatch, Delegated
    <3>4. s.status = depositRecords[i].status /\ s.amount = m
      BY Zenon, <1>3, <3>2 DEF Record
    <3>5. /\ depositRecords' = [depositRecords EXCEPT ![i] = s]
          /\ totalDelegations' = totalDelegations + a
      BY ZenonT(30), <2>1, <3>3
    <3> QED
      BY Zenon, <1>5, <2>3, <2>8, <3>4, <3>5
  <2> QED
    BY Zenon, <2>5, <2>6, <2>7, <2>8
<1>7. /\ RecordsTypeOK' /\ Others(i) /\ depositRecords'[i] = r /\ transfers'[i] = transfers[i]
      /\ Unacked'[i] = Unacked[i] - Weight(delegateIcas[i][k]) + Weight(NoIca)
  <2>1. /\ transfers' = transfers /\ reinvestIca' = reinvestIca
        /\ BatchSet(i, k, NoIca) /\ RecordSet(i, r)
    BY Zenon, <1>2, <1>6 DEF BatchSet, RecordSet
  <2>2. channel' \in {"open", "closed", "handshake"}
    BY Zenon, <1>2
  <2> QED
    BY <1>3, <2>1, <2>2, BatchReplaced
<1>8. Weight(delegateIcas[i][k]) = d
  BY ZenonT(30), <1>1, <1>4, <1>6 DEF Weight
<1>9. Unacked[i] \in Int /\ depositRecords[i].amount \in Int
  BY <1>0, <1>3, RecordTotals DEF TotalsOK, Record
<1>e. PICK e \in Int :
          /\ e = -d /\ 0 <= e + d /\ 0 = d + e
          /\ \A x \in Int : /\ x - d = x + e /\ x - d + 0 = x + e
                              /\ x = x + d + e /\ x = x + e + 0 - e
  BY Zenon, Negated
<1>10. Unacked'[i] = Unacked[i] + e
  BY Zenon, <1>3, <1>7, <1>8, <1>9, <1>e
<1>11. r.status \in {"NONE", "DELEGATION_QUEUE", "DELEGATION_IN_PROGRESS"} /\ transfers[i] = "none"
  <2>1. r.status \in {"NONE", "DELEGATION_QUEUE", "DELEGATION_IN_PROGRESS"}
    BY Zenon, <1>6, NoRecordIs
  <2> QED
    BY Zenon, <1>5, <2>1 DEF GInv, BeforeDelegation
<1>12. BeforeDelegation(i)'
  BY Zenon, <1>7, <1>11 DEF BeforeDelegation
<1>13. LedgerTypeOK'
  BY <1>0, <1>2, <1>6, <1>7, TypeOKPartsAfter DEF ZoneTypeOK
<1>14. /\ Counted'[i] = Counted[i] + e /\ Queueing'[i] = Queueing[i] + 0
       /\ Landed'[i] = Landed[i] + e
  <2>1. /\ Counted[i] = depositRecords[i].amount /\ Queueing[i] = 0
        /\ Landed[i] = depositRecords[i].amount
    BY ZenonT(30), <1>5, <1>11 DEF Counted, Queueing, Landed
  <2>2. CASE r = NoRecord /\ depositRecords[i].amount = d
    <3>1. Counted'[i] = 0 /\ Queueing'[i] = 0 /\ Landed'[i] = 0
      BY Zenon, <1>7, <1>11, <2>2, NoRecordIs DEF Counted, Queueing, Landed
    <3> QED
      BY Zenon, <1>e, <2>1, <2>2, <3>1, IntFacts
  <2>3. CASE /\ r.status \in {"DELEGATION_QUEUE", "DELEGATION_IN_PROGRESS"}
             /\ r.amount = depositRecords[i].amount - d
    <3>1. Counted'[i] = r.amount /\ Queueing'[i] = 0 /\ Landed'[i] = r.amount
      BY Zenon, <1>7, <1>11, <2>3 DEF Counted, Queueing, Landed
    <3> QED
      BY Zenon, <1>9, <1>e, <2>1, <2>3, <3>1, IntFacts
  <2> QED
    BY Zenon, <1>6, <2>2, <2>3
<1>15. /\ Rewards' = Rewards + 0 /\ staked' = staked + d + e /\ 0 <= e + d
       /\ depositBalance' = depositBalance + 0
       /\ delegationBalance' = delegationBalance + e + 0 - e
  BY Zenon, <1>0, <1>2, <1>e, RewardsInt, IntFacts DEF ZoneTypeOK, Rewards
<1>m. Moved(i, e, 0, e, e, 0, d)
  BY Zenon, <1>6, <1>10, <1>14, <1>15 DEF Moved
<1>17. GInv' /\ Locked' = Locked + e + d /\ (Ledger => Ledger')
  <2>1. 0 \in Int /\ d \in Int
    BY Zenon, IntFacts
  <2> QED
    BY Zenon, <1>7, <1>12, <1>13, <1>m, <2>1, OneRecord
<1>18. Locked <= Locked'
  BY <1>e, <1>17 DEF GInv
<1> QED
  BY Zenon, <1>2, <1>17, <1>18 DEF Kept
-----------------------------------------------------------------------------
\* A step that may change every record: none loses tokens, nothing new is executed.
LEMMA ManyRecords ==
    ASSUME GInv, LedgerTypeOK', \A i \in Ids : BeforeDelegation(i)',
           \A i \in Ids : Counted[i] <= Counted'[i],
           \A i \in Ids : Unacked'[i] <= Unacked[i],
           UNCHANGED <<totalDelegations, staked>>
    PROVE  GInv' /\ Locked <= Locked'
<1>1. TotalsOK /\ TotalsOK'
  BY Zenon, RecordTotals, RecordTotalsAfter DEF GInv, LedgerTypeOK
<1>2. /\ Integral(Counted) /\ Integral(Unacked) /\ Integral(Counted') /\ Integral(Unacked')
  BY Zenon, <1>1 DEF TotalsOK
<1>3. Total(Counted)' = Total(Counted') /\ Total(Unacked)' = Total(Unacked')
  BY Zenon DEF Total
<1>4. Total(Counted) <= Total(Counted') /\ Total(Unacked') <= Total(Unacked)
  BY Zenon, <1>2, TotalMonotone
<1>5. /\ Total(Counted) \in Int /\ Total(Counted') \in Int
      /\ Total(Unacked) \in Int /\ Total(Unacked') \in Int
      /\ totalDelegations \in Int /\ staked \in Int
  BY <1>2, TotalInt DEF GInv, LedgerTypeOK, ZoneTypeOK
<1>6. Locked <= Locked'
  BY <1>3, <1>4, <1>5 DEF Locked
<1>7. Locked' \in Nat
  BY <1>3, <1>4, <1>5 DEF GInv, Locked
<1>8. totalDelegations' + Total(Unacked)' <= staked'
  <2>1. totalDelegations + Total(Unacked) <= staked
    BY Zenon DEF GInv
  <2> QED
    BY <2>1, <1>3, <1>4, <1>5
<1> QED
  BY Zenon, <1>6, <1>7, <1>8 DEF GInv

\* The ledger over such a step, when what has landed or is unacknowledged stays the same.
LEMMA ManyRecordsLedger ==
    ASSUME Ledger, \A i \in Ids : Landed'[i] = Landed[i],
           \A i \in Ids : Unacked'[i] = Unacked[i],
           depositBalance' = Total(Queueing)',
           UNCHANGED <<totalDelegations, staked, delegationBalance, reinvestIca>>
    PROVE  Ledger'
<1>1. Total(Landed') = Total(Landed) /\ Total(Unacked') = Total(Unacked)
  BY Zenon, TotalSame
<1>2. Total(Landed)' = Total(Landed) /\ Total(Unacked)' = Total(Unacked)
  BY Zenon, <1>1 DEF Total
<1>3. Rewards' = Rewards
  BY Zenon DEF Rewards
<1> QED
  BY Zenon, <1>2, <1>3 DEF Ledger

\* MsgRestoreInterchainAccount.
LEMMA RestoreLedger ==
    ASSUME GInv, RestoreInterchainAccount
    PROVE  Kept
<1>0. RecordsTypeOK /\ ZoneTypeOK
  BY TypeOKParts DEF GInv
<1>1. /\ depositRecords' = [i \in Ids |-> Restored(depositRecords[i])]
      /\ delegateIcas' = [i \in Ids |-> [k \in Batches |-> NoIca]]
      /\ UNCHANGED <<epoch, halted, redemptionRate, stSupply, totalDelegations, transfers,
                     reinvestIca, depositBalance, delegationBalance, staked, faults>>
      /\ channel = "closed" /\ channel' = "handshake"
  BY Zenon DEF RestoreInterchainAccount, zoneVars, hostVars
<1>2. ASSUME NEW i \in Ids
      PROVE  /\ depositRecords'[i] \in Record
             /\ depositRecords'[i].amount = depositRecords[i].amount
             /\ \/ depositRecords'[i].status = depositRecords[i].status
                \/ /\ depositRecords[i].status = "DELEGATION_IN_PROGRESS"
                   /\ depositRecords'[i].status = "DELEGATION_QUEUE"
  <2>1. depositRecords[i] \in Record
    BY Zenon, <1>0 DEF RecordsTypeOK, Record
  <2>2. CASE depositRecords[i].status = "DELEGATION_IN_PROGRESS"
    <3>1. depositRecords'[i] = [depositRecords[i] EXCEPT !.status = "DELEGATION_QUEUE", !.txs = 0]
      BY Zenon, <1>1, <2>2 DEF Restored
    <3>2. \A r \in Record :
             LET s == [r EXCEPT !.status = "DELEGATION_QUEUE", !.txs = 0]
             IN  s \in Record /\ s.amount = r.amount /\ s.status = "DELEGATION_QUEUE"
      BY Zenon DEF Record, Statuses
    <3> QED
      BY Zenon, <2>1, <2>2, <3>1, <3>2
  <2>3. CASE depositRecords[i].status # "DELEGATION_IN_PROGRESS"
    BY Zenon, <1>1, <2>1, <2>3 DEF Restored
  <2> QED
    BY Zenon, <2>2, <2>3
<1>3. RecordsTypeOK'
  <2>1. depositRecords' \in [Ids -> Record]
    BY Zenon, <1>1, <1>2
  <2>2. delegateIcas' \in [Ids -> [Batches -> Batch]]
    BY Zenon, <1>1 DEF NoIca, Batch
  <2> QED
    BY Zenon, <1>0, <1>1, <2>1, <2>2 DEF RecordsTypeOK, Record, Batch
<1>4. LedgerTypeOK'
  BY Zenon, <1>0, <1>1, <1>3, TypeOKPartsAfter DEF ZoneTypeOK
<1>5. ASSUME NEW i \in Ids
      PROVE  BeforeDelegation(i)' /\ Unacked'[i] = 0
  <2>1. \A k \in Batches : delegateIcas'[i][k].state = "none"
    BY Zenon, <1>1 DEF NoIca
  <2>2. Pending(i)' = {}
    BY Zenon, <2>1 DEF Pending
  <2>3. BeforeDelegation(i)'
    BY Zenon, <1>1, <1>2, <2>2 DEF GInv, BeforeDelegation
  <2>4. ExecutedAmount(i)' = 0
    <3> DEFINE f == [k \in Batches |-> delegateIcas'[i][k].amount]
    <3>1. {k \in Batches : delegateIcas'[i][k].state = "success"} = {}
      BY Zenon, <2>1
    <3>2. ExecutedAmount(i)' = SumFunctionOnSet(f, {})
      BY ZenonT(30), <3>1 DEF ExecutedAmount
    <3> HIDE DEF f
    <3> QED
      BY Zenon, <3>2, SumEmpty
  <2> QED
    BY Zenon, <2>3, <2>4 DEF Unacked
<1>6. \A i \in Ids : /\ Counted'[i] = Counted[i] /\ Queueing'[i] = Queueing[i]
                     /\ Landed'[i] = Landed[i]
  BY <1>1, <1>2 DEF Counted, Queueing, Landed
<1>7. \A i \in Ids : Unacked[i] \in Nat /\ Counted[i] \in Int
  BY ZenonT(30), <1>0, RecordTotals DEF TotalsOK, Integral
<1>8. \A i \in Ids : Counted[i] <= Counted'[i] /\ Unacked'[i] <= Unacked[i]
  BY <1>5, <1>6, <1>7
<1>9. GInv' /\ Locked <= Locked'
  BY Zenon, <1>1, <1>4, <1>5, <1>8, ManyRecords
<1>10. ASSUME IInv, Ledger PROVE Ledger'
  <2>1. \A i \in Ids : Unacked[i] = 0
    <3>1. \A i \in Ids : Executed(i) = {}
      BY Zenon, <1>1, <1>10 DEF IInv
    <3>2. \A i \in Ids : \A k \in Batches : delegateIcas[i][k].state # "success"
      BY Zenon, <3>1 DEF Executed
    <3> QED
      BY Zenon, <3>2, NothingExecuted DEF Unacked
  <2>2. Total(Queueing)' = Total(Queueing)
    <3>1. Total(Queueing') = Total(Queueing)
      BY Zenon, <1>6, TotalSame
    <3> QED
      BY Zenon, <3>1 DEF Total
  <2>3. depositBalance' = Total(Queueing)'
    BY Zenon, <1>1, <1>10, <2>2 DEF Ledger
  <2>4. \A i \in Ids : Unacked'[i] = Unacked[i] /\ Landed'[i] = Landed[i]
    BY Zenon, <1>5, <1>6, <2>1
  <2> QED
    BY Zenon, <1>1, <1>10, <2>3, <2>4, ManyRecordsLedger
<1> QED
  BY Zenon, <1>1, <1>9, <1>10 DEF Kept
-----------------------------------------------------------------------------
\* The batches of a split.
LEMMA SubmittedBatches ==
    ASSUME NEW amount, NEW f \in Splits(amount)
    PROVE  /\ Submitted(f) \in [Batches -> Batch]
           /\ \A k \in Batches : Submitted(f)[k].state # "success"
<1>1. PICK c \in Cuts(amount) : f = [k \in Batches |-> c[k] - c[k - 1]]
  BY Zenon DEF Splits
<1>2. /\ c \in [0..MaxBatches -> 0..amount]
      /\ \A j, k \in 0..MaxBatches : j <= k => c[j] <= c[k]
  BY Zenon DEF Cuts
<1>3. \A k \in Batches : f[k] \in Nat
  <2> SUFFICES ASSUME NEW k \in Batches PROVE f[k] \in Nat
    BY Zenon
  <2>1. k \in 0..MaxBatches /\ k - 1 \in 0..MaxBatches /\ k - 1 <= k
    BY MaxBatchesAssumption DEF Batches
  <2>2. c[k] \in Int /\ c[k - 1] \in Int /\ c[k - 1] <= c[k]
    BY <1>2, <2>1
  <2> QED
    BY <1>1, <2>2
<1>4. Submitted(f) \in [Batches -> Batch]
  BY Zenon, <1>3 DEF Submitted, NoIca, Batch
<1>5. \A k \in Batches : Submitted(f)[k].state # "success"
  BY Zenon DEF Submitted, NoIca
<1> QED
  BY Zenon, <1>4, <1>5

\* The epoch's effect on one record.
EpochEffect(i, sent) ==
    /\ depositRecords'[i] \in Record /\ delegateIcas'[i] \in [Batches -> Batch]
    /\ transfers'[i] \in {"none", "sent", "received", "rejected"}
    /\ BeforeDelegation(i)'
    /\ Counted[i] <= Counted'[i] /\ Unacked'[i] <= Unacked[i]
    /\ Landed'[i] = Landed[i]
    /\ Queueing[i] = Queueing'[i] + (IF i \in sent THEN depositRecords[i].amount ELSE 0)
    /\ IInv => Unacked'[i] = Unacked[i]

EpochUpdate(records, ok, split) ==
    /\ \A j \in Stakeable(records, ok) : split[j] \in Splits(records[j].amount)
    /\ depositRecords' = AfterEpoch(records, ok, split)
    /\ transfers' = [j \in Ids |-> IF j \in Transferred(records, ok) THEN "sent"
                                   ELSE transfers[j]]
    /\ delegateIcas' = [j \in Ids |-> IF j \in Stakeable(records, ok)
                                      THEN Submitted(split[j]) ELSE delegateIcas[j]]

\* Every record the stride epoch touches is moved on as EpochEffect says.
LEMMA EpochRecord ==
    ASSUME GInv, NEW ok, NEW new \in NewRecords, NEW split, NEW records, records = Aged(new),
           EpochUpdate(records, ok, split),
           NEW i \in Ids, NEW sent, sent = Transferred(records, ok)
    PROVE  EpochEffect(i, sent)
<1>0. RecordsTypeOK
  BY Zenon, TypeOKParts DEF GInv
<1>1. /\ depositRecords[i] \in Record /\ delegateIcas[i] \in [Batches -> Batch]
      /\ transfers[i] \in {"none", "sent", "received", "rejected"}
      /\ depositRecords[i].amount \in Int /\ BeforeDelegation(i)
      /\ Unacked[i] \in Nat /\ Counted[i] \in Int /\ Queueing[i] \in Int
  BY Zenon, <1>0, RecordTotals DEF GInv, RecordsTypeOK, Record, Batch, TotalsOK, Integral
<1>2. records[i] = IF i \in new THEN DepositRecord("TRANSFER_QUEUE", 0, 0)
                   ELSE [depositRecords[i] EXCEPT !.current = FALSE]
  BY Zenon DEF Aged
<1>a. /\ depositRecords'[i] =
            IF i \in Empty(records) THEN NoRecord
            ELSE IF i \in sent THEN [records[i] EXCEPT !.status = "TRANSFER_IN_PROGRESS"]
            ELSE IF i \in Stakeable(records, ok)
            THEN [records[i] EXCEPT !.status = "DELEGATION_IN_PROGRESS",
                                    !.txs = @ + Used(split[i])]
            ELSE records[i]
      /\ transfers'[i] = IF i \in sent THEN "sent" ELSE transfers[i]
      /\ delegateIcas'[i] = IF i \in Stakeable(records, ok) THEN Submitted(split[i])
                            ELSE delegateIcas[i]
  BY Zenon DEF EpochUpdate, AfterEpoch
<1>3. ASSUME delegateIcas'[i] = delegateIcas[i]
      PROVE  Pending(i)' = Pending(i) /\ Unacked'[i] = Unacked[i]
  BY Zenon, <1>3 DEF Pending, Unacked, ExecutedAmount
<1>4. CASE i \in new
  <2>1. Pending(i) = {} /\ transfers[i] = "none" /\ depositRecords[i].status = "NONE"
    BY Zenon, <1>4 DEF NewRecords, NextId, FreeIds
  <2>2. records[i].current /\ records[i].status = "TRANSFER_QUEUE"
    BY <1>2, <1>4 DEF DepositRecord
  <2>3. i \notin Empty(records) /\ i \notin sent /\ i \notin Stakeable(records, ok)
    BY Zenon, <2>2 DEF Empty, Transferred, Queued, Stakeable
  <2>4. /\ depositRecords'[i] = DepositRecord("TRANSFER_QUEUE", 0, 0)
        /\ transfers'[i] = "none" /\ delegateIcas'[i] = delegateIcas[i]
    BY Zenon, <1>a, <1>2, <1>4, <2>1, <2>3
  <2>5. /\ depositRecords'[i] \in Record /\ depositRecords'[i].amount = 0
        /\ depositRecords'[i].status = "TRANSFER_QUEUE"
    BY <2>4 DEF DepositRecord, Record, Statuses
  <2>7. BeforeDelegation(i)'
    BY <1>3, <2>1, <2>4, <2>5 DEF BeforeDelegation
  <2>6. /\ Counted[i] = 0 /\ Counted'[i] = 0 /\ Queueing[i] = 0 /\ Queueing'[i] = 0
        /\ Landed[i] = 0 /\ Landed'[i] = 0
    BY ZenonT(30), <2>1, <2>4, <2>5 DEF Counted, Queueing, Landed
  <2>8. /\ Unacked'[i] <= Unacked[i] /\ Counted[i] <= Counted'[i]
        /\ Queueing[i] = Queueing'[i] + 0
    BY Zenon, IntFacts, <1>1, <1>3, <2>4, <2>6
  <2> QED
    BY Zenon, <1>1, <1>3, <2>3, <2>4, <2>5, <2>6, <2>7, <2>8 DEF EpochEffect
<1>5. CASE i \notin new
  <2>1. /\ records[i] \in Record
        /\ records[i].status = depositRecords[i].status
        /\ records[i].txs = depositRecords[i].txs
        /\ records[i].amount = depositRecords[i].amount
    BY Zenon, <1>1, <1>2, <1>5 DEF Record
  <2>2. CASE i \in Empty(records)
    <3>1. /\ depositRecords[i].status = "TRANSFER_QUEUE" /\ depositRecords[i].amount <= 0
          /\ i \notin Stakeable(records, ok) /\ i \notin sent
      BY ZenonT(30), <2>1, <2>2 DEF Empty, Transferred, Queued, Stakeable
    <3>2. Pending(i) = {} /\ transfers[i] = "none" /\ depositRecords[i].amount = 0
      BY <1>1, <3>1 DEF BeforeDelegation
    <3>3. /\ depositRecords'[i] = NoRecord /\ transfers'[i] = "none"
          /\ delegateIcas'[i] = delegateIcas[i]
      BY ZenonT(30), <1>a, <2>2, <3>1, <3>2
    <3>4. depositRecords'[i] \in Record /\ BeforeDelegation(i)'
      BY Zenon, <3>3, NoRecordIs DEF BeforeDelegation
    <3>5. /\ Counted[i] = 0 /\ Counted'[i] = 0 /\ Queueing[i] = 0 /\ Queueing'[i] = 0
          /\ Landed[i] = 0 /\ Landed'[i] = 0
      BY Zenon, <3>1, <3>2, <3>3, NoRecordIs DEF Counted, Queueing, Landed
    <3>6. /\ Unacked'[i] <= Unacked[i] /\ Counted[i] <= Counted'[i]
          /\ Queueing[i] = Queueing'[i] + 0
      BY Zenon, IntFacts, <1>1, <1>3, <3>3, <3>5
    <3> QED
      BY Zenon, <1>1, <1>3, <3>1, <3>3, <3>4, <3>5, <3>6 DEF EpochEffect
  <2>3. CASE i \in sent
    <3>1. /\ depositRecords[i].status = "TRANSFER_QUEUE"
          /\ i \notin Stakeable(records, ok) /\ i \notin Empty(records)
      BY Zenon, <2>1, <2>3 DEF Empty, Transferred, Queued, Stakeable
    <3>2. Pending(i) = {} /\ transfers[i] = "none" /\ depositRecords[i].amount \in Nat
      BY Zenon, <1>1, <3>1 DEF BeforeDelegation
    <3>3. /\ depositRecords'[i] = [records[i] EXCEPT !.status = "TRANSFER_IN_PROGRESS"]
          /\ transfers'[i] = "sent" /\ delegateIcas'[i] = delegateIcas[i]
      BY Zenon, <1>a, <2>3, <3>1
    <3>4. /\ depositRecords'[i] \in Record /\ depositRecords'[i].amount = depositRecords[i].amount
          /\ depositRecords'[i].status = "TRANSFER_IN_PROGRESS"
      BY Zenon, <2>1, <3>3 DEF Record, Statuses
    <3>5. BeforeDelegation(i)'
      BY Zenon, <1>3, <3>2, <3>3, <3>4 DEF BeforeDelegation
    <3>6. /\ Counted[i] = depositRecords[i].amount /\ Counted'[i] = depositRecords[i].amount
          /\ Queueing[i] = depositRecords[i].amount /\ Queueing'[i] = 0
          /\ Landed[i] = 0 /\ Landed'[i] = 0
      BY Zenon, <3>1, <3>2, <3>3, <3>4 DEF Counted, Queueing, Landed
    <3>7. /\ Unacked'[i] <= Unacked[i] /\ Counted[i] <= Counted'[i]
          /\ Queueing[i] = Queueing'[i] + depositRecords[i].amount
      BY Zenon, IntFacts, <1>1, <1>3, <3>3, <3>6
    <3> QED
      BY Zenon, <1>1, <1>3, <2>3, <3>3, <3>4, <3>5, <3>6, <3>7 DEF EpochEffect
  <2>4. CASE i \in Stakeable(records, ok)
    <3>1. /\ depositRecords[i].status = "DELEGATION_QUEUE" /\ depositRecords[i].txs = 0
          /\ i \notin Empty(records) /\ i \notin sent
      BY Zenon, <2>1, <2>4 DEF Empty, Transferred, Queued, Stakeable
    <3>2. transfers[i] = "none"
      BY Zenon, <1>1, <3>1 DEF BeforeDelegation
    <3> DEFINE n == Used(split[i])
    <3>3. n \in Nat
      <4>1. IsFiniteSet({k \in Batches : split[i][k] > 0})
        BY Zenon, BatchesFinite, FS_Subset
      <4> QED
        BY Zenon, <4>1, FS_CardinalityType DEF Used
    <3>4. /\ depositRecords'[i] = [records[i] EXCEPT !.status = "DELEGATION_IN_PROGRESS",
                                                     !.txs = @ + n]
          /\ transfers'[i] = "none" /\ delegateIcas'[i] = Submitted(split[i])
      BY ZenonT(30), <1>a, <2>4, <3>1, <3>2
    <3> HIDE DEF n
    <3>5. PICK m \in Nat : m = records[i].txs + n
      BY <2>1, <3>3 DEF Record
    <3>6. depositRecords'[i] = [records[i] EXCEPT !.status = "DELEGATION_IN_PROGRESS", !.txs = m]
      BY Zenon, <2>1, <3>4, <3>5 DEF Record
    <3>7. /\ depositRecords'[i] \in Record /\ depositRecords'[i].amount = depositRecords[i].amount
          /\ depositRecords'[i].status = "DELEGATION_IN_PROGRESS"
      BY Zenon, <2>1, <3>6 DEF Record, Statuses
    <3>8. /\ delegateIcas'[i] \in [Batches -> Batch]
          /\ \A k \in Batches : delegateIcas'[i][k].state # "success"
      BY <2>4, <3>4, SubmittedBatches DEF EpochUpdate
    <3>9. Unacked'[i] = 0
      <4> DEFINE f == [k \in Batches |-> delegateIcas'[i][k].amount]
      <4>1. {k \in Batches : delegateIcas'[i][k].state = "success"} = {}
        BY Zenon, <3>8
      <4>2. Unacked'[i] = SumFunctionOnSet(f, {})
        BY Zenon, <4>1 DEF ExecutedAmount, Unacked
      <4> HIDE DEF f
      <4> QED
        BY Zenon, <4>2, SumEmpty
    <3>10. ASSUME IInv PROVE Unacked[i] = 0
      <4>1. Pending(i) = {}
        BY Zenon, <3>1, <3>10, NoneCounted DEF IInv
      <4>2. \A k \in Batches : delegateIcas[i][k].state # "success"
        BY Zenon, <4>1 DEF Pending
      <4> QED
        BY Zenon, <4>2, NothingExecuted DEF Unacked
    <3>11. BeforeDelegation(i)'
      BY Zenon, <3>4, <3>7 DEF BeforeDelegation
    <3>12. /\ Counted[i] = depositRecords[i].amount /\ Counted'[i] = depositRecords[i].amount
           /\ Queueing[i] = 0 /\ Queueing'[i] = 0
           /\ Landed[i] = depositRecords[i].amount /\ Landed'[i] = depositRecords[i].amount
      BY ZenonT(30), <3>1, <3>7 DEF Counted, Queueing, Landed
    <3>13. /\ Unacked'[i] <= Unacked[i] /\ Counted[i] <= Counted'[i]
           /\ Queueing[i] = Queueing'[i] + 0
      BY Zenon, IntFacts, <1>1, <3>9, <3>12
    <3> QED
      BY Zenon, <3>1, <3>4, <3>7, <3>8, <3>9, <3>10, <3>11, <3>12, <3>13 DEF EpochEffect
  <2>5. CASE i \notin Empty(records) /\ i \notin sent /\ i \notin Stakeable(records, ok)
    <3>1. /\ depositRecords'[i] = records[i] /\ transfers'[i] = transfers[i]
          /\ delegateIcas'[i] = delegateIcas[i]
      BY Zenon, <1>a, <2>5
    <3>2. BeforeDelegation(i)'
      BY Zenon, <1>1, <1>3, <2>1, <3>1 DEF BeforeDelegation
    <3>3. /\ Counted[i] = Counted'[i] /\ Queueing[i] = Queueing'[i] /\ Landed'[i] = Landed[i]
      BY ZenonT(30), <2>1, <3>1 DEF Counted, Queueing, Landed
    <3>4. /\ Unacked'[i] <= Unacked[i] /\ Counted[i] <= Counted'[i]
          /\ Queueing[i] = Queueing'[i] + 0
      BY Zenon, IntFacts, <1>1, <1>3, <3>1, <3>3
    <3> QED
      BY Zenon, <1>1, <1>3, <2>1, <2>5, <3>1, <3>2, <3>3, <3>4 DEF EpochEffect
  <2> QED
    BY Zenon, <2>2, <2>3, <2>4, <2>5
<1> QED
  BY Zenon, <1>4, <1>5
-----------------------------------------------------------------------------
\* The tokens of the records, as the redemption rate counts them.
LEMMA LockedTokens ==
    ASSUME RecordsTypeOK
    PROVE  Amount(WithStatus(Statuses \ {"NONE"})) + totalDelegations = Locked
<1>1. \A i \in Ids : depositRecords[i].status \in Statuses
  BY Zenon DEF RecordsTypeOK
<1>2. WithStatus(Statuses \ {"NONE"}) \in SUBSET Ids
  BY Zenon DEF WithStatus
<1>3. \A i \in Ids : Counted[i] = IF i \in WithStatus(Statuses \ {"NONE"})
                                  THEN depositRecords[i].amount ELSE 0
  BY Zenon, <1>1 DEF Counted, WithStatus
<1>4. Amount(WithStatus(Statuses \ {"NONE"})) = Total(Counted)
  BY Zenon, <1>2, <1>3, AmountIsTotal
<1> QED
  BY Zenon, <1>4 DEF Locked

\* A rate computed from the tokens and the supply is within half a unit of their quotient.
LEMMA RateBounds ==
    ASSUME NEW n \in Nat, NEW s \in Nat \ {0}, NEW r, r = Quo(NewDecFromInt(n), NewDecFromInt(s))
    PROVE  /\ r \in Nat
           /\ 2 * (s * r) <= 2 * (n * Precision) + s
           /\ 2 * (n * Precision) <= 2 * (s * r) + s
<1>1. PICK P \in Nat \ {0} : P = Precision
  BY Zenon, PrecisionAssumption
<1>2. PICK np \in Nat : np = n * P
  OBVIOUS
<1>3. PICK m \in Nat : m = np * P
  OBVIOUS
<1>4. PICK d \in Nat \ {0} : d = s * P
  OBVIOUS
<1>5. r = RoundHalfEven(m, d)
  BY Zenon, <1>1, <1>2, <1>3, <1>4 DEF Quo, NewDecFromInt
<1>6. r \in Nat /\ 2 * (d * r) <= 2 * m + d /\ 2 * m <= 2 * (d * r) + d
  BY Zenon, <1>5, RoundBounds
<1>7. PICK x \in Nat : x = s * r
  BY <1>6
<1>8. d * r = P * x
  BY <1>4, <1>6, <1>7
<1>9. P * (2 * x) = 2 * (d * r) /\ P * (2 * np + s) = 2 * m + d
      /\ P * (2 * np) = 2 * m /\ P * (2 * x + s) = 2 * (d * r) + d
  BY <1>3, <1>4, <1>8
<1>10. 2 * x <= 2 * np + s
  BY <1>6, <1>9, Cancel
<1>11. 2 * np <= 2 * x + s
  BY <1>6, <1>9, Cancel
<1> QED
  BY Zenon, <1>1, <1>2, <1>6, <1>7, <1>10, <1>11

\* The stride epoch.
LEMMA EpochLedger ==
    ASSUME GInv, NEW ok, StrideEpoch(ok), faults' \in Nat
    PROVE  /\ GInv' /\ Locked <= Locked' /\ (IInv /\ Ledger => Ledger') /\ UNCHANGED stSupply
           /\ \/ UNCHANGED redemptionRate
              \/ /\ stSupply # 0
                 /\ redemptionRate' = Quo(NewDecFromInt(Locked), NewDecFromInt(stSupply))
<1>0. RecordsTypeOK /\ ZoneTypeOK
  BY Zenon, TypeOKParts DEF GInv
<1>1. PICK new \in NewRecords :
        \E split \in [Stakeable(Aged(new), ok) ->
                         UNION {Splits(Aged(new)[i].amount) : i \in Stakeable(Aged(new), ok)}] :
          /\ \A i \in Stakeable(Aged(new), ok) : split[i] \in Splits(Aged(new)[i].amount)
          /\ depositRecords' = AfterEpoch(Aged(new), ok, split)
          /\ transfers' = [i \in Ids |-> IF i \in Transferred(Aged(new), ok) THEN "sent"
                                         ELSE transfers[i]]
          /\ depositBalance' = depositBalance - Amount(Transferred(Aged(new), ok))
          /\ delegateIcas' = [i \in Ids |-> IF i \in Stakeable(Aged(new), ok)
                                            THEN Submitted(split[i]) ELSE delegateIcas[i]]
  BY Zenon DEF StrideEpoch
<1>2. PICK records : records = Aged(new)
  BY Zenon
<1>3. PICK split :
          /\ EpochUpdate(records, ok, split)
          /\ depositBalance' = depositBalance - Amount(Transferred(records, ok))
  BY <1>1, <1>2 DEF EpochUpdate
<1>4. PICK sent : sent = Transferred(records, ok)
  BY Zenon
<1>5. \A i \in Ids : EpochEffect(i, sent)
  BY Zenon, <1>2, <1>3, <1>4, EpochRecord
<1>6. /\ UNCHANGED <<halted, stSupply, totalDelegations, channel, reinvestIca, delegationBalance, staked>>
      /\ epoch' = (epoch + 1) % EpochCycle
      /\ redemptionRate' = IF Due(RedemptionRateInterval) /\ ~halted /\ stSupply # 0
                           THEN UpdatedRedemptionRate ELSE redemptionRate
  BY Zenon DEF StrideEpoch, hostVars
<1>7. UpdatedRedemptionRate = Quo(NewDecFromInt(Locked), NewDecFromInt(stSupply))
  BY Zenon, <1>0, LockedTokens DEF UpdatedRedemptionRate
<1>8. stSupply \in Nat /\ Locked \in Nat
  BY Zenon, <1>0 DEF ZoneTypeOK, GInv
<1>9. redemptionRate' \in Nat
  BY Zenon, <1>0, <1>6, <1>7, <1>8, RateBounds DEF ZoneTypeOK
<1>10. RecordsTypeOK'
  <2>1. \A i \in Ids : /\ depositRecords'[i] \in Record /\ delegateIcas'[i] \in [Batches -> Batch]
                       /\ transfers'[i] \in {"none", "sent", "received", "rejected"}
    BY Zenon, <1>5 DEF EpochEffect
  <2>2. /\ depositRecords' \in [Ids -> Record] /\ delegateIcas' \in [Ids -> [Batches -> Batch]]
        /\ transfers' \in [Ids -> {"none", "sent", "received", "rejected"}]
    BY Zenon, <1>3, <2>1 DEF EpochUpdate, AfterEpoch
  <2> QED
    BY Zenon, <1>0, <1>6, <2>2 DEF RecordsTypeOK, Record, Batch
<1>11. sent \in SUBSET Ids
  BY Zenon, <1>4 DEF Transferred, Queued
<1> DEFINE g == [i \in Ids |-> IF i \in sent THEN depositRecords[i].amount ELSE 0]
<1>12. Amount(sent) = Total(g) /\ Integral(g)
  <2>1. Integral(g)
    BY <1>0 DEF Integral, RecordsTypeOK
  <2>2. \A i \in Ids : g[i] = IF i \in sent THEN depositRecords[i].amount ELSE 0
    BY Zenon
  <2> HIDE DEF g
  <2> QED
    BY Zenon, <1>0, <1>11, <2>1, <2>2, AmountIsTotal
<1>13. TotalsOK /\ TotalsOK'
  BY Zenon, <1>0, <1>10, RecordTotals, RecordTotalsAfter
<1>14. Total(Queueing) = Total(Queueing') + Total(g)
  <2>1. \A i \in Ids : /\ Queueing'[i] \in Int /\ g[i] \in Int
                       /\ Queueing[i] = Queueing'[i] + g[i]
    BY Zenon, <1>5, <1>12, <1>13 DEF EpochEffect, TotalsOK, Integral
  <2> HIDE DEF g
  <2>2. IsFiniteSet(Ids)
    BY Zenon, DepositAssumptions
  <2> QED
    BY Zenon, <2>1, <2>2, SumPlus DEF Total
<1> HIDE DEF g
<1>15. depositBalance' = depositBalance - Total(g) /\ Total(g) \in Int
  BY Zenon, <1>3, <1>4, <1>12, TotalInt
<1>16. epoch' \in 0..(EpochCycle - 1)
  BY <1>0, <1>6, DepositAssumptions DEF ZoneTypeOK
<1>17. LedgerTypeOK'
  BY <1>0, <1>6, <1>9, <1>10, <1>15, <1>16, TypeOKPartsAfter DEF ZoneTypeOK
<1>18. GInv' /\ Locked <= Locked'
  <2>1. \A i \in Ids : /\ BeforeDelegation(i)' /\ Counted[i] <= Counted'[i]
                       /\ Unacked'[i] <= Unacked[i]
    BY Zenon, <1>5 DEF EpochEffect
  <2> QED
    BY Zenon, <1>6, <1>17, <2>1, ManyRecords
<1>19. ASSUME IInv, Ledger PROVE Ledger'
  <2>1. \A i \in Ids : Landed'[i] = Landed[i] /\ Unacked'[i] = Unacked[i]
    BY Zenon, <1>5, <1>19 DEF EpochEffect
  <2>2. Total(Queueing)' = Total(Queueing') /\ Total(Queueing') \in Int
    BY Zenon, <1>13, TotalInt DEF Total, TotalsOK
  <2>3. depositBalance' = Total(Queueing)'
    BY <1>14, <1>15, <1>19, <2>2 DEF Ledger
  <2> QED
    BY Zenon, <1>6, <1>19, <2>1, <2>3, ManyRecordsLedger
<1> QED
  BY Zenon, <1>6, <1>7, <1>18, <1>19
-----------------------------------------------------------------------------
\* The books in the initial states.
LEMMA InitLedger == Init => GInv /\ Ledger /\ Locked = 0
<1> SUFFICES ASSUME Init PROVE GInv /\ Ledger /\ Locked = 0
  BY Zenon
<1>1. \A i \in Ids : /\ depositRecords[i] = NoRecord /\ transfers[i] = "none"
                     /\ \A k \in Batches : delegateIcas[i][k] = NoIca
  BY Zenon DEF Init
<1>2. \A i \in Ids : Counted[i] = 0 /\ Queueing[i] = 0 /\ Landed[i] = 0
  BY <1>1 DEF Counted, Queueing, Landed, NoRecord
<1>3. \A i \in Ids : Unacked[i] = 0
  <2>1. \A i \in Ids : \A k \in Batches : delegateIcas[i][k].state # "success"
    BY <1>1 DEF NoIca
  <2> QED
    BY Zenon, <2>1, NothingExecuted DEF Unacked
<1>4. Total(Counted) = 0 /\ Total(Queueing) = 0 /\ Total(Landed) = 0 /\ Total(Unacked) = 0
  BY Zenon, <1>2, <1>3, TotalZero
<1>5. \A i \in Ids : BeforeDelegation(i)
  BY <1>1 DEF BeforeDelegation, NoRecord
<1>6. LedgerTypeOK
  <2>1. RecordsTypeOK
    BY Zenon, InitIInv DEF IInv
  <2>2. ZoneTypeOK
    <3>1. EpochCycle \in Nat \ {0} /\ Precision \in Nat
      BY Zenon, DepositAssumptions, PrecisionAssumption
    <3>2. 0 \in 0..(EpochCycle - 1)
      BY <3>1
    <3>3. halted \in BOOLEAN /\ epoch \in 0..(EpochCycle - 1)
      BY Zenon, <3>2 DEF Init
    <3>4. /\ redemptionRate \in Nat /\ totalDelegations = 0 /\ stSupply = 0 /\ faults = 0
          /\ delegationBalance = 0 /\ staked = 0 /\ depositBalance = 0
      BY Zenon, <3>1 DEF Init
    <3> QED
      BY <3>3, <3>4 DEF ZoneTypeOK
  <2> QED
    BY Zenon, <2>1, <2>2, TypeOKParts
<1>7. totalDelegations = 0 /\ staked = 0 /\ depositBalance = 0 /\ delegationBalance = 0 /\ Rewards = 0
  BY Zenon DEF Init, Rewards, NoIca
<1>8. Locked = 0
  BY <1>4, <1>7 DEF Locked
<1>9. totalDelegations + Total(Unacked) <= staked
  BY <1>4, <1>7
<1> QED
  BY <1>4, <1>5, <1>6, <1>7, <1>8, <1>9 DEF GInv, Ledger

\* Every step, by what it does to rate and supply.
LEMMA NextLedger ==
    ASSUME GInv, [Next]_vars
    PROVE  \/ Kept
           \/ \E amount \in StakeAmounts : LiquidStake(amount)
           \/ \E ok \in SUBSET Submissions : StrideEpoch(ok) /\ faults' \in Nat
<1>0. faults \in Nat
  BY Zenon DEF GInv, LedgerTypeOK, ZoneTypeOK
<1>1. ASSUME NEW amount \in StakeAmounts, WithdrawalHostBalanceCallback(amount) PROVE Kept
  BY Zenon, <1>1, NoRecordLedger
<1>2. CASE \/ BeginBlocker \/ DeprecateHostZone \/ ResumeHostZone
           \/ DelegationChannelCloses \/ OnChanOpenAck \/ RemoveValidator
           \/ HostExecutesReinvest \/ UNCHANGED vars
  BY Zenon, <1>2, NoRecordLedger
<1>3. CASE StrideEpochStart \/ StrideEpochWithErrors
  BY <1>0, <1>3 DEF StrideEpochStart, StrideEpochWithErrors, Fault
<1>4. ASSUME NEW i \in Ids, TransferReceived(i) PROVE Kept
  BY Zenon, <1>4, TransferReceivedLedger
<1>5. ASSUME NEW i \in Ids, TransferAcknowledged(i) \/ TransferTimedOut(i) PROVE Kept
  BY Zenon, <1>5, TransferCallbackLedger
<1>6. ASSUME NEW i \in Ids, NEW k \in Batches, HostExecutesDelegate(i, k) PROVE Kept
  BY Zenon, <1>6, HostExecutesLedger
<1>7. ASSUME NEW i \in Ids, NEW k \in Batches,
             DelegateAcknowledged(i, k) \/ DelegateTimedOut(i, k)
      PROVE  Kept
  BY Zenon, <1>7, DelegateCallbackLedger
<1>8. CASE RestoreInterchainAccount
  BY Zenon, <1>8, RestoreLedger
<1>9. CASE ReinvestCallback
  BY <1>9, ReinvestCallbackLedger
<1> QED
  BY Zenon, <1>1, <1>2, <1>3, <1>4, <1>5, <1>6, <1>7, <1>8, <1>9 DEF Next, DelegationStep

\* The invariants, step by step.
LEMMA NextGInv == GInv /\ [Next]_vars => GInv' /\ (IInv /\ Ledger => Ledger')
<1> SUFFICES ASSUME GInv, [Next]_vars PROVE GInv' /\ (IInv /\ Ledger => Ledger')
  BY Zenon
<1>1. ASSUME NEW amount \in StakeAmounts, LiquidStake(amount)
      PROVE  GInv' /\ (IInv /\ Ledger => Ledger')
  BY Zenon, <1>1, LiquidStakeLedger
<1>2. ASSUME NEW ok, StrideEpoch(ok), faults' \in Nat
      PROVE  GInv' /\ (IInv /\ Ledger => Ledger')
  BY Zenon, <1>2, EpochLedger
<1> QED
  BY Zenon, <1>1, <1>2, NextLedger DEF Kept

\* TotalDelegations and what is staked but unacknowledged, as the properties say it.
LEMMA UnackedTotal == StakedUnacked = Total(Unacked)
BY Zenon DEF StakedUnacked, Total, Unacked, SumFunction

\* Only batches are ever orphaned.
LEMMA NextOrphaned ==
    ASSUME orphaned \subseteq Ids \X Batches, [Next]_vars
    PROVE  orphaned' \subseteq Ids \X Batches
<1>1. CASE RemoveValidator
  BY <1>1 DEF RemoveValidator
<1>2. CASE RestoreInterchainAccount
  BY <1>2 DEF RestoreInterchainAccount
<1>3. CASE ~RemoveValidator /\ ~RestoreInterchainAccount
  <2>1. ASSUME NEW amount \in StakeAmounts,
               LiquidStake(amount) \/ WithdrawalHostBalanceCallback(amount)
        PROVE  UNCHANGED orphaned
    BY Zenon, <2>1 DEF LiquidStake, WithdrawalHostBalanceCallback, icaVars
  <2>2. CASE BeginBlocker \/ DeprecateHostZone \/ ResumeHostZone
    BY Zenon, <2>2 DEF BeginBlocker, DeprecateHostZone, ResumeHostZone, icaVars
  <2>3. CASE StrideEpochStart \/ StrideEpochWithErrors
    BY Zenon, <2>3 DEF StrideEpochStart, StrideEpochWithErrors, StrideEpoch
  <2>4. ASSUME NEW i \in Ids,
               TransferReceived(i) \/ TransferAcknowledged(i) \/ TransferTimedOut(i)
        PROVE  UNCHANGED orphaned
    BY Zenon, <2>4 DEF TransferReceived, TransferAcknowledged, TransferTimedOut,
                       TransferCallback, icaVars
  <2>5. ASSUME NEW i \in Ids, NEW k \in Batches,
               HostExecutesDelegate(i, k) \/ DelegateAcknowledged(i, k) \/ DelegateTimedOut(i, k)
        PROVE  UNCHANGED orphaned
    BY Zenon, <2>5 DEF HostExecutesDelegate, DelegateAcknowledged, DelegateTimedOut
  <2>6. CASE DelegationChannelCloses \/ OnChanOpenAck \/ HostExecutesReinvest \/ ReinvestCallback
    BY Zenon, <2>6 DEF DelegationChannelCloses, OnChanOpenAck, HostExecutesReinvest,
                       ReinvestCallback, icaVars
  <2>7. CASE UNCHANGED vars
    BY Zenon, <2>7 DEF vars, icaVars
  <2> QED
    BY Zenon, <1>3, <2>1, <2>2, <2>3, <2>4, <2>5, <2>6, <2>7 DEF Next, DelegationStep
<1> QED
  BY Zenon, <1>1, <1>2, <1>3

\* Every variable keeps its type, however the packets are relayed: in particular no account
\* on the host, no supply and no rate is ever negative.
THEOREM TypesAlwaysOK == Spec => []TypeOK
<1> DEFINE Inv == GInv /\ orphaned \subseteq Ids \X Batches
<1>1. Inv => TypeOK
  BY Zenon DEF GInv, LedgerTypeOK, ZoneTypeOK, TypeOK
<1>2. Init => Inv
  <2>1. Init => orphaned \subseteq Ids \X Batches
    BY DEF Init
  <2> QED
    BY Zenon, <2>1, InitLedger
<1>3. Inv /\ [Next]_vars => Inv'
  BY Zenon, NextGInv, NextOrphaned
<1> QED
  BY <1>1, <1>2, <1>3, PTL DEF Spec

\* The host zone's TotalDelegations never counts tokens that are not staked, even when
\* acknowledgements are lost with a closed channel and their batches are delegated again.
THEOREM NeverOverstated == Spec => []DelegationsNeverOverstated
<1>1. GInv => DelegationsNeverOverstated
  BY Zenon, UnackedTotal DEF GInv, DelegationsNeverOverstated
<1>2. Init => GInv
  BY InitLedger
<1> QED
  BY <1>1, <1>2, NextGInv, PTL DEF Spec

\* The ledger by record is AccountsBacked.
LEMMA LedgerMeaning == GInv /\ Ledger => AccountsBacked
<1> SUFFICES ASSUME GInv, Ledger PROVE AccountsBacked
  BY Zenon
<1>1. RecordsTypeOK /\ ZoneTypeOK
  BY Zenon, TypeOKParts DEF GInv
<1> DEFINE Q == WithStatus({"TRANSFER_QUEUE"})
           D == WithStatus({"DELEGATION_QUEUE", "DELEGATION_IN_PROGRESS"})
           R == {i \in Ids : transfers[i] = "received"}
           d == [i \in Ids |-> IF i \in D THEN depositRecords[i].amount ELSE 0]
           r == [i \in Ids |-> IF i \in R THEN depositRecords[i].amount ELSE 0]
<1>2. Amount(Q) = Total(Queueing)
  <2>1. Q \in SUBSET Ids /\ \A i \in Ids : Queueing[i] = IF i \in Q THEN depositRecords[i].amount ELSE 0
    BY Zenon DEF WithStatus, Queueing
  <2> HIDE DEF Q
  <2> QED
    BY Zenon, <1>1, <2>1, AmountIsTotal
<1>3. /\ D \in SUBSET Ids /\ R \in SUBSET Ids
      /\ \A i \in Ids : d[i] = IF i \in D THEN depositRecords[i].amount ELSE 0
      /\ \A i \in Ids : r[i] = IF i \in R THEN depositRecords[i].amount ELSE 0
  BY Zenon DEF WithStatus
<1>4. \A i \in Ids : d[i] \in Int /\ r[i] \in Int /\ Landed[i] = d[i] + r[i]
  <2>1. \A i \in Ids : depositRecords[i].amount \in Int
    BY Zenon, <1>1 DEF RecordsTypeOK
  <2>2. \A i \in Ids : transfers[i] = "received" => depositRecords[i].status = "TRANSFER_IN_PROGRESS"
    BY Zenon DEF GInv, BeforeDelegation
  <2> QED
    BY <2>1, <2>2 DEF Landed, WithStatus
<1> HIDE DEF D, R, d, r
<1>5. Amount(D) = Total(d) /\ Amount(R) = Total(r)
  BY Zenon, <1>1, <1>3, AmountIsTotal
<1>6. Total(Landed) = Total(d) + Total(r)
  <2>1. IsFiniteSet(Ids)
    BY Zenon, DepositAssumptions
  <2> QED
    BY Zenon, <1>4, <2>1, SumPlus DEF Total
<1>7. /\ Total(d) \in Int /\ Total(r) \in Int
  BY Zenon, <1>4, TotalInt DEF Integral
<1>8. Total(Unacked) \in Int /\ Rewards \in Int
  BY <1>1, RecordTotals DEF TotalsOK, Rewards, RecordsTypeOK
<1>9. delegationBalance + StakedUnacked = Amount(D) + Amount(R) + Rewards
  BY <1>5, <1>6, <1>7, <1>8, UnackedTotal DEF Ledger
<1> QED
  BY Zenon, <1>2, <1>9, UnackedTotal DEF Ledger, AccountsBacked, Rewards, D, R

\* The accounts are backed: nothing is delegated twice and nothing forgotten, for any
\* number of records, batches, tokens and faults.
THEOREM AccountsAlwaysBacked ==
    ASSUME OrderlyRelaying
    PROVE  Spec => []AccountsBacked
<1>1. Init => IInv /\ GInv /\ Ledger
  BY Zenon, InitIInv, InitLedger
<1>2. IInv /\ GInv /\ Ledger /\ [Next]_vars => (IInv /\ GInv /\ Ledger)'
  BY Zenon, NextIInv, NextGInv
<1>3. IInv /\ GInv /\ Ledger => AccountsBacked
  BY Zenon, LedgerMeaning
<1> QED
  BY <1>1, <1>2, <1>3, PTL DEF Spec
-----------------------------------------------------------------------------
(* The redemption rate                                                     *)

\* The rate is backed by the tokens, up to half a unit per stToken.
RateBacked == 2 * (stSupply * redemptionRate) <= 2 * (Locked * Precision) + stSupply

\* Products keep the order.
LEMMA TimesMonotone ==
    ASSUME NEW n \in Nat, NEW m \in Nat, NEW p \in Nat, n <= m
    PROVE  n * p <= m * p /\ n * p \in Nat /\ m * p \in Nat
OBVIOUS

\* More tokens back the same rate.
LEMMA RateStaysBacked ==
    ASSUME GInv, RateBacked, Locked <= Locked', Locked' \in Nat,
           UNCHANGED <<stSupply, redemptionRate>>
    PROVE  RateBacked'
<1>1. PICK n \in Nat : n = Locked
  BY Zenon DEF GInv
<1>2. PICK m \in Nat : m = Locked'
  BY Zenon
<1>3. PICK P \in Nat : P = Precision
  BY Zenon, PrecisionAssumption
<1>4. n * P <= m * P /\ n * P \in Nat /\ m * P \in Nat
  BY Zenon, <1>1, <1>2, TimesMonotone
<1>5. PICK x \in Nat : x = stSupply * redemptionRate
  BY DEF GInv, LedgerTypeOK, ZoneTypeOK
<1>6. stSupply \in Nat
  BY Zenon DEF GInv, LedgerTypeOK, ZoneTypeOK
<1> QED
  BY <1>1, <1>2, <1>3, <1>4, <1>5, <1>6 DEF RateBacked

\* A stake at the rate keeps the rate backed.
LEMMA StakeBacked ==
    ASSUME MaxSafetyThreshold < 2 * Precision, GInv, RateBacked,
           NEW amount \in StakeAmounts, LiquidStake(amount)
    PROVE  RateBacked'
<1>1. /\ GInv' /\ Locked' = Locked + amount
      /\ redemptionRate' = redemptionRate /\ redemptionRate \in Nat \ {0}
      /\ redemptionRate <= MaxSafetyThreshold
      /\ stSupply' = stSupply + TruncateInt(Quo(NewDecFromInt(amount), redemptionRate))
  BY Zenon, LiquidStakeLedger
<1>2. PICK P \in Nat : P = Precision
  BY Zenon, PrecisionAssumption
<1>3. PICK a \in Nat : a = amount
  BY Zenon, DepositAssumptions
<1>4. PICK st \in Nat : /\ st = TruncateInt(Quo(NewDecFromInt(amount), redemptionRate))
                        /\ st * redemptionRate <= a * P
  <2>1. redemptionRate < 2 * Precision
    BY <1>1, PrecisionAssumption, DepositAssumptions
  <2> QED
    BY Zenon, <1>1, <1>2, <1>3, <2>1, StakeRounding
<1>5. PICK s \in Nat, r \in Nat, n \in Nat : s = stSupply /\ r = redemptionRate /\ n = Locked
  BY Zenon DEF GInv, LedgerTypeOK, ZoneTypeOK
<1>6. PICK x \in Nat : x = s * r
  OBVIOUS
<1>7. PICK y \in Nat : y = st * r
  OBVIOUS
<1>8. PICK u \in Nat : u = n * P
  OBVIOUS
<1>9. PICK v \in Nat : v = a * P
  OBVIOUS
<1>10. (s + st) * r = x + y /\ (n + a) * P = u + v
  BY <1>6, <1>7, <1>8, <1>9
<1>11. 2 * x <= 2 * u + s /\ y <= v
  BY Zenon, <1>2, <1>4, <1>5, <1>6, <1>7, <1>8, <1>9 DEF RateBacked
<1>12. 2 * ((s + st) * r) <= 2 * ((n + a) * P) + (s + st)
  BY <1>10, <1>11
<1> QED
  BY Zenon, <1>1, <1>2, <1>3, <1>4, <1>5, <1>12 DEF RateBacked

\* A new rate is backed and at most one unit below the old one.
LEMMA EpochBacked ==
    ASSUME GInv, RateBacked, GInv', Locked <= Locked', UNCHANGED stSupply, stSupply # 0,
           redemptionRate' = Quo(NewDecFromInt(Locked), NewDecFromInt(stSupply))
    PROVE  RateBacked' /\ redemptionRate' >= redemptionRate - 1
<1>1. PICK P \in Nat : P = Precision
  BY Zenon, PrecisionAssumption
<1>2. PICK s \in Nat \ {0}, r \in Nat, n \in Nat, m \in Nat :
          s = stSupply /\ r = redemptionRate /\ n = Locked /\ m = Locked'
  BY Zenon DEF GInv, LedgerTypeOK, ZoneTypeOK
<1>3. PICK t \in Nat : /\ t = redemptionRate'
                       /\ 2 * (s * t) <= 2 * (n * P) + s /\ 2 * (n * P) <= 2 * (s * t) + s
  BY Zenon, <1>1, <1>2, RateBounds
<1>4. n * P <= m * P /\ n * P \in Nat /\ m * P \in Nat
  BY Zenon, <1>2, TimesMonotone
<1>5. PICK x \in Nat : x = s * t
  OBVIOUS
<1>6. PICK y \in Nat : y = s * r
  OBVIOUS
<1>7. 2 * y <= 2 * (n * P) + s
  BY Zenon, <1>1, <1>2, <1>6 DEF RateBacked
<1>8. y <= x + s
  BY <1>3, <1>4, <1>5, <1>7
<1>9. s * r <= s * (t + 1)
  BY <1>5, <1>6, <1>8
<1>10. r <= t + 1
  BY <1>9, Cancel
<1>11. 2 * (s * t) <= 2 * (m * P) + s
  BY <1>3, <1>4, <1>5
<1> QED
  BY <1>1, <1>2, <1>3, <1>10, <1>11 DEF RateBacked

\* Every step keeps the rate backed, and lowers it by one unit at most.
LEMMA NextRateBacked ==
    ASSUME MaxSafetyThreshold < 2 * Precision
    PROVE  GInv /\ RateBacked /\ [Next]_vars =>
               RateBacked' /\ (redemptionRate' >= redemptionRate - 1)
<1> SUFFICES ASSUME GInv, RateBacked, [Next]_vars
             PROVE  RateBacked' /\ (redemptionRate' >= redemptionRate - 1)
  BY Zenon
<1>0. GInv' /\ redemptionRate \in Nat
  BY Zenon, NextGInv DEF GInv, LedgerTypeOK, ZoneTypeOK
<1>1. CASE Kept
  BY <1>0, <1>1, RateStaysBacked DEF Kept, GInv
<1>2. ASSUME NEW amount \in StakeAmounts, LiquidStake(amount)
      PROVE  RateBacked' /\ (redemptionRate' >= redemptionRate - 1)
  BY <1>0, <1>2, StakeBacked, LiquidStakeLedger
<1>3. ASSUME NEW ok, StrideEpoch(ok), faults' \in Nat
      PROVE  RateBacked' /\ (redemptionRate' >= redemptionRate - 1)
  <2>1. /\ Locked <= Locked' /\ UNCHANGED stSupply
        /\ \/ UNCHANGED redemptionRate
           \/ /\ stSupply # 0
              /\ redemptionRate' = Quo(NewDecFromInt(Locked), NewDecFromInt(stSupply))
    BY Zenon, <1>3, EpochLedger
  <2>2. CASE UNCHANGED redemptionRate
    BY <1>0, <2>1, <2>2, RateStaysBacked DEF GInv
  <2>3. CASE /\ stSupply # 0
             /\ redemptionRate' = Quo(NewDecFromInt(Locked), NewDecFromInt(stSupply))
    BY Zenon, <1>0, <2>1, <2>3, EpochBacked
  <2> QED
    BY Zenon, <2>1, <2>2, <2>3
<1> QED
  BY Zenon, <1>1, <1>2, <1>3, NextLedger

\* Without slashing the redemption rate never falls by more than the rounding of Quo, over
\* lost acknowledgements too, as long as stakes are only taken below a rate of two: from
\* there on the rounding of a stake can cost the other holders.
THEOREM RateNeverFalls ==
    ASSUME MaxSafetyThreshold < 2 * Precision
    PROVE  Spec => RedemptionRateNeverFalls
<1>1. Init => GInv /\ RateBacked
  <2> SUFFICES ASSUME Init PROVE GInv /\ RateBacked
    BY Zenon
  <2>1. GInv /\ Locked = 0 /\ stSupply = 0 /\ redemptionRate \in Nat /\ Precision \in Nat
    BY Zenon, InitLedger, PrecisionAssumption DEF Init
  <2> QED
    BY <2>1 DEF RateBacked
<1>2. GInv /\ RateBacked /\ [Next]_vars => (GInv /\ RateBacked)'
  BY Zenon, NextGInv, NextRateBacked
<1>3. GInv /\ RateBacked /\ [Next]_vars => [redemptionRate' >= redemptionRate - 1]_vars
  BY Zenon, NextRateBacked
<1> QED
  BY <1>1, <1>2, <1>3, PTL DEF Spec, RedemptionRateNeverFalls
=============================================================================
