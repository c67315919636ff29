------------------------- MODULE ReaderTableProofs -------------------------
(***************************************************************************)
(* Proofs about ReaderTable, for any processes, threads, size of the table *)
(* and bounds.                                                             *)
(*                                                                         *)
(* That a scan protects the snapshots in use is not inductive.  It needs   *)
(* that the slot of an open reader is its own and holds its number, which  *)
(* needs that nobody else claims or clears it, which needs the mutex and   *)
(* the recheck; and of a scan at work, that an open reader's number is     *)
(* counted already or stands in a slot still to be looked at.              *)
(***************************************************************************)
EXTENDS ReaderTable, TLAPS

Claiming == {"seek", "publish", "take"}
Reading == {"load", "store", "check", "open", "free"}

(* Who claims a slot, or clears those of the dead, holds the mutex.        *)
MutexHeld ==
    /\ \A t \in Threads : pc[t] \in Claiming => rmutex = t
    /\ \A p \in Procs : check[p].at \in {"recheck", "clear"} => rmutex = p

(* Only processes that are up have anything under way.                     *)
UpOnly ==
    /\ \A t \in Threads : pc[t] # "idle" \/ reader[t] # None => up[ProcOf[t]]
    /\ \A p \in Procs : check[p].at # "idle" => up[p]

(* A check is within the table, and no thread has a slot of the pid that   *)
(* is about to be cleared.                                                 *)
ChecksOK ==
    \A p \in Procs :
        /\ check[p].at \in {"lock", "recheck", "clear"} =>
               check[p].i < check[p].rdrs /\ check[p].pid \in Procs
        /\ check[p].at = "clear" =>
               \A t \in Threads : ProcOf[t] = check[p].pid => reader[t] = None

(* The slot that is being claimed is nobody's.                             *)
ClaimsOK ==
    \A t \in Threads :
        /\ pc[t] \in {"seek", "publish"} => i[t] <= mti_numreaders
        /\ pc[t] \in {"publish", "take"} =>
               i[t] < me_maxreaders /\ mr_pid[i[t]] = None
        /\ pc[t] = "take" =>
               i[t] < mti_numreaders /\ i[t] < me_close_readers[ProcOf[t]]

(* The slot of a thread is its own, within the table and what its process  *)
(* will look at when it closes, and holds the number of an open reader.    *)
SlotsOK ==
    \A t \in Threads :
        /\ pc[t] \in Claiming => reader[t] = None
        /\ pc[t] \in Reading => reader[t] # None
        /\ reader[t] # None =>
               /\ mr_pid[reader[t]] = ProcOf[t]
               /\ reader[t] < mti_numreaders
               /\ reader[t] < me_close_readers[ProcOf[t]]
               /\ pc[t] \in {"idle", "free"} => mr_txnid[reader[t]] = IDLE
               /\ pc[t] \in {"check", "open"} => mr_txnid[reader[t]] = mt_txnid[t]
               /\ \A u \in Threads : reader[u] = reader[t] => u = t

(* Nothing is newer than the newest transaction.                           *)
NumbersOK ==
    /\ oldest <= mti_txnid /\ me_pgoldest <= mti_txnid
    /\ \A t \in Threads : mt_txnid[t] <= mti_txnid
    /\ writer # None => mti_txnid < MaxTxn

(* The scan has counted an open reader, or has its slot ahead.             *)
ScanCounts ==
    wi # NoScan =>
        \A t \in Threads :
            pc[t] = "open" =>
                oldest <= mt_txnid[t] \/ reader[t] < wi \/ reader[t] = wpid

IndInv ==
    /\ TypeOK /\ MutexHeld /\ UpOnly /\ ChecksOK /\ ClaimsOK /\ SlotsOK
    /\ NumbersOK /\ ScanCounts /\ SnapshotsProtected /\ SlotsAccounted

USE NamesAssumption, ThreadsAssumption, SizesAssumption
    DEF TypeOK, TableTypeOK, ProcTypeOK, ThreadTypeOK, WriteTypeOK, Slots,
        Txnids, IDLE, NoScan, Claiming, Reading

-----------------------------------------------------------------------------
(* A thread claims a slot. *)

LEMMA LockRmutexInd ==
    ASSUME IndInv, NEW t \in Threads, LockRmutex(t) PROVE IndInv'
  <1> USE DEF IndInv, LockRmutex, Goto, ThreadOnly, procVars, writeVars, Lock,
        Dead
  <1>1. TableTypeOK'
    OBVIOUS
  <1>2. ThreadTypeOK'
    OBVIOUS
  <1>3. MutexHeld'
    BY DEF MutexHeld
  <1>4. UpOnly'
    BY DEF UpOnly
  <1>5. ClaimsOK'
    BY DEF ClaimsOK
  <1>6. SlotsOK'
    BY SMTT(60) DEF SlotsOK, UpOnly
  <1>7. ScanCounts'
    BY DEF ScanCounts
  <1>8. SnapshotsProtected'
    BY DEF SnapshotsProtected
  <1>9. SlotsAccounted'
    BY DEF SlotsAccounted
  <1>10. ProcTypeOK' /\ WriteTypeOK' /\ ChecksOK' /\ NumbersOK'
    BY DEF ChecksOK, NumbersOK
  <1> QED
    BY <1>1, <1>2, <1>3, <1>4, <1>5, <1>6, <1>7, <1>8, <1>9, <1>10

LEMMA SeekSlotInd ==
    ASSUME IndInv, NEW t \in Threads, SeekSlot(t) PROVE IndInv'
  <1> USE DEF IndInv, SeekSlot, Goto, ThreadOnly, procVars, writeVars,
        tableVars
  <1>1. ThreadTypeOK'
    <2>1. i[t] + 1 \in 0..me_maxreaders
      OBVIOUS
    <2> QED
      BY <2>1
  <1>2. MutexHeld'
    BY DEF MutexHeld
  <1>3. UpOnly'
    BY DEF UpOnly
  <1>4. ClaimsOK'
    BY DEF ClaimsOK
  <1>5. SlotsOK'
    <2>1. pc' = pc
      OBVIOUS
    <2> QED
      BY <2>1 DEF SlotsOK
  <1>6. ScanCounts'
    BY DEF ScanCounts
  <1>7. SnapshotsProtected'
    BY DEF SnapshotsProtected
  <1>8. TableTypeOK' /\ ProcTypeOK' /\ WriteTypeOK' /\ ChecksOK' /\ NumbersOK'
        /\ SlotsAccounted'
    BY DEF ChecksOK, NumbersOK, SlotsAccounted
  <1> QED
    BY <1>1, <1>2, <1>3, <1>4, <1>5, <1>6, <1>7, <1>8

LEMMA ReadersFullInd ==
    ASSUME IndInv, NEW t \in Threads, ReadersFull(t) PROVE IndInv'
  <1> USE DEF IndInv, ReadersFull, Goto, ThreadOnly, procVars, writeVars,
        tableVars
  <1>1. TableTypeOK'
    OBVIOUS
  <1>2. ThreadTypeOK'
    OBVIOUS
  <1>3. MutexHeld'
    BY DEF MutexHeld
  <1>4. UpOnly'
    BY DEF UpOnly
  <1>5. ClaimsOK'
    BY DEF ClaimsOK
  <1>6. SlotsOK'
    BY DEF SlotsOK
  <1>7. ScanCounts'
    BY DEF ScanCounts
  <1>8. SnapshotsProtected'
    BY DEF SnapshotsProtected
  <1>9. ProcTypeOK' /\ WriteTypeOK' /\ ChecksOK' /\ NumbersOK'
        /\ SlotsAccounted'
    BY DEF ChecksOK, NumbersOK, SlotsAccounted
  <1> QED
    BY <1>1, <1>2, <1>3, <1>4, <1>5, <1>6, <1>7, <1>8, <1>9

LEMMA FoundSlotInd ==
    ASSUME IndInv, NEW t \in Threads, FoundSlot(t) PROVE IndInv'
  <1> USE DEF IndInv, FoundSlot, Goto, ThreadOnly, procVars, writeVars
  <1>1. TableTypeOK'
    OBVIOUS
  <1>2. ThreadTypeOK'
    OBVIOUS
  <1>3. MutexHeld'
    BY DEF MutexHeld
  <1>4. UpOnly'
    BY DEF UpOnly
  <1>5. ClaimsOK'
    BY SMTT(30) DEF ClaimsOK
  <1>6. SlotsOK'
    BY SMTT(60) DEF SlotsOK
  <1>7. ScanCounts'
    BY DEF ScanCounts
  <1>8. SnapshotsProtected'
    BY DEF SnapshotsProtected
  <1>9. SlotsAccounted'
    BY DEF SlotsAccounted
  <1>10. ProcTypeOK' /\ WriteTypeOK' /\ ChecksOK' /\ NumbersOK'
    BY DEF ChecksOK, NumbersOK
  <1> QED
    BY <1>1, <1>2, <1>3, <1>4, <1>5, <1>6, <1>7, <1>8, <1>9, <1>10

LEMMA PublishSlotInd ==
    ASSUME IndInv, NEW t \in Threads, PublishSlot(t) PROVE IndInv'
  <1> USE DEF IndInv, PublishSlot, Goto, tableVars, writeVars, CloseReaders
  <1>1. TableTypeOK'
    BY DEF ClaimsOK
  <1>2. ProcTypeOK'
    <2>1. me_close_readers' \in [Procs -> 0..me_maxreaders]
      BY DEF ClaimsOK
    <2> QED
      BY <2>1
  <1>3. ThreadTypeOK'
    OBVIOUS
  <1>4. MutexHeld'
    BY DEF MutexHeld
  <1>5. UpOnly'
    BY DEF UpOnly
  <1>6. ClaimsOK'
    BY DEF ClaimsOK
  <1>7. SlotsOK'
    BY DEF SlotsOK
  <1>8. ScanCounts'
    BY DEF ScanCounts
  <1>9. SnapshotsProtected'
    BY DEF SnapshotsProtected
  <1>10. WriteTypeOK' /\ ChecksOK' /\ NumbersOK' /\ SlotsAccounted'
    BY DEF ChecksOK, NumbersOK, SlotsAccounted
  <1> QED
    BY <1>1, <1>2, <1>3, <1>4, <1>5, <1>6, <1>7, <1>8, <1>9, <1>10

LEMMA TakeSlotInd ==
    ASSUME IndInv, NEW t \in Threads, TakeSlot(t) PROVE IndInv'
  <1> USE DEF IndInv, TakeSlot, Goto, ThreadOnly, procVars, writeVars, Owner
  <1>1. TableTypeOK'
    OBVIOUS
  <1>2. ThreadTypeOK'
    BY DEF ClaimsOK
  <1>3. MutexHeld'
    BY DEF MutexHeld
  <1>4. UpOnly'
    BY DEF UpOnly
  <1>5. ChecksOK'
    BY DEF ChecksOK, MutexHeld
  <1>6. ClaimsOK'
    BY DEF ClaimsOK, MutexHeld
  <1>7. SlotsOK'
    BY SMTT(60) DEF SlotsOK, ClaimsOK
  <1>8. ScanCounts'
    BY DEF ScanCounts
  <1>9. SnapshotsProtected'
    BY DEF SnapshotsProtected
  <1>10. SlotsAccounted'
    BY DEF SlotsAccounted, SlotsOK, ClaimsOK
  <1>11. ProcTypeOK' /\ WriteTypeOK' /\ NumbersOK'
    BY DEF NumbersOK
  <1> QED
    BY <1>1, <1>2, <1>3, <1>4, <1>5, <1>6, <1>7, <1>8, <1>9, <1>10, <1>11

-----------------------------------------------------------------------------
(* A thread reads. *)

LEMMA RenewInd ==
    ASSUME IndInv, NEW t \in Threads, Renew(t) PROVE IndInv'
  <1> USE DEF IndInv, Renew, Goto, ThreadOnly, procVars, writeVars, tableVars
  <1>1. ThreadTypeOK'
    OBVIOUS
  <1>2. MutexHeld'
    BY DEF MutexHeld
  <1>3. UpOnly'
    BY DEF UpOnly
  <1>4. ClaimsOK'
    BY DEF ClaimsOK
  <1>5. SlotsOK'
    BY SMTT(60) DEF SlotsOK
  <1>6. ScanCounts'
    BY DEF ScanCounts
  <1>7. SnapshotsProtected'
    BY DEF SnapshotsProtected
  <1>8. TableTypeOK' /\ ProcTypeOK' /\ WriteTypeOK' /\ ChecksOK' /\ NumbersOK'
        /\ SlotsAccounted'
    BY SMTT(30) DEF ChecksOK, NumbersOK, SlotsAccounted
  <1> QED
    BY <1>1, <1>2, <1>3, <1>4, <1>5, <1>6, <1>7, <1>8

LEMMA LoadTxnidInd ==
    ASSUME IndInv, NEW t \in Threads, LoadTxnid(t) PROVE IndInv'
  <1> USE DEF IndInv, LoadTxnid, Goto, ThreadOnly, procVars, writeVars,
        tableVars
  <1>1. ThreadTypeOK'
    OBVIOUS
  <1>2. MutexHeld'
    BY DEF MutexHeld
  <1>3. UpOnly'
    BY DEF UpOnly
  <1>4. ClaimsOK'
    BY DEF ClaimsOK
  <1>5. SlotsOK'
    BY SMTT(60) DEF SlotsOK
  <1>6. NumbersOK'
    BY DEF NumbersOK
  <1>7. ScanCounts'
    BY DEF ScanCounts
  <1>8. SnapshotsProtected'
    BY DEF SnapshotsProtected
  <1>9. TableTypeOK' /\ ProcTypeOK' /\ WriteTypeOK' /\ ChecksOK'
        /\ SlotsAccounted'
    BY DEF ChecksOK, SlotsAccounted
  <1> QED
    BY <1>1, <1>2, <1>3, <1>4, <1>5, <1>6, <1>7, <1>8, <1>9

LEMMA StoreTxnidInd ==
    ASSUME IndInv, NEW t \in Threads, StoreTxnid(t) PROVE IndInv'
  <1> USE DEF IndInv, StoreTxnid, Goto, ThreadOnly, procVars, writeVars
  <1>1. TableTypeOK'
    OBVIOUS
  <1>2. ThreadTypeOK'
    OBVIOUS
  <1>3. MutexHeld'
    BY DEF MutexHeld
  <1>4. UpOnly'
    BY DEF UpOnly
  <1>5. ClaimsOK'
    BY DEF ClaimsOK
  <1>6. SlotsOK'
    BY SMTT(60) DEF SlotsOK
  <1>7. ScanCounts'
    BY DEF ScanCounts
  <1>8. SnapshotsProtected'
    BY DEF SnapshotsProtected
  <1>9. ProcTypeOK' /\ WriteTypeOK' /\ ChecksOK' /\ NumbersOK'
        /\ SlotsAccounted'
    BY DEF ChecksOK, NumbersOK, SlotsAccounted
  <1> QED
    BY <1>1, <1>2, <1>3, <1>4, <1>5, <1>6, <1>7, <1>8, <1>9

LEMMA CheckTxnidInd ==
    ASSUME IndInv, NEW t \in Threads, CheckTxnid(t) PROVE IndInv'
  <1> USE DEF IndInv, CheckTxnid, Goto, ThreadOnly, procVars, writeVars,
        tableVars, StillNewest
  <1>1. ThreadTypeOK'
    OBVIOUS
  <1>2. MutexHeld'
    BY DEF MutexHeld
  <1>3. UpOnly'
    BY DEF UpOnly
  <1>4. ClaimsOK'
    BY DEF ClaimsOK
  <1>5. SlotsOK'
    BY SMTT(60) DEF SlotsOK
  <1>6. ScanCounts'
    BY DEF ScanCounts, NumbersOK, SlotsOK
  <1>7. SnapshotsProtected'
    BY DEF SnapshotsProtected, NumbersOK, SlotsOK
  <1>8. TableTypeOK' /\ ProcTypeOK' /\ WriteTypeOK' /\ ChecksOK' /\ NumbersOK'
        /\ SlotsAccounted'
    BY DEF ChecksOK, NumbersOK, SlotsAccounted
  <1> QED
    BY <1>1, <1>2, <1>3, <1>4, <1>5, <1>6, <1>7, <1>8

LEMMA EndReadInd ==
    ASSUME IndInv, NEW t \in Threads, EndRead(t) PROVE IndInv'
  <1> USE DEF IndInv, EndRead, Goto, ThreadOnly, procVars, writeVars
  <1>1. TableTypeOK'
    OBVIOUS
  <1>2. ThreadTypeOK'
    <2>1. pc' = [pc EXCEPT ![t] = "idle"] \/ pc' = [pc EXCEPT ![t] = "free"]
      OBVIOUS
    <2>2. 0 \in Txnids
      OBVIOUS
    <2> QED
      BY <2>1, <2>2
  <1>3. MutexHeld'
    BY DEF MutexHeld
  <1>4. UpOnly'
    BY DEF UpOnly
  <1>5. ClaimsOK'
    BY DEF ClaimsOK
  <1>6. SlotsOK'
    <2>1. \A u \in Threads :
             u # t => pc'[u] = pc[u] /\ mt_txnid'[u] = mt_txnid[u]
      OBVIOUS
    <2>2. pc'[t] \in {"idle", "free"} /\ reader[t] # None
      BY DEF SlotsOK
    <2>3. /\ mr_txnid'[reader[t]] = IDLE
          /\ \A u \in Threads : u # t /\ reader[u] # None =>
                 mr_txnid'[reader[u]] = mr_txnid[reader[u]]
      BY <2>2 DEF SlotsOK
    <2> QED
      BY <2>1, <2>2, <2>3, SMTT(60) DEF SlotsOK
  <1>7. NumbersOK'
    BY DEF NumbersOK
  <1>8. ScanCounts'
    <2>1. \A u \in Threads : pc'[u] = "open" =>
             pc[u] = "open" /\ mt_txnid'[u] = mt_txnid[u]
      OBVIOUS
    <2> QED
      BY <2>1 DEF ScanCounts
  <1>9. SnapshotsProtected'
    BY DEF SnapshotsProtected
  <1>10. ProcTypeOK' /\ WriteTypeOK' /\ ChecksOK' /\ SlotsAccounted'
    BY DEF ChecksOK, SlotsAccounted
  <1> QED
    BY <1>1, <1>2, <1>3, <1>4, <1>5, <1>6, <1>7, <1>8, <1>9, <1>10

LEMMA FreeSlotInd ==
    ASSUME IndInv, NEW t \in Threads, FreeSlot(t) PROVE IndInv'
  <1> USE DEF IndInv, FreeSlot, Goto, ThreadOnly, procVars, writeVars
  <1>1. TableTypeOK'
    OBVIOUS
  <1>2. ThreadTypeOK'
    OBVIOUS
  <1>3. MutexHeld'
    BY DEF MutexHeld
  <1>4. UpOnly'
    BY DEF UpOnly
  <1>5. ChecksOK'
    BY DEF ChecksOK
  <1>6. ClaimsOK'
    BY DEF ClaimsOK
  <1>7. SlotsOK'
    <2>1. \A u \in Threads : u # t => pc'[u] = pc[u] /\ reader'[u] = reader[u]
      OBVIOUS
    <2>2. pc'[t] = "idle" /\ reader'[t] = None
      OBVIOUS
    <2>3. \A u \in Threads :
             u # t /\ reader[u] # None => mr_pid'[reader[u]] = mr_pid[reader[u]]
      BY DEF SlotsOK
    <2> QED
      BY <2>1, <2>2, <2>3, SMTT(60) DEF SlotsOK
  <1>8. ScanCounts'
    BY DEF ScanCounts
  <1>9. SnapshotsProtected'
    BY DEF SnapshotsProtected
  <1>10. SlotsAccounted'
    BY DEF SlotsAccounted
  <1>11. ProcTypeOK' /\ WriteTypeOK' /\ NumbersOK'
    BY DEF NumbersOK
  <1> QED
    BY <1>1, <1>2, <1>3, <1>4, <1>5, <1>6, <1>7, <1>8, <1>9, <1>10, <1>11

-----------------------------------------------------------------------------
(* The writer. *)

LEMMA BeginWriteInd ==
    ASSUME IndInv, NEW p \in Procs, BeginWrite(p) PROVE IndInv'
  <1> USE DEF IndInv, BeginWrite, WriterOnly, tableVars, procVars, threadVars
  <1>1. WriteTypeOK'
    OBVIOUS
  <1>2. NumbersOK'
    BY DEF NumbersOK
  <1>3. TableTypeOK' /\ ProcTypeOK' /\ ThreadTypeOK' /\ MutexHeld' /\ UpOnly'
        /\ ChecksOK' /\ ClaimsOK' /\ SlotsOK' /\ ScanCounts'
        /\ SnapshotsProtected' /\ SlotsAccounted'
    BY DEF MutexHeld, UpOnly, ChecksOK, ClaimsOK, SlotsOK, ScanCounts,
         SnapshotsProtected, SlotsAccounted
  <1> QED
    BY <1>1, <1>2, <1>3

LEMMA StartScanInd ==
    ASSUME IndInv, StartScan PROVE IndInv'
  <1> USE DEF IndInv, StartScan, WriterOnly, tableVars, procVars, threadVars
  <1>1. WriteTypeOK'
    OBVIOUS
  <1>2. NumbersOK'
    BY DEF NumbersOK
  <1>3. ScanCounts'
    BY DEF ScanCounts, SlotsOK
  <1>4. TableTypeOK' /\ ProcTypeOK' /\ ThreadTypeOK' /\ MutexHeld' /\ UpOnly'
        /\ ChecksOK' /\ ClaimsOK' /\ SlotsOK' /\ SnapshotsProtected'
        /\ SlotsAccounted'
    BY DEF MutexHeld, UpOnly, ChecksOK, ClaimsOK, SlotsOK, SnapshotsProtected,
         SlotsAccounted
  <1> QED
    BY <1>1, <1>2, <1>3, <1>4

LEMMA LookAtPidInd ==
    ASSUME IndInv, LookAtPid PROVE IndInv'
  <1> USE DEF IndInv, LookAtPid, WriterOnly, tableVars, procVars, threadVars
  <1>1. WriteTypeOK'
    OBVIOUS
  <1>2. ScanCounts'
    <2>1. \A t \in Threads : pc[t] = "open" => reader[t] \in Slots
      BY DEF SlotsOK
    <2>2. \A t \in Threads :
             pc[t] = "open" /\ reader[t] = wi - 1 => wpid' = reader[t]
      BY <2>1 DEF SlotsOK
    <2>3. \A t \in Threads :
             pc[t] = "open" => oldest <= mt_txnid[t] \/ reader[t] < wi
      BY <2>1 DEF ScanCounts
    <2>4. \A t \in Threads :
             pc[t] = "open" /\ reader[t] < wi => reader[t] < wi' \/ reader[t] = wi - 1
      BY <2>1
    <2> QED
      BY <2>2, <2>3, <2>4 DEF ScanCounts
  <1>3. TableTypeOK' /\ ProcTypeOK' /\ ThreadTypeOK' /\ MutexHeld' /\ UpOnly'
        /\ ChecksOK' /\ ClaimsOK' /\ SlotsOK' /\ NumbersOK'
        /\ SnapshotsProtected' /\ SlotsAccounted'
    BY DEF MutexHeld, UpOnly, ChecksOK, ClaimsOK, SlotsOK, NumbersOK,
         SnapshotsProtected, SlotsAccounted
  <1> QED
    BY <1>1, <1>2, <1>3

LEMMA LookAtTxnidInd ==
    ASSUME IndInv, LookAtTxnid PROVE IndInv'
  <1> USE DEF IndInv, LookAtTxnid, WriterOnly, tableVars, procVars, threadVars
  <1>1. WriteTypeOK'
    OBVIOUS
  <1>2. NumbersOK'
    BY DEF NumbersOK
  <1>3. ScanCounts'
    BY DEF ScanCounts, SlotsOK
  <1>4. TableTypeOK' /\ ProcTypeOK' /\ ThreadTypeOK' /\ MutexHeld' /\ UpOnly'
        /\ ChecksOK' /\ ClaimsOK' /\ SlotsOK' /\ SnapshotsProtected'
        /\ SlotsAccounted'
    BY DEF MutexHeld, UpOnly, ChecksOK, ClaimsOK, SlotsOK, SnapshotsProtected,
         SlotsAccounted
  <1> QED
    BY <1>1, <1>2, <1>3, <1>4

LEMMA EndScanInd ==
    ASSUME IndInv, EndScan PROVE IndInv'
  <1> USE DEF IndInv, EndScan, WriterOnly, tableVars, procVars, threadVars
  <1>1. WriteTypeOK'
    OBVIOUS
  <1>2. NumbersOK'
    BY DEF NumbersOK
  <1>3. ScanCounts'
    BY DEF ScanCounts
  <1>4. SnapshotsProtected'
    BY DEF SnapshotsProtected, ScanCounts, SlotsOK
  <1>5. TableTypeOK' /\ ProcTypeOK' /\ ThreadTypeOK' /\ MutexHeld' /\ UpOnly'
        /\ ChecksOK' /\ ClaimsOK' /\ SlotsOK' /\ SlotsAccounted'
    BY DEF MutexHeld, UpOnly, ChecksOK, ClaimsOK, SlotsOK, SlotsAccounted
  <1> QED
    BY <1>1, <1>2, <1>3, <1>4, <1>5

LEMMA CommitInd ==
    ASSUME IndInv, Commit PROVE IndInv'
  <1> USE DEF IndInv, Commit, WriterOnly, tableVars, procVars, threadVars
  <1>1. WriteTypeOK'
    BY DEF NumbersOK
  <1>2. NumbersOK'
    BY DEF NumbersOK
  <1>3. TableTypeOK' /\ ProcTypeOK' /\ ThreadTypeOK' /\ MutexHeld' /\ UpOnly'
        /\ ChecksOK' /\ ClaimsOK' /\ SlotsOK' /\ ScanCounts'
        /\ SnapshotsProtected' /\ SlotsAccounted'
    BY DEF MutexHeld, UpOnly, ChecksOK, ClaimsOK, SlotsOK, ScanCounts,
         SnapshotsProtected, SlotsAccounted
  <1> QED
    BY <1>1, <1>2, <1>3

-----------------------------------------------------------------------------
(* mdb_reader_check. *)

LEMMA NextIndex ==
    ASSUME NEW c \in Checks, c.i < c.rdrs
    PROVE  c.i + 1 \in 0..me_maxreaders
  BY DEF Checks

LEMMA CheckFacts ==
    ASSUME IndInv, NEW p \in Procs
    PROVE  /\ check[p] \in Checks
           /\ check[p].at \in {"lock", "recheck", "clear"} =>
                  check[p].i + 1 \in 0..me_maxreaders
  <1>1. check[p] \in Checks
    BY DEF IndInv
  <1>2. check[p].at \in {"lock", "recheck", "clear"} => check[p].i < check[p].rdrs
    BY DEF IndInv, ChecksOK
  <1> QED
    BY <1>1, <1>2, NextIndex

LEMMA NextSlotFacts ==
    ASSUME NEW c \in Checks, c.i + 1 \in 0..me_maxreaders
    PROVE  NextSlot(c) \in Checks /\ NextSlot(c).at = "look"
  BY DEF NextSlot, Checks

LEMMA AtFacts ==
    ASSUME NEW c \in Checks, NEW a \in {"look", "lock", "recheck", "clear"}
    PROVE  /\ [c EXCEPT !.at = a] \in Checks
           /\ [c EXCEPT !.at = a].at = a
           /\ [c EXCEPT !.at = a].i = c.i
           /\ [c EXCEPT !.at = a].rdrs = c.rdrs
           /\ [c EXCEPT !.at = a].pid = c.pid
  BY DEF Checks

LEMMA StartCheckInd ==
    ASSUME IndInv, NEW p \in Procs, StartCheck(p) PROVE IndInv'
  <1> USE DEF IndInv, StartCheck, CheckOnly, procVars, threadVars, writeVars,
        NotChecking
  <1>1. ProcTypeOK'
    <2>1. check'[p] \in Checks
      BY DEF Checks
    <2>2. check' \in [Procs -> Checks]
      BY <2>1
    <2> QED
      BY <2>2
  <1>2. MutexHeld'
    BY DEF MutexHeld
  <1>3. UpOnly'
    BY DEF UpOnly
  <1>4. ChecksOK'
    BY DEF ChecksOK
  <1>5. TableTypeOK' /\ ThreadTypeOK' /\ WriteTypeOK' /\ ClaimsOK' /\ SlotsOK'
        /\ NumbersOK' /\ ScanCounts' /\ SnapshotsProtected' /\ SlotsAccounted'
    BY DEF ClaimsOK, SlotsOK, NumbersOK, ScanCounts, SnapshotsProtected,
         SlotsAccounted
  <1> QED
    BY <1>1, <1>2, <1>3, <1>4, <1>5

LEMMA LookForDeadInd ==
    ASSUME IndInv, NEW p \in Procs, LookForDead(p) PROVE IndInv'
  <1> USE DEF IndInv, LookForDead, CheckOnly, procVars, threadVars, writeVars
  <1>1. ProcTypeOK'
    <2>1. check'[p] \in Checks
      <3> DEFINE c == check[p]
      <3>1. c \in Checks /\ mr_pid[c.i] \in Procs \cup {None}
        BY DEF Checks
      <3>2. c.i + 1 \in 0..me_maxreaders
        BY <3>1, NextIndex
      <3>3. \/ check'[p] = [c EXCEPT !.i = @ + 1]
            \/ /\ mr_pid[c.i] \in Procs
               /\ \/ check'[p] = [c EXCEPT !.i = @ + 1,
                                           !.pids = @ \cup {mr_pid[c.i]}]
                  \/ check'[p] = [c EXCEPT !.at = "lock", !.pid = mr_pid[c.i],
                                           !.pids = @ \cup {mr_pid[c.i]}]
        BY <3>1
      <3> QED
        BY <3>1, <3>2, <3>3 DEF Checks
    <2>2. check' \in [Procs -> Checks]
      BY <2>1
    <2> QED
      BY <2>2
  <1>2. MutexHeld'
    BY DEF MutexHeld
  <1>3. UpOnly'
    BY DEF UpOnly
  <1>4. ChecksOK'
    <2>1. check[p] \in Checks
      BY CheckFacts
    <2>2. check'[p].at = "look" \/ check'[p].at = "lock"
      BY <2>1 DEF Checks
    <2>3. check'[p].at = "lock" =>
             check'[p].i < check'[p].rdrs /\ check'[p].pid \in Procs
      BY <2>1 DEF Checks
    <2>4. ASSUME NEW q \in Procs, q # p
          PROVE  /\ check'[q].at \in {"lock", "recheck", "clear"} =>
                        check'[q].i < check'[q].rdrs /\ check'[q].pid \in Procs
                 /\ check'[q].at = "clear" =>
                        \A t \in Threads :
                            ProcOf[t] = check'[q].pid => reader'[t] = None
      <3>1. check'[q] = check[q]
        BY <2>4
      <3> QED
        BY <2>4, <3>1 DEF ChecksOK
    <2> QED
      BY <2>2, <2>3, <2>4 DEF ChecksOK
  <1>5. TableTypeOK' /\ ThreadTypeOK' /\ WriteTypeOK' /\ ClaimsOK' /\ SlotsOK'
        /\ NumbersOK' /\ ScanCounts' /\ SnapshotsProtected' /\ SlotsAccounted'
    BY ZenonT(60) DEF ClaimsOK, SlotsOK, NumbersOK, ScanCounts, SnapshotsProtected,
         SlotsAccounted
  <1> QED
    BY <1>1, <1>2, <1>3, <1>4, <1>5

LEMMA LockForCheckInd ==
    ASSUME IndInv, NEW p \in Procs, LockForCheck(p) PROVE IndInv'
  <1> USE DEF IndInv, LockForCheck, CheckOnly, procVars, threadVars,
        writeVars, Lock, Dead, NotChecking
  <1>1. TableTypeOK'
    OBVIOUS
  <1>2. ProcTypeOK'
    <2>1. check'[p] \in Checks
      <3>1. \/ check'[p] = NotChecking
            \/ check'[p] = [check[p] EXCEPT !.at = "recheck"]
        OBVIOUS
      <3>2. NotChecking \in Checks
        BY DEF Checks
      <3> QED
        BY <3>1, <3>2, CheckFacts, AtFacts, ZenonT(60)
    <2>2. check' \in [Procs -> Checks]
      BY <2>1
    <2> QED
      BY <2>2
  <1>3. MutexHeld'
    BY DEF MutexHeld
  <1>4. UpOnly'
    BY DEF UpOnly
  <1>5. ChecksOK'
    BY DEF ChecksOK
  <1>6. ClaimsOK'
    BY SMTT(30) DEF ClaimsOK
  <1>7. SlotsOK'
    BY SMTT(60) DEF SlotsOK, UpOnly
  <1>8. SlotsAccounted'
    BY DEF SlotsAccounted
  <1>9. ThreadTypeOK' /\ WriteTypeOK' /\ NumbersOK' /\ ScanCounts'
        /\ SnapshotsProtected'
    BY DEF NumbersOK, ScanCounts, SnapshotsProtected
  <1> QED
    BY <1>1, <1>2, <1>3, <1>4, <1>5, <1>6, <1>7, <1>8, <1>9

LEMMA RecheckInd ==
    ASSUME IndInv, NEW p \in Procs, Recheck(p) PROVE IndInv'
  <1> USE DEF IndInv, Recheck, CheckOnly, procVars, threadVars, writeVars
  <1>1. TableTypeOK'
    OBVIOUS
  <1>2. ProcTypeOK'
    <2>1. check[p] \in Checks /\ check[p].i + 1 \in 0..me_maxreaders
      BY CheckFacts
    <2>2. PICK c : /\ check' = [check EXCEPT ![p] = c]
                   /\ c = NextSlot(check[p]) \/ c = [check[p] EXCEPT !.at = "clear"]
      OBVIOUS
    <2>3. NextSlot(check[p]) \in Checks
      BY <2>1, NextSlotFacts
    <2>4. [check[p] EXCEPT !.at = "clear"] \in Checks
      BY <2>1, AtFacts
    <2>5. c \in Checks
      BY <2>2, <2>3, <2>4
    <2>6. check' \in [Procs -> Checks]
      BY <2>2, <2>5
    <2> QED
      BY <2>6
  <1>3. MutexHeld'
    <2>1. \A q \in Procs : q # p => check'[q] = check[q]
      OBVIOUS
    <2>2. CASE Reused(p)
      <3>1. check'[p] = NextSlot(check[p])
        BY <2>2
      <3>2. check[p] \in Checks /\ check[p].i + 1 \in 0..me_maxreaders
        BY CheckFacts
      <3>3. NextSlot(check[p]).at = "look"
        BY <3>2, NextSlotFacts
      <3>4. rmutex = p
        BY DEF MutexHeld
      <3>5. \A q \in Procs : q # p => check[q].at \notin {"recheck", "clear"}
        BY <3>4 DEF MutexHeld
      <3>6. \A t \in Threads : pc[t] \notin Claiming
        BY <3>4, ZenonT(60) DEF MutexHeld
      <3> QED
        BY <2>1, <3>1, <3>3, <3>5, <3>6 DEF MutexHeld
    <2>3. CASE ~Reused(p)
      BY <2>1, <2>3 DEF MutexHeld
    <2> QED
      BY <2>2, <2>3
  <1>4. UpOnly'
    <2>1. \A q \in Procs : q # p => check'[q] = check[q]
      OBVIOUS
    <2>2. up[p]
      BY DEF UpOnly
    <2> QED
      BY <2>1, <2>2 DEF UpOnly
  <1>5. ChecksOK'
    <2>1. \A q \in Procs : q # p => check'[q] = check[q]
      OBVIOUS
    <2>2. CASE Reused(p)
      <3>1. check'[p] = NextSlot(check[p])
        BY <2>2
      <3>2. check[p] \in Checks /\ check[p].i + 1 \in 0..me_maxreaders
        BY CheckFacts
      <3>3. NextSlot(check[p]).at = "look"
        BY <3>2, NextSlotFacts
      <3>4. ASSUME NEW q \in Procs, check'[q].at \in {"lock", "recheck", "clear"}
            PROVE  check'[q] = check[q]
        BY <2>1, <3>1, <3>3, <3>4
      <3>5. UNCHANGED reader
        OBVIOUS
      <3> QED
        BY <3>4, <3>5, SMTT(60) DEF ChecksOK
    <2>3. CASE ~Reused(p)
      <3>1. check'[p] = [check[p] EXCEPT !.at = "clear"]
        BY <2>3
      <3>2. /\ check'[p].i = check[p].i /\ check'[p].rdrs = check[p].rdrs
            /\ check'[p].pid = check[p].pid
        BY <3>1, CheckFacts, AtFacts
      <3>3. check[p].i < check[p].rdrs /\ check[p].pid \in Procs
        BY DEF ChecksOK
      <3>4. \A t \in Threads : ProcOf[t] = check[p].pid => reader[t] = None
        BY <2>3, <3>3 DEF UpOnly, Reused
      <3>5. \A q \in Procs : q # p =>
               /\ check'[q].at \in {"lock", "recheck", "clear"} =>
                      check'[q].i < check'[q].rdrs /\ check'[q].pid \in Procs
               /\ check'[q].at = "clear" =>
                      \A t \in Threads : ProcOf[t] = check'[q].pid => reader[t] = None
        BY <2>1, ZenonT(60) DEF ChecksOK
      <3> QED
        BY <3>2, <3>3, <3>4, <3>5 DEF ChecksOK
    <2> QED
      BY <2>2, <2>3
  <1>6. ThreadTypeOK' /\ WriteTypeOK' /\ ClaimsOK' /\ SlotsOK' /\ NumbersOK'
        /\ ScanCounts' /\ SnapshotsProtected' /\ SlotsAccounted'
    BY DEF ClaimsOK, SlotsOK, NumbersOK, ScanCounts, SnapshotsProtected,
         SlotsAccounted
  <1> QED
    BY <1>1, <1>2, <1>3, <1>4, <1>5, <1>6

LEMMA ClearDeadInd ==
    ASSUME IndInv, NEW p \in Procs, ClearDead(p) PROVE IndInv'
  <1> USE DEF IndInv, ClearDead, CheckOnly, procVars, threadVars, writeVars
  <1>1. TableTypeOK'
    OBVIOUS
  <1>2. ProcTypeOK'
    <2>1. check'[p] \in Checks
      BY CheckFacts, NextSlotFacts
    <2>2. check' \in [Procs -> Checks]
      BY <2>1
    <2> QED
      BY <2>2
  <1>3. MutexHeld'
    <2>1. \A q \in Procs : q # p => check'[q] = check[q]
      OBVIOUS
    <2>2. check'[p].at = "look"
      BY CheckFacts, NextSlotFacts
    <2>3. rmutex = p
      BY DEF MutexHeld
    <2>4. \A q \in Procs : q # p => check[q].at \notin {"recheck", "clear"}
      BY <2>3 DEF MutexHeld
    <2>5. \A t \in Threads : pc[t] \notin Claiming
      BY <2>3 DEF MutexHeld
    <2> QED
      BY <2>1, <2>2, <2>4, <2>5 DEF MutexHeld
  <1>4. UpOnly'
    BY DEF UpOnly
  <1>5. ChecksOK'
    <2>1. \A q \in Procs : q # p => check'[q] = check[q]
      OBVIOUS
    <2>2. check'[p].at = "look"
      BY CheckFacts, NextSlotFacts
    <2>3. \A q \in Procs :
             check'[q].at \in {"lock", "recheck", "clear"} => check'[q] = check[q]
      BY <2>1, <2>2
    <2> QED
      BY <2>3 DEF ChecksOK
  <1>6. ClaimsOK'
    BY DEF ClaimsOK
  <1>7. SlotsOK'
    <2>1. \A t \in Threads : ProcOf[t] = check[p].pid => reader[t] = None
      BY DEF ChecksOK
    <2>2. \A t \in Threads :
             reader[t] # None => mr_pid'[reader[t]] = mr_pid[reader[t]]
      BY <2>1 DEF SlotsOK
    <2> QED
      BY <2>2, ZenonT(60) DEF SlotsOK
  <1>8. SlotsAccounted'
    BY DEF SlotsAccounted
  <1>9. ThreadTypeOK' /\ WriteTypeOK' /\ NumbersOK' /\ ScanCounts'
        /\ SnapshotsProtected'
    BY DEF NumbersOK, ScanCounts, SnapshotsProtected
  <1> QED
    BY <1>1, <1>2, <1>3, <1>4, <1>5, <1>6, <1>7, <1>8, <1>9

LEMMA EndCheckInd ==
    ASSUME IndInv, NEW p \in Procs, EndCheck(p) PROVE IndInv'
  <1> USE DEF IndInv, EndCheck, CheckOnly, procVars, threadVars, writeVars,
        NotChecking
  <1>1. ProcTypeOK'
    BY DEF Checks
  <1>2. MutexHeld'
    BY DEF MutexHeld
  <1>3. UpOnly'
    BY DEF UpOnly
  <1>4. ChecksOK'
    BY DEF ChecksOK
  <1>5. TableTypeOK' /\ ThreadTypeOK' /\ WriteTypeOK' /\ ClaimsOK' /\ SlotsOK'
        /\ NumbersOK' /\ ScanCounts' /\ SnapshotsProtected' /\ SlotsAccounted'
    BY DEF ClaimsOK, SlotsOK, NumbersOK, ScanCounts, SnapshotsProtected,
         SlotsAccounted
  <1> QED
    BY <1>1, <1>2, <1>3, <1>4, <1>5

-----------------------------------------------------------------------------
(* Processes come and go. *)

LEMMA OpenInd ==
    ASSUME IndInv, NEW p \in Procs, Open(p) PROVE IndInv'
  <1> USE DEF IndInv, Open, tableVars, threadVars, writeVars
  <1>1. TableTypeOK'
    OBVIOUS
  <1>2. ProcTypeOK'
    OBVIOUS
  <1>3. MutexHeld'
    BY DEF MutexHeld, UpOnly
  <1>4. UpOnly'
    BY DEF UpOnly
  <1>5. ClaimsOK'
    BY DEF ClaimsOK, UpOnly
  <1>6. SlotsOK'
    BY SMTT(60) DEF SlotsOK, UpOnly
  <1>7. ThreadTypeOK' /\ WriteTypeOK' /\ ChecksOK' /\ NumbersOK'
        /\ ScanCounts' /\ SnapshotsProtected' /\ SlotsAccounted'
    BY DEF ChecksOK, NumbersOK, ScanCounts, SnapshotsProtected, SlotsAccounted
  <1> QED
    BY <1>1, <1>2, <1>3, <1>4, <1>5, <1>6, <1>7

LEMMA CloseInd ==
    ASSUME IndInv, NEW p \in Procs, Close(p) PROVE IndInv'
  <1> USE DEF IndInv, Close, Forget, ThreadsOf, NotChecking, writeVars
  <1>1. TableTypeOK'
    OBVIOUS
  <1>2. ProcTypeOK'
    OBVIOUS
  <1>3. ThreadTypeOK'
    OBVIOUS
  <1>4. MutexHeld'
    BY DEF MutexHeld
  <1>5. UpOnly'
    BY DEF UpOnly
  <1>6. ChecksOK'
    BY DEF ChecksOK
  <1>7. ClaimsOK'
    BY DEF ClaimsOK
  <1>8. SlotsOK'
    BY SMTT(60) DEF SlotsOK
  <1>9. NumbersOK'
    BY DEF NumbersOK
  <1>10. ScanCounts'
    BY DEF ScanCounts
  <1>11. SnapshotsProtected'
    BY DEF SnapshotsProtected
  <1>12. SlotsAccounted'
    BY DEF SlotsAccounted, SlotsOK
  <1>13. WriteTypeOK'
    OBVIOUS
  <1> QED
    BY <1>1, <1>2, <1>3, <1>4, <1>5, <1>6, <1>7, <1>8, <1>9, <1>10, <1>11,
       <1>12, <1>13

LEMMA DieInd ==
    ASSUME IndInv, NEW p \in Procs, Die(p) PROVE IndInv'
  <1> USE DEF IndInv, Die, Forget, ThreadsOf, Holds, NotChecking, tableVars
  <1>1. TableTypeOK'
    OBVIOUS
  <1>2. ProcTypeOK'
    BY DEF Checks
  <1>3. ThreadTypeOK'
    OBVIOUS
  <1>4. WriteTypeOK'
    OBVIOUS
  <1>5. MutexHeld'
    BY DEF MutexHeld
  <1>6. UpOnly'
    BY DEF UpOnly
  <1>7. ChecksOK'
    BY DEF ChecksOK
  <1>8. ClaimsOK'
    BY DEF ClaimsOK
  <1>9. SlotsOK'
    BY SMTT(60) DEF SlotsOK
  <1>10. NumbersOK'
    BY DEF NumbersOK
  <1>11. ScanCounts'
    BY DEF ScanCounts
  <1>12. SnapshotsProtected'
    BY DEF SnapshotsProtected
  <1>13. SlotsAccounted'
    BY DEF SlotsAccounted, SlotsOK
  <1> QED
    BY <1>1, <1>2, <1>3, <1>4, <1>5, <1>6, <1>7, <1>8, <1>9, <1>10, <1>11,
       <1>12, <1>13

-----------------------------------------------------------------------------
(* The invariant is inductive. *)
LEMMA InitInd == Init => IndInv
  BY DEF Init, IndInv, Checks, NotChecking, MutexHeld, UpOnly, ChecksOK,
         ClaimsOK, SlotsOK, NumbersOK, ScanCounts, SnapshotsProtected,
         SlotsAccounted

LEMMA StutterInd == IndInv /\ UNCHANGED vars => IndInv'
  BY DEF IndInv, vars, tableVars, procVars, threadVars, writeVars, MutexHeld,
         UpOnly, ChecksOK, ClaimsOK, SlotsOK, NumbersOK, ScanCounts,
         SnapshotsProtected, SlotsAccounted

LEMMA NextInd == IndInv /\ [Next]_vars => IndInv'
  <1> SUFFICES ASSUME IndInv, [Next]_vars PROVE IndInv'
    OBVIOUS
  <1>1. ASSUME NEW t \in Threads, Claim(t) PROVE IndInv'
    BY <1>1, LockRmutexInd, SeekSlotInd, ReadersFullInd, FoundSlotInd,
       PublishSlotInd, TakeSlotInd DEF Claim
  <1>2. ASSUME NEW t \in Threads, Read(t) PROVE IndInv'
    BY <1>2, RenewInd, LoadTxnidInd, StoreTxnidInd, CheckTxnidInd, EndReadInd,
       FreeSlotInd DEF Read
  <1>3. ASSUME NEW p \in Procs, ReaderCheck(p) PROVE IndInv'
    BY <1>3, StartCheckInd, LookForDeadInd, LockForCheckInd, RecheckInd,
       ClearDeadInd, EndCheckInd DEF ReaderCheck
  <1>4. ASSUME NEW p \in Procs, BeginWrite(p) \/ Open(p) \/ Close(p) \/ Die(p)
        PROVE  IndInv'
    BY <1>4, BeginWriteInd, OpenInd, CloseInd, DieInd
  <1>5. CASE Scan
    BY <1>5, StartScanInd, LookAtPidInd, LookAtTxnidInd, EndScanInd DEF Scan
  <1>6. CASE Commit
    BY <1>6, CommitInd
  <1>7. CASE UNCHANGED vars
    BY <1>7, StutterInd
  <1> QED
    BY <1>1, <1>2, <1>3, <1>4, <1>5, <1>6, <1>7 DEF Next

LEMMA Invariance == Spec => []IndInv
  BY InitInd, NextInd, PTL DEF Spec

-----------------------------------------------------------------------------
(* Every variable keeps its type; no loop over the slots leaves the table. *)
THEOREM ReaderTableTypes == Spec => []TypeOK
  <1>1. IndInv => TypeOK
    BY DEF IndInv
  <1> QED
    BY <1>1, Invariance, PTL

(* mdb_find_oldest, one load at a time and without a lock, never lets the  *)
(* writer reuse the pages of a snapshot that a thread reads.               *)
THEOREM ScansProtectSnapshots == Spec => []SnapshotsProtected
  <1>1. IndInv => SnapshotsProtected
    BY DEF IndInv
  <1> QED
    BY <1>1, Invariance, PTL

(* A slot stays its thread's until the thread gives it back, whoever       *)
(* claims, closes or clears meanwhile: there is no MDB_BAD_RSLOT.          *)
THEOREM SlotsStayOwned == Spec => []SlotsOwned
  <1>1. IndInv => SlotsOwned
    BY DEF IndInv, SlotsOK, SlotsOwned
  <1> QED
    BY <1>1, Invariance, PTL

(* No slot is lost but those a dead process left, which a check can find.  *)
THEOREM NoSlotLost == Spec => []SlotsAccounted
  <1>1. IndInv => SlotsAccounted
    BY DEF IndInv
  <1> QED
    BY <1>1, Invariance, PTL
=============================================================================
