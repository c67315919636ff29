---------------------------- MODULE MDBTxnProofs ----------------------------
(***************************************************************************)
(* Proofs about MDBTxn, for any processes, trees, map size and bounds.     *)
(*                                                                         *)
(* First the types.  The type invariant is not inductive.  That a          *)
(* transaction number stays in its range needs that no number anywhere     *)
(* exceeds the transactions begun; that a restart finds the history it     *)
(* rolls back to needs that every number in a meta page has its image in   *)
(* the log.                                                                *)
(*                                                                         *)
(* Then durability, an invariant of the numbers in the meta pages alone    *)
(* (NumInv), which holds whatever is left of a meta page write that fails. *)
(*                                                                         *)
(* Then the pages: the meta page a restart picks is whole, every page has  *)
(* exactly one use, and no writer reuses a page of a snapshot that a       *)
(* reader holds.  As long as no meta page write has failed, the inductive  *)
(* invariant is in four layers, each preserved by every step given those   *)
(* above it:                                                               *)
(*   OrderInv     the transaction numbers in the two meta pages, on disk,  *)
(*                in the lock region and in the writer;                    *)
(*   LooksOK      what a process believes the oldest reader to be;         *)
(*   PagesInv     the accounts of the pages: those of the meta pages that  *)
(*                may be built on (MetasSafe), and of the transaction at   *)
(*                work (WorkInv);                                          *)
(*   ReadersSafe  the snapshots of readers.                                *)
(* The heart of it is Kept(m), which says of a meta page or of a copy of   *)
(* one that the writer at work has none of its pages to write or to give   *)
(* away, and Carries: a step keeps every snapshot that the owner of the    *)
(* writer mutex does not believe out of use (Held).  After a meta page     *)
(* write that fails, and until somebody writes again, Frozen holds in      *)
(* their place: one meta page is whole in the file and on disk, and        *)
(* whatever is left of the other is whole or older.                        *)
(*                                                                         *)
(* The last part proves from there that the engine implements              *)
(* SnapshotStore: the meta pages name images of one history (HistoryOK),   *)
(* and what a transaction has not touched is as in the newest of them.     *)
(***************************************************************************)
EXTENDS MDBTxn, WellFoundedInduction, FiniteSetTheorems, SequenceTheorems, TLAPS

(* A transaction number that some meta page, or the lock region, holds.    *)
(* Its image is in the log unless a meta page write has failed.            *)
Logged(t) == t <= begun /\ (doubt = "none" => t < Len(log))

TxnidsLogged ==
    /\ Logged(mti_txnid)
    /\ \A i \in {0, 1} : Logged(metas[i].mm_txnid) /\ Logged(diskMetas[i].mm_txnid)

(* The transaction at work goes on from a number in the log; its own is    *)
(* there once the meta page is written.                                    *)
WorkLogged ==
    /\ mt_txnid <= begun /\ (doubt = "none" => mt_txnid <= Len(log))
    /\ metab.mm_txnid <= begun
    /\ wpc # "idle" => mt_txnid > 0
    /\ wpc \in {"metasync", "publish"} => Logged(mt_txnid)
    /\ wpc = "rollback" => doubt # "none"

IndInv == TypeOK /\ TxnidsLogged /\ WorkLogged

-----------------------------------------------------------------------------
(* The constants of the module have their types. *)
LEMMA ConstantTypes ==
    /\ P_INVALID \notin Pgnos
    /\ 0 \in Txnids
    /\ EmptyDbs \in Dbs
    /\ EmptyImage \in Images
    /\ NoRecs \in FreeRecs
    /\ EmptyMeta \in Metas
    /\ Blank \in Contents
    /\ NoBackup \in Backups /\ NoBackup.mm_txnid = 0
  <1> USE BoundsAssumption DEF P_INVALID, Pgnos, Txnids, Dbs, Images, FreeRecs,
        Contents, Blank, EmptyDbs, EmptyImage, NoRecs
  <1>1. FreeDB \in AllNodes
    BY DEF AllNodes
  <1>2. Blank \in Contents
    BY <1>1
  <1>3. EmptyDbs \in Dbs /\ EmptyImage \in Images /\ NoRecs \in FreeRecs
    BY <1>2
  <1>4. 1 \in 1..(MaxPg - 1)
    OBVIOUS
  <1>5. EmptyMeta \in Metas
    BY <1>3, <1>4 DEF EmptyMeta, Metas
  <1>6. NoBackup \in Backups /\ NoBackup.mm_txnid = 0
    BY <1>4 DEF NoBackup, Backups
  <1> QED
    BY <1>2, <1>3, <1>5, <1>6

(* Every set of naturals that is not empty has a least element.            *)
LEMMA LeastExists ==
    ASSUME NEW T, T \subseteq Nat, T # {}
    PROVE  \E x \in T : \A y \in T : x <= y
  <1>1. PICK x \in T : \A y \in T : ~(<<y, x>> \in OpToRel(<, Nat))
    BY WFMin, NatLessThanWellFounded, Zenon
  <1>2. \A y \in T : <<y, x>> \in OpToRel(<, Nat) <=> y < x
    BY DEF OpToRel
  <1>3. \A a, b \in Nat : ~(b < a) => a <= b
    OBVIOUS
  <1>4. \A y \in T : x <= y
    <2> TAKE y \in T
    <2>1. ~(y < x)
      BY <1>1, <1>2
    <2>2. x \in Nat /\ y \in Nat
      OBVIOUS
    <2> QED
      BY <1>3, <2>1, <2>2
  <1> QED
    BY <1>4

(* mdb_find_oldest returns the number of some transaction.                 *)
LEMMA OldestType ==
    ASSUME LockTypeOK, mt_txnid \in Txnids, mt_txnid > 0
    PROVE  Oldest \in Txnids
  <1> DEFINE held == InUse({mr_txnid[q] : q \in Procs} \cup stale)
                        \cup {mt_txnid - 1}
  <1>1. held \subseteq Txnids
    <2>1. InUse({mr_txnid[q] : q \in Procs} \cup stale) \subseteq Txnids
      BY DEF InUse, LockTypeOK
    <2>2. mt_txnid - 1 \in Txnids
      BY BoundsAssumption DEF Txnids
    <2> QED
      BY <2>1, <2>2
  <1>2. held \subseteq Nat /\ held # {}
    BY <1>1 DEF Txnids
  <1>3. \E t \in held : \A u \in held : t <= u
    <2> HIDE DEF held
    <2> QED
      BY <1>2, LeastExists
  <1>4. Oldest = CHOOSE t \in held : \A u \in held : t <= u
    BY DEF Oldest
  <1>5. Oldest \in held
    <2> HIDE DEF held
    <2> QED
      BY <1>3, <1>4
  <1> QED
    BY <1>1, <1>5

LEMMA PgOldestType ==
    ASSUME LockTypeOK, ProcTypeOK, mt_txnid \in Txnids, mt_txnid > 0,
           NEW p \in Procs
    PROVE  PgOldest(p) \in Txnids
  <1>1. Oldest \in Txnids
    BY OldestType
  <1>2. me_pgoldest[p] \in Txnids
    BY DEF ProcTypeOK
  <1> QED
    BY <1>1, <1>2 DEF PgOldest

(* Looking at the readers changes nothing but me_pgoldest.                 *)
LEMMA LookType ==
    ASSUME LockTypeOK, ProcTypeOK, mt_txnid \in Txnids, mt_txnid > 0,
           NEW p \in Procs, Look(p), UNCHANGED <<alive, fatal, crashes>>
    PROVE  ProcTypeOK'
  <1>1. PgOldest(p) \in Txnids
    BY PgOldestType
  <1>2. me_pgoldest' \in [Procs -> Txnids]
    BY <1>1 DEF Look, ProcTypeOK
  <1> QED
    BY <1>2 DEF ProcTypeOK

-----------------------------------------------------------------------------
(* The initial states. *)
LEMMA InitInd == Init => IndInv
  <1> SUFFICES ASSUME Init PROVE IndInv
    OBVIOUS
  <1> USE BoundsAssumption, ConstantTypes
  <1>1. FileTypeOK
    BY DEF Init, FileTypeOK
  <1>2. LockTypeOK
    BY DEF Init, LockTypeOK
  <1>3. ProcTypeOK
    BY DEF Init, ProcTypeOK
  <1>4. ReadTypeOK
    BY DEF Init, ReadTypeOK, RPC
  <1>5. TxnTypeOK
    <2>1. TreeTypeOK
      BY DEF Init, TreeTypeOK
    <2>2. 2 \in 2..MaxPg
      OBVIOUS
    <2>3. PageTypeOK
      BY <2>2 DEF Init, PageTypeOK
    <2> QED
      BY <2>1, <2>3, ConstantTypes DEF Init, TxnTypeOK, WPC
  <1>6. GhostTypeOK
    <2>1. UserImage(EmptyImage) \in [Nodes -> Contents]
      BY DEF UserImage, EmptyImage, AllNodes
    <2> QED
      BY <2>1 DEF Init, GhostTypeOK, DOUBT
  <1>7. TxnidsLogged /\ WorkLogged
    BY DEF Init, TxnidsLogged, WorkLogged, Logged, EmptyMeta, NoBackup
  <1> QED
    BY <1>1, <1>2, <1>3, <1>4, <1>5, <1>6, <1>7 DEF IndInv, TypeOK

-----------------------------------------------------------------------------
(* What stays as it is keeps its type. *)
LEMMA KeepFile ==
    FileTypeOK /\ UNCHANGED <<fileVars, diskVars>> => FileTypeOK'
  BY DEF FileTypeOK, fileVars, diskVars

LEMMA KeepLock ==
    LockTypeOK /\ UNCHANGED lockVars => LockTypeOK'
  BY DEF LockTypeOK, lockVars

LEMMA KeepProc ==
    ProcTypeOK /\ UNCHANGED procVars => ProcTypeOK'
  BY DEF ProcTypeOK, procVars

LEMMA KeepRead ==
    ReadTypeOK /\ UNCHANGED readVars => ReadTypeOK'
  BY DEF ReadTypeOK, readVars

LEMMA KeepTree ==
    TreeTypeOK /\ UNCHANGED treeVars => TreeTypeOK'
  BY DEF TreeTypeOK, treeVars

LEMMA KeepPages ==
    PageTypeOK /\ UNCHANGED pageVars => PageTypeOK'
  BY DEF PageTypeOK, pageVars

LEMMA KeepTxn ==
    TxnTypeOK /\ UNCHANGED txnVars => TxnTypeOK'
  BY KeepTree, KeepPages DEF TxnTypeOK, txnVars

LEMMA KeepGhost ==
    GhostTypeOK /\ UNCHANGED ghostVars => GhostTypeOK'
  BY DEF GhostTypeOK, ghostVars

LEMMA KeepLogged ==
    TxnidsLogged /\ UNCHANGED <<mti_txnid, metas, diskMetas, begun, log, doubt>>
        => TxnidsLogged'
  BY DEF TxnidsLogged, Logged

LEMMA KeepWork ==
    WorkLogged /\ UNCHANGED <<wpc, mt_txnid, begun, metab, log, doubt>>
        => WorkLogged'
  BY DEF WorkLogged, Logged

(* A step that only stutters. *)
LEMMA StutterInd == IndInv /\ UNCHANGED vars => IndInv'
  BY KeepFile, KeepLock, KeepProc, KeepRead, KeepTxn, KeepGhost, KeepLogged,
     KeepWork
  DEF IndInv, TypeOK, vars, fileVars, diskVars, lockVars, procVars, readVars,
      txnVars, ghostVars

(* The newer of two meta pages is one of the two. *)
LEMMA NewestType ==
    ASSUME NEW ms \in [{0, 1} -> Metas]
    PROVE  /\ Newest(ms) \in Metas
           /\ \E i \in {0, 1} : Newest(ms) = ms[i]
           /\ \A i \in {0, 1} : ms[i].mm_txnid <= Newest(ms).mm_txnid
  <1>1. ms[0] \in Metas /\ ms[1] \in Metas
    OBVIOUS
  <1>2. ms[0].mm_txnid \in Nat /\ ms[1].mm_txnid \in Nat
    BY <1>1 DEF Metas, Txnids
  <1>3. CASE ms[0].mm_txnid < ms[1].mm_txnid
    BY <1>1, <1>2, <1>3 DEF Newest
  <1>4. CASE ~(ms[0].mm_txnid < ms[1].mm_txnid)
    BY <1>1, <1>2, <1>4 DEF Newest
  <1> QED
    BY <1>3, <1>4

LEMMA MetaTypes ==
    ASSUME NEW m \in Metas
    PROVE  /\ m.mm_txnid \in Txnids
           /\ m.mm_dbs \in Dbs
           /\ m.image \in Images
           /\ m.freedb \in FreeRecs
           /\ m.mm_last_pg \in 1..(MaxPg - 1)
  BY DEF Metas

-----------------------------------------------------------------------------
(* Read transactions change their slot and their own memory only. *)
LEMMA ReadKeeps ==
    ASSUME IndInv, NEW p \in Procs, NEW from, NEW to, ReadStep(p, from, to),
           UNCHANGED mti_txnid
    PROVE  FileTypeOK' /\ ProcTypeOK' /\ TxnTypeOK' /\ GhostTypeOK'
           /\ TxnidsLogged' /\ WorkLogged'
  <1>1. UNCHANGED <<fileVars, diskVars, procVars, txnVars, ghostVars>>
    BY DEF ReadStep
  <1> QED
    BY <1>1, KeepFile, KeepProc, KeepTxn, KeepGhost, KeepLogged, KeepWork
    DEF IndInv, TypeOK, fileVars, diskVars, txnVars, ghostVars

LEMMA ReadInd ==
    ASSUME IndInv, NEW p \in Procs, Read(p)
    PROVE  IndInv'
  <1>0. LockTypeOK /\ ReadTypeOK /\ FileTypeOK
    BY DEF IndInv, TypeOK
  <1>1. CASE LoadTxnid(p)
    <2>1. PICK from : ReadStep(p, from, "store")
      BY <1>1 DEF LoadTxnid
    <2>2. UNCHANGED lockVars
      BY <1>1 DEF LoadTxnid
    <2>3. ReadTypeOK'
      <3>1. rpc' \in [Procs -> RPC]
        BY <2>1, <1>0 DEF ReadStep, ReadTypeOK, RPC
      <3>2. rlocal' \in [Procs -> Txnids]
        BY <1>1, <1>0 DEF LoadTxnid, ReadTypeOK, LockTypeOK
      <3>3. UNCHANGED <<snap, rnext>>
        BY <1>1 DEF LoadTxnid
      <3> QED
        BY <3>1, <3>2, <3>3, <1>0 DEF ReadTypeOK
    <2> QED
      BY <2>1, <2>2, <2>3, ReadKeeps, KeepLock, <1>0 DEF IndInv, TypeOK, lockVars
  <1>2. CASE StoreTxnid(p)
    <2>1. ReadStep(p, "store", "check")
      BY <1>2 DEF StoreTxnid
    <2>2. LockTypeOK'
      BY <1>2, <1>0 DEF StoreTxnid, LockTypeOK, ReadTypeOK
    <2>3. ReadTypeOK'
      <3>1. rpc' \in [Procs -> RPC]
        BY <2>1, <1>0 DEF ReadStep, ReadTypeOK, RPC
      <3>2. rlocal' \in [Procs -> Txnids]
        BY <1>2, <1>0, ConstantTypes DEF StoreTxnid, ReadTypeOK
      <3> QED
        BY <3>1, <3>2, <1>2, <1>0 DEF ReadTypeOK, StoreTxnid
    <2>4. UNCHANGED mti_txnid
      BY <1>2 DEF StoreTxnid
    <2> QED
      BY <2>1, <2>2, <2>3, <2>4, ReadKeeps DEF IndInv, TypeOK
  <1>3. CASE CheckTxnid(p)
    <2>1. ReadStep(p, "check", "dbs")
      BY <1>3 DEF CheckTxnid
    <2>2. UNCHANGED lockVars
      BY <1>3 DEF CheckTxnid
    <2>3. ReadTypeOK'
      <3>1. rpc' \in [Procs -> RPC]
        BY <2>1, <1>0 DEF ReadStep, ReadTypeOK, RPC
      <3> QED
        BY <3>1, <1>3, <1>0 DEF ReadTypeOK, CheckTxnid
    <2> QED
      BY <2>1, <2>2, <2>3, ReadKeeps, KeepLock, <1>0 DEF IndInv, TypeOK, lockVars
  <1>4. ReadMeta(p) \in Metas
    <2>1. mr_txnid[p] \in Int
      BY <1>0 DEF LockTypeOK, Txnids, IDLE
    <2>2. mr_txnid[p] % 2 \in {0, 1}
      BY <2>1
    <2> QED
      BY <2>2, <1>0 DEF ReadMeta, FileTypeOK
  <1>5. CASE CopyDbs(p)
    <2>1. ReadStep(p, "dbs", "last")
      BY <1>5 DEF CopyDbs
    <2>2. UNCHANGED lockVars
      BY <1>5 DEF CopyDbs
    <2>3. ReadTypeOK'
      <3>1. rpc' \in [Procs -> RPC]
        BY <2>1, <1>0 DEF ReadStep, ReadTypeOK, RPC
      <3>2. snap' \in [Procs -> Metas]
        BY <1>5, <1>0, <1>4 DEF CopyDbs, ReadTypeOK
      <3> QED
        BY <3>1, <3>2, <1>5, <1>0 DEF ReadTypeOK, CopyDbs
    <2> QED
      BY <2>1, <2>2, <2>3, ReadKeeps, KeepLock, <1>0 DEF IndInv, TypeOK, lockVars
  <1>6. CASE CopyLastPg(p)
    <2>1. ReadStep(p, "last", "open")
      BY <1>6 DEF CopyLastPg
    <2>2. UNCHANGED lockVars
      BY <1>6 DEF CopyLastPg
    <2>3. ReadTypeOK'
      <3>1. rpc' \in [Procs -> RPC]
        BY <2>1, <1>0 DEF ReadStep, ReadTypeOK, RPC
      <3>2. ReadMeta(p).mm_last_pg + 1 \in 0..MaxPg
        BY <1>4, MetaTypes, BoundsAssumption
      <3>3. rnext' \in [Procs -> 0..MaxPg]
        BY <1>6, <1>0, <3>2 DEF CopyLastPg, ReadTypeOK
      <3> QED
        BY <3>1, <3>3, <1>6, <1>0 DEF ReadTypeOK, CopyLastPg
    <2> QED
      BY <2>1, <2>2, <2>3, ReadKeeps, KeepLock, <1>0 DEF IndInv, TypeOK, lockVars
  <1>7. CASE EndRead(p)
    <2>1. PICK from : ReadStep(p, from, "idle")
      BY <1>7 DEF EndRead
    <2>2. LockTypeOK'
      BY <1>7, <1>0 DEF EndRead, LockTypeOK, IDLE
    <2>3. ReadTypeOK'
      <3>1. rpc' \in [Procs -> RPC]
        BY <2>1, <1>0 DEF ReadStep, ReadTypeOK, RPC
      <3>2. snap' \in [Procs -> Metas]
        BY <1>7, <1>0, ConstantTypes DEF EndRead, ReadTypeOK
      <3>3. rnext' \in [Procs -> 0..MaxPg]
        BY <1>7, <1>0, BoundsAssumption DEF EndRead, ReadTypeOK
      <3> QED
        BY <3>1, <3>2, <3>3, <1>7, <1>0 DEF ReadTypeOK, EndRead
    <2>4. UNCHANGED mti_txnid
      BY <1>7 DEF EndRead
    <2> QED
      BY <2>1, <2>2, <2>3, <2>4, ReadKeeps DEF IndInv, TypeOK
  <1> QED
    BY <1>1, <1>2, <1>3, <1>5, <1>6, <1>7 DEF Read

-----------------------------------------------------------------------------
(* Write transactions: beginning and ending. *)
LEMMA RecoveredType ==
    ASSUME IndInv
    PROVE  RecoveredTxnid \in Txnids /\ Logged(RecoveredTxnid)
  <1>1. metas \in [{0, 1} -> Metas] /\ mti_txnid \in Txnids
    BY DEF IndInv, TypeOK, FileTypeOK, LockTypeOK
  <1>2. Newest(metas).mm_txnid \in Txnids
    BY <1>1, NewestType, MetaTypes
  <1>3. Logged(Newest(metas).mm_txnid)
    BY <1>1, NewestType DEF IndInv, TxnidsLogged
  <1>4. Logged(mti_txnid)
    BY DEF IndInv, TxnidsLogged
  <1> QED
    BY <1>1, <1>2, <1>3, <1>4 DEF RecoveredTxnid

LEMMA LockMutexType ==
    ASSUME IndInv, NEW p \in Procs, LockMutex(p), UNCHANGED mr_txnid,
           wmutex' \in Procs \cup {Nobody}
    PROVE  LockTypeOK'
  <1>1. LockTypeOK
    BY DEF IndInv, TypeOK
  <1>2. mti_txnid' \in Txnids
    BY RecoveredType DEF LockMutex
  <1>3. stale' \subseteq Txnids
    BY <1>1 DEF LockMutex, LockTypeOK, RecoveredStale
  <1> QED
    BY <1>1, <1>2, <1>3 DEF LockTypeOK

LEMMA BeginWriteInd ==
    ASSUME IndInv, NEW p \in Procs, BeginWrite(p)
    PROVE  IndInv'
  <1> DEFINE meta == metas[RecoveredTxnid % 2]
  <1>0. TypeOK
    BY DEF IndInv
  <1>1. UNCHANGED <<fileVars, diskVars, mr_txnid, procVars, readVars, mt_dirty,
                    dirty_list, mt_free_pgs, mt_loose_pgs, me_pghead,
                    me_pglast, metab, log, acked>>
        /\ doubt' \in DOUBT /\ (doubt' = "none" => doubt = "none")
    BY DEF BeginWrite, IndInv, TypeOK, GhostTypeOK, DOUBT
  <1>2. FileTypeOK' /\ ProcTypeOK' /\ ReadTypeOK' /\ GhostTypeOK'
    BY <1>0, <1>1, KeepFile, KeepProc, KeepRead DEF TypeOK, GhostTypeOK
  <1>3. LockTypeOK'
    BY <1>1, LockMutexType DEF BeginWrite
  <1>4. /\ RecoveredTxnid \in Txnids
        /\ RecoveredTxnid <= begun
        /\ doubt = "none" => RecoveredTxnid < Len(log)
    BY RecoveredType DEF Logged
  <1>5. meta \in Metas
    <2>1. RecoveredTxnid % 2 \in {0, 1}
      BY <1>4 DEF Txnids
    <2> QED
      BY <2>1, <1>0 DEF TypeOK, FileTypeOK
  <1>6. begun \in Txnids /\ begun' = begun + 1 /\ begun < MaxTxn
    BY <1>0 DEF TypeOK, TxnTypeOK, BeginWrite
  <1>7. mt_txnid' = RecoveredTxnid + 1 /\ wpc' = "work"
    BY DEF BeginWrite
  <1>8. TxnTypeOK'
    <2>1. begun' \in Txnids /\ mt_txnid' \in Txnids
      BY <1>4, <1>6, <1>7, BoundsAssumption DEF Txnids
    <2>2. TreeTypeOK'
      <3> HIDE DEF meta
      <3>1. mt_dbs' = meta.mm_dbs /\ image' = meta.image /\ freedb' = meta.freedb
        BY DEF BeginWrite, meta
      <3> QED
        BY <3>1, <1>5, MetaTypes DEF TreeTypeOK
    <2>3. mt_next_pgno' \in 2..MaxPg
      <3> HIDE DEF meta
      <3>1. mt_next_pgno' = meta.mm_last_pg + 1
        BY DEF BeginWrite, meta
      <3> QED
        BY <3>1, <1>5, MetaTypes, BoundsAssumption
    <2>4. PageTypeOK'
      BY <2>3, <1>0, <1>1 DEF PageTypeOK, TypeOK, TxnTypeOK
    <2> QED
      BY <2>1, <2>2, <2>4, <1>0, <1>1, <1>7 DEF TxnTypeOK, TypeOK, WPC
  <1>9. Len(log) \in Nat
    BY <1>0 DEF TypeOK, GhostTypeOK
  <1>10. TxnidsLogged'
    <2>1. mti_txnid' = RecoveredTxnid
      BY DEF BeginWrite, LockMutex
    <2>2. UNCHANGED <<metas, diskMetas, log>>
      BY <1>1 DEF fileVars, diskVars
    <2>3. \A i \in {0, 1} : /\ metas[i].mm_txnid \in Nat
                            /\ diskMetas[i].mm_txnid \in Nat
      BY <1>0 DEF TypeOK, FileTypeOK, Metas, Txnids
    <2>4. \A t \in Nat : Logged(t) => Logged(t)'
      BY <1>1, <1>6, <1>9, <2>2 DEF Logged, Txnids
    <2>5. mti_txnid' \in Nat /\ Logged(mti_txnid)'
      BY <2>1, <2>2, <1>1, <1>4, <1>6 DEF Logged, Txnids
    <2>6. \A i \in {0, 1} : /\ Logged(metas[i].mm_txnid)
                            /\ Logged(diskMetas[i].mm_txnid)
      BY DEF IndInv, TxnidsLogged
    <2> QED
      BY <2>2, <2>3, <2>4, <2>5, <2>6 DEF TxnidsLogged, Logged
  <1>11. WorkLogged'
    <2>1. log' = log /\ metab' = metab
      BY <1>1
    <2>2. metab.mm_txnid \in Nat /\ metab.mm_txnid <= begun
      BY <1>0 DEF TypeOK, TxnTypeOK, Backups, Txnids, IndInv, WorkLogged
    <2>3. metab'.mm_txnid <= begun'
      BY <2>1, <2>2, <1>6 DEF Txnids
    <2>4. mt_txnid' <= begun' /\ (doubt' = "none" => mt_txnid' <= Len(log'))
      BY <2>1, <1>1, <1>4, <1>6, <1>7, <1>9 DEF Txnids
    <2>5. mt_txnid' > 0
      BY <1>4, <1>7 DEF Txnids
    <2> QED
      BY <2>3, <2>4, <2>5, <1>7 DEF WorkLogged
  <1> QED
    BY <1>2, <1>3, <1>8, <1>10, <1>11 DEF IndInv, TypeOK

LEMMA BeginPanicsInd ==
    ASSUME IndInv, NEW p \in Procs, BeginPanics(p)
    PROVE  IndInv'
  <1>0. TypeOK
    BY DEF IndInv
  <1>1. UNCHANGED <<fileVars, diskVars, mr_txnid, procVars, readVars, txnVars,
                    ghostVars>>
    BY DEF BeginPanics
  <1>2. /\ FileTypeOK' /\ ProcTypeOK' /\ ReadTypeOK' /\ TxnTypeOK'
        /\ GhostTypeOK'
    BY <1>0, <1>1, KeepFile, KeepProc, KeepRead, KeepTxn, KeepGhost DEF TypeOK
  <1>3. LockTypeOK'
    BY <1>1, LockMutexType DEF BeginPanics
  <1>4. UNCHANGED <<metas, diskMetas, begun, log, doubt, metab, wpc, mt_txnid>>
    BY <1>1 DEF fileVars, diskVars, txnVars, ghostVars
  <1>5. mti_txnid' = RecoveredTxnid
    BY DEF BeginPanics, LockMutex
  <1>6. TxnidsLogged'
    BY <1>4, <1>5, RecoveredType DEF TxnidsLogged, Logged, IndInv
  <1>7. WorkLogged'
    BY <1>4, KeepWork DEF IndInv
  <1> QED
    BY <1>2, <1>3, <1>6, <1>7 DEF IndInv, TypeOK

(* A transaction that ends leaves nothing. *)
LEMMA ForgetTxnType ==
    ASSUME TxnTypeOK, GhostTypeOK, GhostTypeOK', ForgetTxn
    PROVE  TxnTypeOK' /\ WorkLogged'
  <1>1. TreeTypeOK'
    BY ConstantTypes DEF ForgetTxn, TreeTypeOK
  <1>2. PageTypeOK'
    <2>1. 2 \in 2..MaxPg
      BY BoundsAssumption
    <2> QED
      BY <2>1, ConstantTypes DEF ForgetTxn, PageTypeOK
  <1>3. TxnTypeOK'
    BY <1>1, <1>2, ConstantTypes DEF ForgetTxn, TxnTypeOK, WPC
  <1>4. Len(log') \in Nat /\ begun' \in Nat
    BY DEF GhostTypeOK, TxnTypeOK, ForgetTxn, Txnids
  <1>5. WorkLogged'
    BY <1>4, ConstantTypes DEF ForgetTxn, WorkLogged
  <1> QED
    BY <1>3, <1>5

LEMMA EndTxnInd ==
    ASSUME IndInv, NEW p \in Procs, EndTxn(p), UNCHANGED ghostVars,
           ProcTypeOK', metas' \in [{0, 1} -> Metas], UNCHANGED file,
           \A i \in {0, 1} : metas'[i].mm_txnid = metas[i].mm_txnid
    PROVE  IndInv'
  <1>0. TypeOK
    BY DEF IndInv
  <1>1. UNCHANGED <<diskVars, mti_txnid, mr_txnid, stale, readVars>>
        /\ wmutex' = Nobody /\ ForgetTxn /\ begun' = begun
    BY DEF EndTxn, ForgetTxn
  <1>2. FileTypeOK'
    BY <1>0, <1>1 DEF TypeOK, FileTypeOK, diskVars
  <1>3. LockTypeOK'
    BY <1>0, <1>1 DEF TypeOK, LockTypeOK
  <1>4. ReadTypeOK' /\ GhostTypeOK'
    BY <1>0, <1>1, KeepRead, KeepGhost DEF TypeOK
  <1>5. TxnTypeOK' /\ WorkLogged'
    BY <1>0, <1>1, <1>4, ForgetTxnType DEF TypeOK
  <1>6. TxnidsLogged'
    BY <1>1 DEF IndInv, TxnidsLogged, Logged, diskVars, ghostVars
  <1> QED
    BY <1>2, <1>3, <1>4, <1>5, <1>6 DEF IndInv, TypeOK

LEMMA EndsInd ==
    ASSUME IndInv, NEW p \in Procs, Abort(p) \/ CommitNothing(p) \/ Unlock(p)
    PROVE  IndInv'
  <1>1. EndTxn(p) /\ UNCHANGED <<fileVars, procVars, ghostVars>>
    BY DEF Abort, CommitNothing, Unlock
  <1>2. ProcTypeOK' /\ metas' \in [{0, 1} -> Metas]
    BY <1>1, KeepProc DEF IndInv, TypeOK, FileTypeOK, fileVars
  <1> QED
    BY <1>1, <1>2, EndTxnInd DEF fileVars

-----------------------------------------------------------------------------
(* What a write transaction does in memory. *)
LEMMA InMemoryInd ==
    ASSUME IndInv, InMemory, ProcTypeOK', TreeTypeOK', PageTypeOK',
           mt_dirty' \in BOOLEAN,
           wpc # "idle", wpc' \in WPC \ {"metasync", "publish", "rollback"}
    PROVE  IndInv'
  <1>0. TypeOK
    BY DEF IndInv
  <1>1. UNCHANGED <<fileVars, diskVars, lockVars, readVars, begun, mt_txnid,
                    metab, ghostVars>>
    BY DEF InMemory
  <1>2. FileTypeOK' /\ LockTypeOK' /\ ReadTypeOK' /\ GhostTypeOK'
    BY <1>0, <1>1, KeepFile, KeepLock, KeepRead, KeepGhost DEF TypeOK
  <1>3. TxnTypeOK'
    BY <1>0, <1>1 DEF TypeOK, TxnTypeOK
  <1>4. TxnidsLogged'
    BY <1>1, KeepLogged
    DEF IndInv, fileVars, diskVars, lockVars, ghostVars
  <1>5. WorkLogged'
    BY <1>1 DEF IndInv, WorkLogged, Logged, ghostVars
  <1> QED
    BY <1>2, <1>3, <1>4, <1>5 DEF IndInv, TypeOK

LEMMA WorkingTypes ==
    ASSUME IndInv, wpc # "idle"
    PROVE  /\ LockTypeOK /\ ProcTypeOK /\ TreeTypeOK /\ PageTypeOK
           /\ mt_txnid \in Txnids /\ mt_txnid > 0 /\ mt_dirty \in BOOLEAN
           /\ begun \in Txnids
  BY DEF IndInv, TypeOK, TxnTypeOK, WorkLogged

(* mdb_page_alloc of one page. *)
LEMMA PageAllocType ==
    ASSUME IndInv, wpc # "idle", NEW p \in Procs, NEW pg \in Pgnos,
           PageAlloc(p, pg), UNCHANGED <<alive, fatal, crashes>>,
           mt_free_pgs' \subseteq Pgnos
    PROVE  ProcTypeOK' /\ PageTypeOK'
  <1>1. /\ LockTypeOK /\ ProcTypeOK /\ PageTypeOK /\ TreeTypeOK
        /\ mt_txnid \in Txnids /\ mt_txnid > 0
    BY WorkingTypes
  <1>2. CASE TakeLoose(pg)
    <2>1. ProcTypeOK'
      BY <1>1, <1>2 DEF TakeLoose, ProcTypeOK
    <2> QED
      BY <1>1, <1>2, <2>1 DEF TakeLoose, PageTypeOK
  <1>3. CASE TakeHead(pg)
    <2>1. ProcTypeOK'
      BY <1>1, <1>3 DEF TakeHead, ProcTypeOK
    <2> QED
      BY <1>1, <1>3, <2>1 DEF TakeHead, PageTypeOK
  <1>4. CASE TakeRecord(p, pg)
    <2>1. ProcTypeOK'
      BY <1>1, <1>4, LookType DEF TakeRecord
    <2>2. PICK k \in Reclaimable(p) :
              me_pghead' = freedb[k] \ {pg} /\ me_pglast' = k
      BY <1>4 DEF TakeRecord
    <2>3. k \in Txnids
      BY DEF Reclaimable, NextRecs
    <2>4. freedb[k] \subseteq Pgnos
      BY <1>1, <2>3 DEF TreeTypeOK, FreeRecs
    <2> QED
      BY <1>1, <1>4, <2>1, <2>2, <2>3, <2>4 DEF TakeRecord, PageTypeOK
  <1>5. CASE TakeNew(p, pg)
    <2>1. ProcTypeOK'
      BY <1>1, <1>5, LookType DEF TakeNew
    <2>2. mt_next_pgno' \in 2..MaxPg
      BY <1>5, BoundsAssumption DEF TakeNew, Pgnos
    <2> QED
      BY <1>1, <1>5, <2>1, <2>2 DEF TakeNew, PageTypeOK
  <1> QED
    BY <1>2, <1>3, <1>4, <1>5 DEF PageAlloc

LEMMA FreedType ==
    ASSUME PageTypeOK, NEW pgs, pgs \subseteq Pgnos \cup {P_INVALID}, Freed(pgs)
    PROVE  mt_free_pgs' \subseteq Pgnos
  BY DEF Freed, PageTypeOK

LEMMA PageOf ==
    ASSUME TreeTypeOK, NEW n \in AllNodes
    PROVE  mt_dbs[n] \in Pgnos \cup {P_INVALID}
  BY DEF TreeTypeOK, Dbs

LEMMA TouchType ==
    ASSUME IndInv, wpc # "idle", NEW p \in Procs, NEW n \in AllNodes,
           Touch(p, n), UNCHANGED <<alive, fatal, crashes>>
    PROVE  ProcTypeOK' /\ TreeTypeOK' /\ PageTypeOK'
  <1>1. TreeTypeOK /\ PageTypeOK /\ begun \in Txnids
    BY WorkingTypes
  <1>2. PICK pg \in Pgnos : PageAlloc(p, pg) /\ mt_dbs' = [mt_dbs EXCEPT ![n] = pg]
    BY DEF Touch
  <1>3. mt_free_pgs' \subseteq Pgnos
    <2>1. {mt_dbs[n]} \subseteq Pgnos \cup {P_INVALID}
      BY <1>1, PageOf
    <2>2. Freed({mt_dbs[n]})
      BY DEF Touch
    <2> QED
      BY <1>1, <2>1, <2>2, FreedType
  <1>4. ProcTypeOK' /\ PageTypeOK'
    BY <1>2, <1>3, PageAllocType
  <1>5. mt_dbs' \in Dbs
    BY <1>1, <1>2 DEF TreeTypeOK, Dbs
  <1>6. image' \in Images
    <2>1. <<begun, n>> \in Contents
      BY <1>1 DEF Contents
    <2>2. image' = [image EXCEPT ![n] = <<begun, n>>]
      BY DEF Touch
    <2> QED
      BY <1>1, <2>1, <2>2 DEF TreeTypeOK, Images
  <1>7. freedb' = freedb
    BY DEF Touch
  <1> QED
    BY <1>1, <1>4, <1>5, <1>6, <1>7 DEF TreeTypeOK

LEMMA RemoveType ==
    ASSUME TreeTypeOK, NEW ns, Remove(ns)
    PROVE  mt_dbs' \in Dbs /\ image' \in Images
  <1>1. mt_dbs' \in Dbs
    BY DEF TreeTypeOK, Dbs, Remove
  <1>2. image' \in Images
    BY ConstantTypes DEF TreeTypeOK, Images, Remove
  <1> QED
    BY <1>1, <1>2

LEMMA RootIsNode == Root \in AllNodes /\ FreeDB \in AllNodes /\ Nodes \subseteq AllNodes
  BY NodesAssumption DEF AllNodes

LEMMA WriteNodeInd ==
    ASSUME IndInv, NEW p \in Procs, NEW n \in Nodes, WriteNode(p, n)
    PROVE  IndInv'
  <1>1. /\ wpc = "work" /\ wpc' = wpc /\ Touch(p, n) /\ InMemory
        /\ UNCHANGED <<alive, fatal, crashes, mt_dirty>>
    BY DEF WriteNode, Owner, InMemory
  <1>2. ProcTypeOK' /\ TreeTypeOK' /\ PageTypeOK'
    BY <1>1, TouchType, RootIsNode
  <1>3. mt_dirty' \in BOOLEAN /\ wpc' \in WPC \ {"metasync", "publish", "rollback"}
    BY <1>1, WorkingTypes DEF WPC
  <1> QED
    BY <1>1, <1>2, <1>3, InMemoryInd

(* A step that takes nodes from the tree and gives their pages away.       *)
LEMMA RemoveStepInd ==
    ASSUME IndInv, NEW ns, RemoveStep(ns), wpc = "work",
           mt_dirty' \in BOOLEAN, mt_free_pgs' \subseteq Pgnos,
           mt_loose_pgs' \subseteq Pgnos, me_pghead' \subseteq Pgnos,
           dirty_list' \subseteq Pgnos
    PROVE  IndInv'
  <1>1. LockTypeOK /\ ProcTypeOK /\ TreeTypeOK /\ PageTypeOK
    BY WorkingTypes
  <1>2. /\ Remove(ns) /\ InMemory
        /\ UNCHANGED <<wpc, me_pgoldest, freedb, mt_next_pgno, me_pglast>>
    BY DEF RemoveStep
  <1>3. TreeTypeOK'
    BY <1>1, <1>2, RemoveType DEF TreeTypeOK
  <1>4. PageTypeOK'
    BY <1>1, <1>2 DEF PageTypeOK
  <1>5. ProcTypeOK'
    BY <1>1, <1>2 DEF ProcTypeOK, InMemory
  <1>6. wpc' \in WPC \ {"metasync", "publish", "rollback"}
    BY <1>2 DEF WPC
  <1> QED
    BY <1>2, <1>3, <1>4, <1>5, <1>6, InMemoryInd

LEMMA LoosePageInd ==
    ASSUME IndInv, NEW p \in Procs, NEW n \in Nodes, LoosePage(p, n)
    PROVE  IndInv'
  <1>1. wpc = "work" /\ RemoveStep({n}) /\ UNCHANGED <<dirty_list, mt_dirty, me_pghead>>
    BY DEF LoosePage, Owner
  <1>2. PageTypeOK /\ TreeTypeOK /\ mt_dirty \in BOOLEAN
    BY <1>1, WorkingTypes
  <1>3. mt_dbs[n] \in Pgnos \cup {P_INVALID} /\ mt_dbs[n] # P_INVALID
    BY <1>2, PageOf, RootIsNode DEF LoosePage, Below
  <1>4. mt_free_pgs' \subseteq Pgnos /\ mt_loose_pgs' \subseteq Pgnos
    <2>1. CASE Dirty(n)
      BY <1>2, <1>3, <2>1 DEF LoosePage, PageTypeOK
    <2>2. CASE ~Dirty(n)
      <3>1. Freed({mt_dbs[n]}) /\ UNCHANGED mt_loose_pgs
        BY <2>2 DEF LoosePage
      <3>2. {mt_dbs[n]} \subseteq Pgnos \cup {P_INVALID}
        BY <1>3
      <3> QED
        BY <1>2, <3>1, <3>2, FreedType DEF PageTypeOK
    <2> QED
      BY <2>1, <2>2
  <1>5. dirty_list' \subseteq Pgnos /\ me_pghead' \subseteq Pgnos
    BY <1>1, <1>2 DEF PageTypeOK
  <1> QED
    BY <1>1, <1>2, <1>4, <1>5, RemoveStepInd

LEMMA FreeOverflowInd ==
    ASSUME IndInv, NEW p \in Procs, NEW n \in Nodes, FreeOverflow(p, n)
    PROVE  IndInv'
  <1>1. wpc = "work" /\ RemoveStep({n}) /\ UNCHANGED <<mt_dirty, mt_loose_pgs>>
    BY DEF FreeOverflow, Owner
  <1>2. PageTypeOK /\ TreeTypeOK /\ mt_dirty \in BOOLEAN
    BY <1>1, WorkingTypes
  <1>3. mt_dbs[n] \in Pgnos \cup {P_INVALID} /\ mt_dbs[n] # P_INVALID
    BY <1>2, PageOf, RootIsNode DEF FreeOverflow, Below
  <1>4. /\ mt_free_pgs' \subseteq Pgnos /\ me_pghead' \subseteq Pgnos
        /\ dirty_list' \subseteq Pgnos
    <2>1. CASE me_pglast > 0 /\ Dirty(n)
      BY <1>2, <1>3, <2>1 DEF FreeOverflow, PageTypeOK
    <2>2. CASE ~(me_pglast > 0 /\ Dirty(n))
      <3>1. Freed({mt_dbs[n]}) /\ UNCHANGED <<me_pghead, dirty_list>>
        BY <2>2 DEF FreeOverflow
      <3>2. {mt_dbs[n]} \subseteq Pgnos \cup {P_INVALID}
        BY <1>3
      <3> QED
        BY <1>2, <3>1, <3>2, FreedType DEF PageTypeOK
    <2> QED
      BY <2>1, <2>2
  <1>5. mt_loose_pgs' \subseteq Pgnos
    BY <1>1, <1>2 DEF PageTypeOK
  <1> QED
    BY <1>1, <1>2, <1>4, <1>5, RemoveStepInd

LEMMA EmptiesInd ==
    ASSUME IndInv, NEW p \in Procs, EmptyRoot(p) \/ Drop(p)
    PROVE  IndInv'
  <1>1. /\ wpc = "work"
        /\ \E ns \in SUBSET AllNodes :
              RemoveStep(ns) /\ Freed({mt_dbs[n] : n \in ns})
        /\ UNCHANGED <<dirty_list, mt_loose_pgs, me_pghead>>
    <2>1. CASE EmptyRoot(p)
      <3>1. {mt_dbs[n] : n \in {Root}} = {mt_dbs[Root]}
        OBVIOUS
      <3>2. RemoveStep({Root}) /\ Freed({mt_dbs[n] : n \in {Root}})
        BY <2>1, <3>1 DEF EmptyRoot
      <3> QED
        BY <2>1, <3>2, RootIsNode DEF EmptyRoot, Owner
    <2>2. CASE Drop(p)
      <3>1. RemoveStep(Nodes) /\ Freed({mt_dbs[n] : n \in Nodes})
        BY <2>2 DEF Drop
      <3> QED
        BY <2>2, <3>1, RootIsNode DEF Drop, Owner
    <2> QED
      BY <2>1, <2>2
  <1>2. PageTypeOK /\ TreeTypeOK /\ mt_dirty \in BOOLEAN
    BY <1>1, WorkingTypes
  <1>3. PICK ns \in SUBSET AllNodes :
            RemoveStep(ns) /\ Freed({mt_dbs[n] : n \in ns})
    BY <1>1
  <1>4. mt_free_pgs' \subseteq Pgnos
    <2>1. {mt_dbs[n] : n \in ns} \subseteq Pgnos \cup {P_INVALID}
      BY <1>2, PageOf
    <2> QED
      BY <1>2, <1>3, <2>1, FreedType
  <1>5. mt_dirty' \in BOOLEAN
    BY <1>2 DEF EmptyRoot, Drop
  <1>6. /\ dirty_list' \subseteq Pgnos /\ mt_loose_pgs' \subseteq Pgnos
        /\ me_pghead' \subseteq Pgnos
    BY <1>1, <1>2 DEF PageTypeOK
  <1> QED
    BY <1>1, <1>3, <1>4, <1>5, <1>6, RemoveStepInd

LEMMA MapFullInd ==
    ASSUME IndInv, NEW p \in Procs, NEW wanted, MapFull(p, wanted),
           wpc # "idle"
    PROVE  IndInv'
  <1>1. /\ InMemory /\ Look(p) /\ wpc' = "error"
        /\ UNCHANGED <<treeVars, pageVars, mt_dirty, alive, fatal, crashes>>
    BY DEF MapFull, InMemory
  <1>2. /\ LockTypeOK /\ ProcTypeOK /\ TreeTypeOK /\ PageTypeOK
        /\ mt_txnid \in Txnids /\ mt_txnid > 0 /\ mt_dirty \in BOOLEAN
    BY WorkingTypes
  <1>3. ProcTypeOK'
    BY <1>1, <1>2, LookType
  <1>4. TreeTypeOK' /\ PageTypeOK' /\ mt_dirty' \in BOOLEAN
    BY <1>1, <1>2, KeepTree, KeepPages
  <1>5. wpc' \in WPC \ {"metasync", "publish", "rollback"}
    BY <1>1 DEF WPC
  <1> QED
    BY <1>1, <1>3, <1>4, <1>5, InMemoryInd

LEMMA WorkInd ==
    ASSUME IndInv, NEW p \in Procs, Work(p)
    PROVE  IndInv'
  <1>1. CASE \E n \in Nodes : WriteNode(p, n) \/ LoosePage(p, n) \/ FreeOverflow(p, n)
    BY <1>1, WriteNodeInd, LoosePageInd, FreeOverflowInd
  <1>2. CASE EmptyRoot(p) \/ Drop(p)
    BY <1>2, EmptiesInd
  <1>3. CASE WriteFails(p)
    <2>1. PICK n \in Nodes :
              MapFull(p, Owner(p, "work") /\ ~Dirty(n) /\ (n = Root \/ Dirty(Root)))
      BY <1>3 DEF WriteFails
    <2>2. wpc # "idle"
      BY <2>1 DEF MapFull, Owner
    <2> QED
      BY <2>1, <2>2, MapFullInd
  <1>4. CASE Abort(p)
    BY <1>4, EndsInd
  <1> QED
    BY <1>1, <1>2, <1>3, <1>4 DEF Work

-----------------------------------------------------------------------------
(* The freeDB is written. *)
LEMMA SaveStepInd ==
    ASSUME IndInv, NEW p \in Procs, NEW from, NEW to, SaveStep(p, from, to),
           from # "idle", to \in WPC \ {"metasync", "publish", "rollback"},
           ProcTypeOK', TreeTypeOK', PageTypeOK'
    PROVE  IndInv'
  <1>1. InMemory /\ wpc # "idle" /\ wpc' = to /\ UNCHANGED mt_dirty
    BY DEF SaveStep, Owner
  <1>2. mt_dirty' \in BOOLEAN
    BY <1>1, WorkingTypes
  <1> QED
    BY <1>1, <1>2, InMemoryInd

LEMMA SaveInd ==
    ASSUME IndInv, NEW p \in Procs, Save(p)
    PROVE  IndInv'
  <1> USE DEF WPC
  <1>0. ASSUME NEW from, NEW to, SaveStep(p, from, to), from # "idle"
        PROVE  /\ UNCHANGED <<alive, fatal, crashes>>
               /\ LockTypeOK /\ ProcTypeOK /\ TreeTypeOK /\ PageTypeOK
               /\ mt_txnid \in Txnids /\ wpc # "idle"
    <2>1. wpc # "idle" /\ UNCHANGED <<alive, fatal, crashes>>
      BY <1>0 DEF SaveStep, Owner, InMemory
    <2> QED
      BY <2>1, WorkingTypes
  <1>1. CASE SaveTouches(p)
    <2>1. SaveStep(p, "save", "loop") /\ Touch(p, FreeDB)
      BY <1>1 DEF SaveTouches
    <2>2. ProcTypeOK' /\ TreeTypeOK' /\ PageTypeOK'
      BY <1>0, <2>1, TouchType, RootIsNode
    <2> QED
      BY <2>1, <2>2, SaveStepInd
  <1>2. CASE SaveLoose(p)
    <2>1. SaveStep(p, "save", "loop")
      BY <1>2 DEF SaveLoose
    <2>2. /\ Freed(mt_loose_pgs) /\ dirty_list' = dirty_list \ mt_loose_pgs
          /\ mt_loose_pgs' = {}
          /\ UNCHANGED <<me_pgoldest, treeVars, mt_next_pgno, me_pghead, me_pglast>>
      BY <1>2 DEF SaveLoose
    <2>3. ProcTypeOK' /\ TreeTypeOK'
      BY <1>0, <2>1, <2>2, KeepTree DEF ProcTypeOK
    <2>4. PageTypeOK'
      BY <1>0, <2>1, <2>2 DEF PageTypeOK, Freed
    <2> QED
      BY <2>1, <2>3, <2>4, SaveStepInd
  <1>3. CASE SaveDeletes(p)
    <2>1. SaveStep(p, "loop", "loop")
      BY <1>3 DEF SaveDeletes
    <2>2. freedb' \in FreeRecs
      BY <1>0, <1>3, <2>1 DEF SaveDeletes, TreeTypeOK, FreeRecs
    <2>3. mt_dbs' \in Dbs /\ image' \in Images /\ mt_free_pgs' \subseteq Pgnos
      <3>1. CASE Remove({FreeDB}) /\ Freed({mt_dbs[FreeDB]})
        <4>1. {mt_dbs[FreeDB]} \subseteq Pgnos \cup {P_INVALID}
          BY <1>0, <2>1, PageOf, RootIsNode
        <4> QED
          BY <1>0, <2>1, <3>1, <4>1, RemoveType, FreedType
      <3>2. CASE UNCHANGED <<mt_dbs, image, mt_free_pgs>>
        BY <1>0, <2>1, <3>2 DEF TreeTypeOK, PageTypeOK
      <3> QED
        BY <1>3, <3>1, <3>2 DEF SaveDeletes
    <2>4. UNCHANGED <<me_pgoldest, mt_next_pgno, dirty_list, mt_loose_pgs,
                      me_pghead, me_pglast>>
      BY <1>3 DEF SaveDeletes
    <2>5. ProcTypeOK' /\ TreeTypeOK' /\ PageTypeOK'
      BY <1>0, <2>1, <2>2, <2>3, <2>4 DEF ProcTypeOK, TreeTypeOK, PageTypeOK
    <2> QED
      BY <2>1, <2>5, SaveStepInd
  <1>4. CASE SaveReserves(p)
    <2>1. SaveStep(p, "loop", "put")
      BY <1>4 DEF SaveReserves
    <2>2. CASE Dirty(FreeDB)
      <3>1. UNCHANGED <<me_pgoldest, treeVars, pageVars>>
        BY <1>4, <2>2 DEF SaveReserves
      <3>2. ProcTypeOK' /\ TreeTypeOK' /\ PageTypeOK'
        BY <1>0, <2>1, <3>1, KeepTree, KeepPages DEF ProcTypeOK
      <3> QED
        BY <2>1, <3>2, SaveStepInd
    <2>3. CASE ~Dirty(FreeDB)
      <3>1. Touch(p, FreeDB)
        BY <1>4, <2>3 DEF SaveReserves
      <3>2. ProcTypeOK' /\ TreeTypeOK' /\ PageTypeOK'
        BY <1>0, <2>1, <3>1, TouchType, RootIsNode
      <3> QED
        BY <2>1, <3>2, SaveStepInd
    <2> QED
      BY <2>2, <2>3
  <1>5. CASE SavePuts(p)
    <2>1. SaveStep(p, "put", "loop")
      BY <1>5 DEF SavePuts
    <2>2. /\ freedb' = [freedb EXCEPT ![mt_txnid] = mt_free_pgs]
          /\ UNCHANGED <<me_pgoldest, mt_dbs, image, pageVars>>
      BY <1>5 DEF SavePuts
    <2>3. freedb' \in FreeRecs
      BY <1>0, <2>1, <2>2 DEF TreeTypeOK, FreeRecs, PageTypeOK
    <2>4. ProcTypeOK' /\ TreeTypeOK' /\ PageTypeOK'
      BY <1>0, <2>1, <2>2, <2>3, KeepPages DEF ProcTypeOK, TreeTypeOK
    <2> QED
      BY <2>1, <2>4, SaveStepInd
  <1>6. CASE SaveReturns(p)
    <2>1. SaveStep(p, "loop", "flush")
      BY <1>6 DEF SaveReturns
    <2>2. /\ freedb' = [freedb EXCEPT ![me_pglast] = me_pghead \cup mt_loose_pgs]
          /\ me_pghead' = {} /\ mt_loose_pgs' = {}
          /\ dirty_list' = dirty_list \ mt_loose_pgs
          /\ UNCHANGED <<me_pgoldest, mt_dbs, image, mt_next_pgno, mt_free_pgs,
                         me_pglast>>
      BY <1>6 DEF SaveReturns
    <2>3. freedb' \in FreeRecs
      BY <1>0, <2>1, <2>2 DEF TreeTypeOK, FreeRecs, PageTypeOK
    <2>4. ProcTypeOK' /\ TreeTypeOK'
      BY <1>0, <2>1, <2>2, <2>3 DEF ProcTypeOK, TreeTypeOK
    <2>5. PageTypeOK'
      BY <1>0, <2>1, <2>2 DEF PageTypeOK
    <2> QED
      BY <2>1, <2>4, <2>5, SaveStepInd
  <1>7. CASE SaveFails(p)
    <2>1. PICK wanted : MapFull(p, wanted) /\ wanted =
              (\/ Owner(p, "save") /\ me_pglast > 0
               \/ Owner(p, "loop") /\ ~Consumed /\ Unsaved /\ ~Dirty(FreeDB))
      BY <1>7 DEF SaveFails
    <2>2. wpc # "idle"
      BY <2>1 DEF MapFull, Owner
    <2> QED
      BY <2>1, <2>2, MapFullInd
  <1> QED
    BY <1>1, <1>2, <1>3, <1>4, <1>5, <1>6, <1>7 DEF Save

-----------------------------------------------------------------------------
(* The commit. *)
LEMMA CommitInd ==
    ASSUME IndInv, NEW p \in Procs, Commit(p)
    PROVE  IndInv'
  <1>1. /\ InMemory /\ wpc = "work" /\ wpc' = "save"
        /\ UNCHANGED <<me_pgoldest, treeVars, pageVars, mt_dirty>>
        /\ UNCHANGED <<alive, fatal, crashes>>
    BY DEF Commit, Owner, InMemory
  <1>2. /\ LockTypeOK /\ ProcTypeOK /\ TreeTypeOK /\ PageTypeOK
        /\ mt_dirty \in BOOLEAN
    BY <1>1, WorkingTypes
  <1>3. /\ ProcTypeOK' /\ TreeTypeOK' /\ PageTypeOK' /\ mt_dirty' \in BOOLEAN
        /\ wpc' \in WPC \ {"metasync", "publish", "rollback"}
    BY <1>1, <1>2, KeepTree, KeepPages DEF ProcTypeOK, WPC
  <1> QED
    BY <1>1, <1>3, InMemoryInd

LEMMA CommitStepType ==
    ASSUME IndInv, NEW p \in Procs, NEW from, NEW to, CommitStep(p, from, to),
           from # "idle", to \in WPC, to # "idle", dirty_list' \subseteq dirty_list,
           mti_txnid' \in Txnids
    PROVE  /\ LockTypeOK' /\ ProcTypeOK' /\ ReadTypeOK' /\ TxnTypeOK'
           /\ UNCHANGED <<begun, mt_txnid, metab>> /\ mt_txnid \in Txnids
           /\ mt_txnid > 0 /\ wpc = from /\ wpc' = to
  <1>1. /\ wpc = from /\ wpc' = to
        /\ UNCHANGED <<mr_txnid, stale, wmutex, procVars, readVars, begun,
                       mt_txnid, mt_dirty, metab, treeVars, mt_next_pgno,
                       mt_free_pgs, mt_loose_pgs, me_pghead, me_pglast>>
    BY DEF CommitStep, Owner
  <1>2. TypeOK /\ mt_txnid > 0
    BY <1>1 DEF IndInv, WorkLogged
  <1>3. LockTypeOK'
    BY <1>1, <1>2 DEF TypeOK, LockTypeOK
  <1>4. ProcTypeOK' /\ ReadTypeOK'
    BY <1>1, <1>2, KeepProc, KeepRead DEF TypeOK
  <1>5. TreeTypeOK' /\ PageTypeOK'
    BY <1>1, <1>2, KeepTree DEF TypeOK, TxnTypeOK, PageTypeOK
  <1>6. TxnTypeOK'
    BY <1>1, <1>2, <1>5 DEF TypeOK, TxnTypeOK
  <1> QED
    BY <1>1, <1>2, <1>3, <1>4, <1>6 DEF TypeOK, TxnTypeOK

LEMMA FlushPageInd ==
    ASSUME IndInv, NEW p \in Procs, FlushPage(p)
    PROVE  IndInv'
  <1>1. /\ CommitStep(p, "flush", "flush")
        /\ UNCHANGED <<metas, diskVars, mti_txnid, ghostVars>>
    BY DEF FlushPage
  <1>2. PICK pg \in dirty_list :
            /\ dirty_list' = dirty_list \ {pg}
            /\ \E c \in Contents : file' = [file EXCEPT ![pg] = c]
    BY DEF FlushPage
  <1>3. TypeOK
    BY DEF IndInv
  <1>4. FileTypeOK'
    BY <1>1, <1>2, <1>3 DEF TypeOK, FileTypeOK, diskVars
  <1>5. /\ LockTypeOK' /\ ProcTypeOK' /\ ReadTypeOK' /\ TxnTypeOK'
        /\ UNCHANGED <<begun, mt_txnid, metab, wpc>>
    <2>1. mti_txnid' \in Txnids /\ dirty_list' \subseteq dirty_list
      BY <1>1, <1>2, <1>3 DEF TypeOK, LockTypeOK
    <2> QED
      BY <1>1, <2>1, CommitStepType DEF WPC
  <1>6. GhostTypeOK' /\ TxnidsLogged' /\ WorkLogged'
    BY <1>1, <1>3, <1>5, KeepGhost, KeepLogged, KeepWork
    DEF IndInv, TypeOK, diskVars, ghostVars
  <1> QED
    BY <1>4, <1>5, <1>6 DEF IndInv, TypeOK

LEMMA SyncsInd ==
    ASSUME IndInv, NEW p \in Procs, Flushed(p) \/ Sync(p)
    PROVE  IndInv'
  <1>1. PICK from, to :
            /\ CommitStep(p, from, to)
            /\ from # "idle"
            /\ to \in WPC \ {"idle", "metasync", "publish", "rollback"}
    BY DEF Flushed, Sync, WPC
  <1>2. /\ UNCHANGED <<fileVars, mti_txnid, dirty_list, ghostVars>>
        /\ disk' \in {disk, file} /\ diskMetas' \in {diskMetas, metas}
    BY DEF Flushed, Sync, diskVars
  <1>3. TypeOK
    BY DEF IndInv
  <1>4. FileTypeOK'
    BY <1>2, <1>3 DEF TypeOK, FileTypeOK, fileVars
  <1>5. /\ LockTypeOK' /\ ProcTypeOK' /\ ReadTypeOK' /\ TxnTypeOK'
        /\ UNCHANGED <<begun, mt_txnid, metab>> /\ wpc' = to /\ wpc = from
    <2>1. mti_txnid' \in Txnids /\ dirty_list' \subseteq dirty_list
      BY <1>2, <1>3 DEF TypeOK, LockTypeOK
    <2> QED
      BY <1>1, <2>1, CommitStepType
  <1>6. GhostTypeOK'
    BY <1>2, <1>3, KeepGhost DEF TypeOK
  <1>7. TxnidsLogged'
    BY <1>2, <1>5 DEF IndInv, TxnidsLogged, Logged, fileVars, ghostVars
  <1>8. WorkLogged'
    BY <1>1, <1>2, <1>5 DEF IndInv, WorkLogged, Logged, ghostVars
  <1> QED
    BY <1>4, <1>5, <1>6, <1>7, <1>8 DEF IndInv, TypeOK

LEMMA NewMetaType ==
    ASSUME IndInv, wpc # "idle"
    PROVE  /\ Toggle \in {0, 1}
           /\ NewMeta \in Metas /\ NewMeta.mm_txnid = mt_txnid
           /\ RolledBack \in Metas
           /\ RolledBack.mm_txnid = metab.mm_txnid
  <1>1. TreeTypeOK /\ PageTypeOK /\ mt_txnid \in Txnids
    BY WorkingTypes
  <1>2. Toggle \in {0, 1}
    BY <1>1 DEF Toggle, Txnids
  <1>3. mt_next_pgno - 1 \in 1..(MaxPg - 1)
    BY <1>1, BoundsAssumption DEF PageTypeOK
  <1>4. NewMeta \in Metas /\ NewMeta.mm_txnid = mt_txnid
    BY <1>1, <1>3 DEF NewMeta, MetaOf, Metas, TreeTypeOK
  <1>5. metab.mm_txnid \in Txnids /\ metab.mm_last_pg \in 1..(MaxPg - 1)
    BY DEF IndInv, TypeOK, TxnTypeOK, Backups
  <1>6. RolledBack \in Metas /\ RolledBack.mm_txnid = metab.mm_txnid
    BY <1>1, <1>5 DEF RolledBack, MetaOf, Metas, TreeTypeOK
  <1> QED
    BY <1>2, <1>4, <1>6

LEMMA WriteMetaInd ==
    ASSUME IndInv, NEW p \in Procs, WriteMeta(p)
    PROVE  IndInv'
  <1> DEFINE to == IF NoMetaSync THEN "publish" ELSE "metasync"
  <1>1. /\ CommitStep(p, "meta", to)
        /\ metas' = [metas EXCEPT ![Toggle] = NewMeta]
        /\ log' = Append(log, UserImage(image))
        /\ UNCHANGED <<file, diskVars, mti_txnid, dirty_list, acked, doubt>>
    BY DEF WriteMeta
  <1>2. TypeOK
    BY DEF IndInv
  <1>3. wpc = "meta"
    BY <1>1 DEF CommitStep, Owner
  <1>4. /\ Toggle \in {0, 1} /\ NewMeta \in Metas
        /\ NewMeta.mm_txnid = mt_txnid
    BY <1>3, NewMetaType
  <1>5. FileTypeOK'
    BY <1>1, <1>2, <1>4 DEF TypeOK, FileTypeOK, diskVars
  <1>6. /\ LockTypeOK' /\ ProcTypeOK' /\ ReadTypeOK' /\ TxnTypeOK'
        /\ UNCHANGED <<begun, mt_txnid, metab>> /\ mt_txnid \in Txnids
        /\ mt_txnid > 0 /\ wpc' = to
    <2>1. to \in WPC /\ to # "idle"
      BY DEF WPC
    <2>2. mti_txnid' \in Txnids /\ dirty_list' \subseteq dirty_list
      BY <1>1, <1>2 DEF TypeOK, LockTypeOK
    <2> HIDE DEF to
    <2> QED
      BY <1>1, <2>1, <2>2, CommitStepType
  <1>7. log \in Seq([Nodes -> Contents]) /\ Len(log) \in Nat
    BY <1>2 DEF TypeOK, GhostTypeOK
  <1>8. UserImage(image) \in [Nodes -> Contents]
    BY <1>2, RootIsNode DEF TypeOK, TxnTypeOK, TreeTypeOK, Images, UserImage
  <1>9. log' \in Seq([Nodes -> Contents]) /\ Len(log') = Len(log) + 1
    BY <1>1, <1>7, <1>8
  <1>10. GhostTypeOK'
    BY <1>1, <1>2, <1>9 DEF TypeOK, GhostTypeOK
  <1>11. mt_txnid <= begun /\ (doubt = "none" => mt_txnid <= Len(log))
    BY DEF IndInv, WorkLogged
  <1>12. begun \in Nat /\ begun' = begun
    BY <1>2, <1>6 DEF TypeOK, TxnTypeOK, Txnids
  <1>13. \A t \in Nat : Logged(t) => Logged(t)'
    BY <1>1, <1>7, <1>9, <1>12 DEF Logged
  <1>14. mt_txnid \in Nat /\ Logged(mt_txnid)'
    BY <1>1, <1>6, <1>7, <1>9, <1>11, <1>12 DEF Logged, Txnids
  <1>15. TxnidsLogged'
    <2>1. /\ mti_txnid \in Nat
          /\ \A i \in {0, 1} : /\ metas[i].mm_txnid \in Nat
                               /\ diskMetas[i].mm_txnid \in Nat
      BY <1>2 DEF TypeOK, FileTypeOK, LockTypeOK, Metas, Txnids
    <2>2. /\ Logged(mti_txnid)
          /\ \A i \in {0, 1} : /\ Logged(metas[i].mm_txnid)
                               /\ Logged(diskMetas[i].mm_txnid)
      BY DEF IndInv, TxnidsLogged
    <2>3. mti_txnid' = mti_txnid /\ diskMetas' = diskMetas
      BY <1>1 DEF diskVars
    <2>4. \A i \in {0, 1} : metas'[i].mm_txnid \in {metas[i].mm_txnid, mt_txnid}
      BY <1>1, <1>2, <1>4 DEF TypeOK, FileTypeOK
    <2>5. \A t \in Nat : Logged(t) => Logged(t)'
      BY <1>13
    <2>6. mt_txnid' = mt_txnid /\ Logged(mt_txnid)'
      BY <1>6, <1>14
    <2>7. Logged(mti_txnid)'
      BY <2>1, <2>2, <2>3, <2>5 DEF Logged
    <2>8. \A i \in {0, 1} : Logged(metas[i].mm_txnid)' /\ Logged(diskMetas[i].mm_txnid)'
      BY <2>1, <2>2, <2>3, <2>4, <2>5, <2>6 DEF Logged
    <2> QED
      BY <2>7, <2>8 DEF TxnidsLogged, Logged
  <1>16. WorkLogged'
    <2>1. metab.mm_txnid <= begun /\ metab' = metab
      BY <1>6 DEF IndInv, WorkLogged
    <2>2. to # "rollback" /\ to # "idle"
      OBVIOUS
    <2> HIDE DEF to
    <2> QED
      BY <2>1, <2>2, <1>1, <1>6, <1>7, <1>9, <1>11, <1>12, <1>14
      DEF WorkLogged, Logged
  <1> QED
    BY <1>5, <1>6, <1>10, <1>15, <1>16 DEF IndInv, TypeOK

LEMMA SyncMetaInd ==
    ASSUME IndInv, NEW p \in Procs, SyncMeta(p)
    PROVE  IndInv'
  <1>1. /\ CommitStep(p, "metasync", "publish")
        /\ diskMetas' = [diskMetas EXCEPT ![Toggle] = metas[Toggle]]
        /\ UNCHANGED <<fileVars, disk, mti_txnid, dirty_list, ghostVars>>
    BY DEF SyncMeta
  <1>2. TypeOK
    BY DEF IndInv
  <1>3. /\ LockTypeOK' /\ ProcTypeOK' /\ ReadTypeOK' /\ TxnTypeOK'
        /\ UNCHANGED <<begun, mt_txnid, metab>> /\ wpc' = "publish" /\ wpc = "metasync"
    <2>1. mti_txnid' \in Txnids /\ dirty_list' \subseteq dirty_list
      BY <1>1, <1>2 DEF TypeOK, LockTypeOK
    <2> QED
      BY <1>1, <2>1, CommitStepType DEF WPC
  <1>4. Toggle \in {0, 1}
    BY <1>3, NewMetaType
  <1>5. FileTypeOK'
    BY <1>1, <1>2, <1>4 DEF TypeOK, FileTypeOK, fileVars
  <1>6. GhostTypeOK'
    BY <1>1, <1>2, KeepGhost DEF TypeOK
  <1>7. TxnidsLogged'
    <2>1. \A i \in {0, 1} : diskMetas'[i] \in {diskMetas[i], metas[i]}
      BY <1>1, <1>2, <1>4 DEF TypeOK, FileTypeOK
    <2> QED
      BY <2>1, <1>1, <1>3
      DEF IndInv, TxnidsLogged, Logged, fileVars, ghostVars
  <1>8. WorkLogged'
    BY <1>1, <1>3 DEF IndInv, WorkLogged, Logged, ghostVars
  <1> QED
    BY <1>3, <1>5, <1>6, <1>7, <1>8 DEF IndInv, TypeOK

LEMMA WriteMetaFailsInd ==
    ASSUME IndInv, NEW p \in Procs, WriteMetaFails(p)
    PROVE  IndInv'
  <1>1. /\ wpc = "meta" /\ wpc' = "rollback"
        /\ metab' = [mm_txnid |-> metas[Toggle].mm_txnid,
                     mm_last_pg |-> metas[Toggle].mm_last_pg]
        /\ metas' \in {metas, [metas EXCEPT ![Toggle] = NewMeta]}
        /\ diskMetas' \in {diskMetas, [diskMetas EXCEPT ![Toggle] = metas'[Toggle]]}
        /\ doubt' = IF doubt = "none" THEN "failed" ELSE doubt
        /\ UNCHANGED <<file, disk, lockVars, procVars, readVars, begun, mt_txnid,
                       mt_dirty, treeVars, pageVars, log, acked>>
    BY DEF WriteMetaFails, Owner
  <1>2. TypeOK
    BY DEF IndInv
  <1>3. Toggle \in {0, 1} /\ NewMeta \in Metas /\ NewMeta.mm_txnid = mt_txnid
    BY <1>1, NewMetaType
  <1>4. /\ metas \in [{0, 1} -> Metas] /\ diskMetas \in [{0, 1} -> Metas]
        /\ metas[Toggle] \in Metas
    BY <1>2, <1>3 DEF TypeOK, FileTypeOK
  <1>5. /\ metas' \in [{0, 1} -> Metas]
        /\ \A i \in {0, 1} : metas'[i] \in {metas[i], NewMeta}
    BY <1>1, <1>3, <1>4
  <1>6. /\ diskMetas' \in [{0, 1} -> Metas]
        /\ \A i \in {0, 1} : diskMetas'[i] \in {diskMetas[i], metas[i], NewMeta}
    BY <1>1, <1>3, <1>4, <1>5
  <1>7. metab' \in Backups
    BY <1>1, <1>4, MetaTypes DEF Backups
  <1>8. FileTypeOK'
    BY <1>1, <1>2, <1>5, <1>6 DEF TypeOK, FileTypeOK
  <1>9. LockTypeOK' /\ ProcTypeOK' /\ ReadTypeOK'
    BY <1>1, <1>2, KeepLock, KeepProc, KeepRead DEF TypeOK
  <1>10. TxnTypeOK'
    BY <1>1, <1>2, <1>7, KeepTree, KeepPages DEF TypeOK, TxnTypeOK, WPC
  <1>11. doubt' \in DOUBT /\ doubt' # "none"
    BY <1>1, <1>2 DEF TypeOK, GhostTypeOK, DOUBT
  <1>12. GhostTypeOK'
    BY <1>1, <1>2, <1>11 DEF TypeOK, GhostTypeOK
  <1>13. mt_txnid <= begun /\ mt_txnid > 0
    BY <1>1 DEF IndInv, WorkLogged
  <1>14. TxnidsLogged'
    <2>1. mti_txnid' <= begun'
      BY <1>1 DEF IndInv, TxnidsLogged, Logged, lockVars
    <2>2. \A i \in {0, 1} : metas'[i].mm_txnid <= begun
      BY <1>3, <1>5, <1>13 DEF IndInv, TxnidsLogged, Logged
    <2>3. \A i \in {0, 1} : diskMetas'[i].mm_txnid <= begun
      BY <1>3, <1>6, <1>13 DEF IndInv, TxnidsLogged, Logged
    <2> QED
      BY <1>1, <1>11, <2>1, <2>2, <2>3 DEF TxnidsLogged, Logged
  <1>15. WorkLogged'
    <2>1. metab'.mm_txnid <= begun'
      BY <1>1, <1>3 DEF IndInv, TxnidsLogged, Logged
    <2> QED
      BY <1>1, <1>11, <1>13, <2>1 DEF WorkLogged
  <1> QED
    BY <1>8, <1>9, <1>10, <1>12, <1>14, <1>15 DEF IndInv, TypeOK

LEMMA RollBackInd ==
    ASSUME IndInv, NEW p \in Procs, RollBack(p)
    PROVE  IndInv'
  <1>1. /\ wpc = "rollback" /\ wpc' = "error"
        /\ metas' \in {metas, [metas EXCEPT ![Toggle] = RolledBack]}
        /\ fatal' = [fatal EXCEPT ![p] = TRUE]
        /\ UNCHANGED <<file, diskVars, lockVars, alive, me_pgoldest, crashes,
                       readVars, begun, mt_txnid, mt_dirty, metab, treeVars,
                       pageVars, ghostVars>>
    BY DEF RollBack, Owner
  <1>2. TypeOK
    BY DEF IndInv
  <1>3. /\ Toggle \in {0, 1} /\ RolledBack \in Metas
        /\ RolledBack.mm_txnid = metab.mm_txnid
    BY <1>1, NewMetaType
  <1>4. /\ metas' \in [{0, 1} -> Metas]
        /\ \A i \in {0, 1} : metas'[i] \in {metas[i], RolledBack}
    BY <1>1, <1>2, <1>3 DEF TypeOK, FileTypeOK
  <1>5. FileTypeOK'
    BY <1>1, <1>2, <1>4 DEF TypeOK, FileTypeOK, diskVars
  <1>6. ProcTypeOK'
    BY <1>1, <1>2 DEF TypeOK, ProcTypeOK
  <1>7. LockTypeOK' /\ ReadTypeOK' /\ GhostTypeOK'
    BY <1>1, <1>2, KeepLock, KeepRead, KeepGhost DEF TypeOK
  <1>8. TxnTypeOK'
    BY <1>1, <1>2, KeepTree, KeepPages DEF TypeOK, TxnTypeOK, WPC
  <1>9. doubt' = doubt /\ doubt # "none"
    BY <1>1 DEF IndInv, WorkLogged, ghostVars
  <1>10. metab.mm_txnid <= begun
    BY DEF IndInv, WorkLogged
  <1>11. TxnidsLogged'
    <2>1. \A i \in {0, 1} : metas'[i].mm_txnid <= begun
      BY <1>3, <1>4, <1>10 DEF IndInv, TxnidsLogged, Logged
    <2> QED
      BY <1>1, <1>9, <2>1 DEF IndInv, TxnidsLogged, Logged, diskVars, lockVars
  <1>12. WorkLogged'
    BY <1>1, <1>9, <1>10 DEF IndInv, WorkLogged
  <1> QED
    BY <1>5, <1>6, <1>7, <1>8, <1>11, <1>12 DEF IndInv, TypeOK

LEMMA PublishTxnidInd ==
    ASSUME IndInv, NEW p \in Procs, PublishTxnid(p)
    PROVE  IndInv'
  <1>1. /\ CommitStep(p, "publish", "unlock")
        /\ mti_txnid' = mt_txnid /\ acked' = mt_txnid
        /\ UNCHANGED <<fileVars, diskVars, dirty_list, log, doubt>>
    BY DEF PublishTxnid
  <1>2. TypeOK
    BY DEF IndInv
  <1>3. /\ LockTypeOK' /\ ProcTypeOK' /\ ReadTypeOK' /\ TxnTypeOK'
        /\ UNCHANGED <<begun, mt_txnid, metab>> /\ wpc' = "unlock" /\ wpc = "publish"
        /\ mt_txnid \in Txnids
    <2>1. mti_txnid' \in Txnids /\ dirty_list' \subseteq dirty_list
      BY <1>1, <1>2 DEF TypeOK, TxnTypeOK
    <2> QED
      BY <1>1, <2>1, CommitStepType DEF WPC
  <1>4. FileTypeOK' /\ GhostTypeOK'
    BY <1>1, <1>2, <1>3, KeepFile DEF TypeOK, GhostTypeOK
  <1>5. Logged(mt_txnid)
    BY <1>3 DEF IndInv, WorkLogged
  <1>6. TxnidsLogged'
    BY <1>1, <1>3, <1>5 DEF IndInv, TxnidsLogged, Logged, fileVars, diskVars
  <1>7. WorkLogged'
    BY <1>1, <1>3 DEF IndInv, WorkLogged
  <1> QED
    BY <1>3, <1>4, <1>6, <1>7 DEF IndInv, TypeOK

LEMMA WriteInd ==
    ASSUME IndInv, NEW p \in Procs, Write(p)
    PROVE  IndInv'
  BY BeginWriteInd, BeginPanicsInd, WorkInd, EndsInd, CommitInd, SaveInd,
     FlushPageInd, SyncsInd, WriteMetaInd, SyncMetaInd, WriteMetaFailsInd,
     RollBackInd, PublishTxnidInd
  DEF Write

-----------------------------------------------------------------------------
(* The environment: syncing, checking readers, death and restart. *)
LEMMA EnvSyncInd ==
    ASSUME IndInv, NEW p \in Procs, EnvSync(p)
    PROVE  IndInv'
  <1>1. /\ disk' = file /\ diskMetas' = metas
        /\ UNCHANGED <<fileVars, lockVars, procVars, readVars, txnVars, ghostVars>>
    BY DEF EnvSync
  <1>2. TypeOK
    BY DEF IndInv
  <1>3. FileTypeOK'
    BY <1>1, <1>2 DEF TypeOK, FileTypeOK, fileVars
  <1>4. /\ LockTypeOK' /\ ProcTypeOK' /\ ReadTypeOK' /\ TxnTypeOK'
        /\ GhostTypeOK'
    BY <1>1, <1>2, KeepLock, KeepProc, KeepRead, KeepTxn, KeepGhost DEF TypeOK
  <1>5. TxnidsLogged'
    BY <1>1 DEF IndInv, TxnidsLogged, Logged, fileVars, lockVars, txnVars, ghostVars
  <1>6. WorkLogged'
    BY <1>1, KeepWork DEF IndInv, txnVars, ghostVars
  <1> QED
    BY <1>3, <1>4, <1>5, <1>6 DEF IndInv, TypeOK

LEMMA ReaderCheckInd ==
    ASSUME IndInv, NEW p \in Procs, ReaderCheck(p)
    PROVE  IndInv'
  <1>1. /\ stale' \subseteq stale
        /\ UNCHANGED <<fileVars, diskVars, mti_txnid, mr_txnid, wmutex,
                       procVars, readVars, txnVars, ghostVars>>
    BY DEF ReaderCheck
  <1>2. TypeOK
    BY DEF IndInv
  <1>3. LockTypeOK'
    BY <1>1, <1>2 DEF TypeOK, LockTypeOK
  <1>4. /\ FileTypeOK' /\ ProcTypeOK' /\ ReadTypeOK' /\ TxnTypeOK'
        /\ GhostTypeOK'
    BY <1>1, <1>2, KeepFile, KeepProc, KeepRead, KeepTxn, KeepGhost DEF TypeOK
  <1>5. TxnidsLogged' /\ WorkLogged'
    BY <1>1, KeepLogged, KeepWork
    DEF IndInv, fileVars, diskVars, txnVars, ghostVars
  <1> QED
    BY <1>3, <1>4, <1>5 DEF IndInv, TypeOK

LEMMA CrashInd ==
    ASSUME IndInv, NEW p \in Procs, Crash(p)
    PROVE  IndInv'
  <1>1. TypeOK
    BY DEF IndInv
  <1>2. UNCHANGED <<fileVars, diskVars, mti_txnid, ghostVars>>
    BY DEF Crash
  <1>3. FileTypeOK' /\ GhostTypeOK'
    BY <1>1, <1>2, KeepFile, KeepGhost DEF TypeOK
  <1>4. ProcTypeOK'
    <2>1. crashes' \in 0..MaxCrash
      BY <1>1, BoundsAssumption DEF Crash, TypeOK, ProcTypeOK
    <2>2. /\ alive' \in [Procs -> BOOLEAN] /\ fatal' \in [Procs -> BOOLEAN]
          /\ me_pgoldest' \in [Procs -> Txnids]
      BY <1>1, ConstantTypes DEF Crash, TypeOK, ProcTypeOK
    <2> QED
      BY <2>1, <2>2 DEF ProcTypeOK
  <1>5. ReadTypeOK'
    <2>1. rpc' \in [Procs -> RPC]
      BY <1>1 DEF Crash, TypeOK, ReadTypeOK, RPC
    <2>2. rlocal' \in [Procs -> Txnids] /\ snap' \in [Procs -> Metas]
      BY <1>1, ConstantTypes DEF Crash, TypeOK, ReadTypeOK
    <2>3. rnext' \in [Procs -> 0..MaxPg]
      BY <1>1, BoundsAssumption DEF Crash, TypeOK, ReadTypeOK
    <2> QED
      BY <2>1, <2>2, <2>3 DEF ReadTypeOK
  <1>6. mr_txnid' \in [Procs -> Txnids \cup {IDLE}] /\ stale' \subseteq Txnids
    <2>1. InUse({mr_txnid[p]}) \subseteq Txnids
      BY <1>1 DEF TypeOK, LockTypeOK, InUse
    <2> QED
      BY <1>1, <2>1 DEF Crash, TypeOK, LockTypeOK
  <1>7. CASE wmutex = p
    <2>1. ForgetTxn /\ wmutex' = Abandoned
      BY <1>7 DEF Crash
    <2>2. TxnTypeOK' /\ WorkLogged'
      BY <1>1, <1>3, <2>1, ForgetTxnType DEF TypeOK
    <2>3. LockTypeOK'
      BY <1>1, <1>2, <1>6, <2>1 DEF TypeOK, LockTypeOK
    <2>4. TxnidsLogged'
      BY <1>2, <2>1, KeepLogged
      DEF IndInv, ForgetTxn, fileVars, diskVars, ghostVars
    <2> QED
      BY <1>3, <1>4, <1>5, <2>2, <2>3, <2>4 DEF IndInv, TypeOK
  <1>8. CASE wmutex # p
    <2>1. UNCHANGED <<txnVars, wmutex>>
      BY <1>8 DEF Crash
    <2>2. TxnTypeOK'
      BY <1>1, <2>1, KeepTxn DEF TypeOK
    <2>3. LockTypeOK'
      BY <1>1, <1>2, <1>6, <2>1 DEF TypeOK, LockTypeOK
    <2>4. TxnidsLogged' /\ WorkLogged'
      BY <1>2, <2>1, KeepLogged, KeepWork
      DEF IndInv, fileVars, diskVars, ghostVars, txnVars
    <2> QED
      BY <1>3, <1>4, <1>5, <2>2, <2>3, <2>4 DEF IndInv, TypeOK
  <1> QED
    BY <1>7, <1>8

LEMMA OpenInd ==
    ASSUME IndInv, NEW p \in Procs, Open(p)
    PROVE  IndInv'
  <1>1. TypeOK
    BY DEF IndInv
  <1>2. UNCHANGED <<fileVars, diskVars, mr_txnid, fatal, me_pgoldest, crashes,
                    readVars, txnVars, ghostVars>>
    BY DEF Open
  <1>3. FileTypeOK' /\ ReadTypeOK' /\ TxnTypeOK' /\ GhostTypeOK'
    BY <1>1, <1>2, KeepFile, KeepRead, KeepTxn, KeepGhost DEF TypeOK
  <1>4. ProcTypeOK'
    BY <1>1, <1>2 DEF Open, TypeOK, ProcTypeOK
  <1>5. Newest(metas).mm_txnid \in Txnids /\ Logged(Newest(metas).mm_txnid)
    BY <1>1, NewestType, MetaTypes DEF IndInv, TypeOK, FileTypeOK, TxnidsLogged
  <1>6. mti_txnid' \in {mti_txnid, Newest(metas).mm_txnid}
    BY DEF Open
  <1>7. LockTypeOK'
    BY <1>1, <1>2, <1>5, <1>6 DEF Open, TypeOK, LockTypeOK
  <1>8. TxnidsLogged'
    BY <1>2, <1>5, <1>6
    DEF IndInv, TxnidsLogged, Logged, fileVars, diskVars, txnVars, ghostVars
  <1>9. WorkLogged'
    BY <1>2, KeepWork DEF IndInv, txnVars, ghostVars
  <1> QED
    BY <1>3, <1>4, <1>7, <1>8, <1>9 DEF IndInv, TypeOK

LEMMA SystemCrashInd ==
    ASSUME IndInv, SystemCrash
    PROVE  IndInv'
  <1>1. TypeOK
    BY DEF IndInv
  <1>2. FileTypeOK'
    <2>1. PICK pgs \in SUBSET {pg \in Pgnos : disk[pg] # file[pg]},
               ms \in SUBSET {i \in {0, 1} : diskMetas[i] # metas[i]} :
              /\ file' = [pg \in Pgnos |-> IF pg \in pgs THEN file[pg] ELSE disk[pg]]
              /\ metas' = [i \in {0, 1} |-> IF i \in ms THEN metas[i] ELSE diskMetas[i]]
      BY DEF SystemCrash
    <2>2. file' \in [Pgnos -> Contents] /\ metas' \in [{0, 1} -> Metas]
      BY <1>1, <2>1 DEF TypeOK, FileTypeOK
    <2>3. disk' = file' /\ diskMetas' = metas'
      BY DEF SystemCrash
    <2> QED
      BY <2>2, <2>3 DEF FileTypeOK
  <1>3. \A i \in {0, 1} : metas'[i] \in {metas[i], diskMetas[i]}
    BY DEF SystemCrash
  <1> DEFINE newest == Newest(metas').mm_txnid
  <1>4. /\ newest \in Txnids
        /\ \E i \in {0, 1} : newest = metas'[i].mm_txnid
        /\ \A i \in {0, 1} : metas'[i].mm_txnid <= newest
    <2>1. metas' \in [{0, 1} -> Metas]
      BY <1>2 DEF FileTypeOK
    <2> QED
      BY <2>1, NewestType, MetaTypes
  <1>5. newest <= begun /\ (doubt = "none" => newest < Len(log))
    BY <1>3, <1>4 DEF IndInv, TxnidsLogged, Logged
  <1>6. log' = LogUpTo(newest) /\ acked' = newest /\ doubt' = doubt
    BY DEF SystemCrash
  <1> HIDE DEF newest
  <1>7. /\ log' \in Seq([Nodes -> Contents])
        /\ doubt = "none" => Len(log') = newest + 1
    <2>1. log \in Seq([Nodes -> Contents]) /\ newest \in Nat /\ Len(log) \in Nat
      BY <1>1, <1>4 DEF TypeOK, GhostTypeOK, Txnids
    <2>2. CASE newest < Len(log)
      <3>1. log' = SubSeq(log, 1, newest + 1) /\ newest + 1 <= Len(log)
        BY <1>6, <2>1, <2>2 DEF LogUpTo
      <3> QED
        BY <2>1, <3>1
    <2>3. CASE ~(newest < Len(log))
      <3>1. log' = SubSeq(log, 1, Len(log))
        BY <1>6, <2>3 DEF LogUpTo
      <3> QED
        BY <1>5, <2>1, <2>3, <3>1
    <2> QED
      BY <2>2, <2>3
  <1>8. GhostTypeOK'
    BY <1>1, <1>4, <1>6, <1>7 DEF GhostTypeOK, TypeOK
  <1>9. ForgetTxn
    BY DEF SystemCrash
  <1>10. TxnTypeOK' /\ WorkLogged'
    BY <1>1, <1>8, <1>9, ForgetTxnType DEF TypeOK
  <1>11. LockTypeOK'
    BY ConstantTypes DEF SystemCrash, LockTypeOK
  <1>12. ProcTypeOK'
    <2>1. crashes' \in 0..MaxCrash
      BY <1>1, BoundsAssumption DEF SystemCrash, TypeOK, ProcTypeOK
    <2> QED
      BY <2>1, ConstantTypes DEF SystemCrash, ProcTypeOK
  <1>13. ReadTypeOK'
    <2>1. 0 \in 0..MaxPg
      BY BoundsAssumption
    <2> QED
      BY <2>1, ConstantTypes DEF SystemCrash, ReadTypeOK, RPC
  <1>14. TxnidsLogged'
    <2>1. mti_txnid' = 0 /\ diskMetas' = metas' /\ begun' = begun
      BY <1>9 DEF SystemCrash, ForgetTxn
    <2>2. \A i \in {0, 1} : metas'[i].mm_txnid \in Nat
      BY <1>2 DEF FileTypeOK, Metas, Txnids
    <2>3. newest \in Nat /\ begun \in Nat
      BY <1>1, <1>4 DEF TypeOK, TxnTypeOK, Txnids
    <2>4. \A i \in {0, 1} :
              /\ metas'[i].mm_txnid <= begun
              /\ doubt = "none" => metas'[i].mm_txnid < Len(log')
      <3>1. \A t, n, b \in Nat : t <= n /\ n <= b => t <= b /\ t < n + 1
        OBVIOUS
      <3> TAKE i \in {0, 1}
      <3>2. metas'[i].mm_txnid \in Nat /\ metas'[i].mm_txnid <= newest
        BY <1>4, <2>2
      <3>3. metas'[i].mm_txnid <= begun /\ metas'[i].mm_txnid < newest + 1
        BY <1>5, <2>3, <3>1, <3>2
      <3> QED
        BY <1>7, <3>3
    <2>5. 0 <= begun' /\ (doubt = "none" => 0 < Len(log'))
      BY <1>7, <2>1, <2>3
    <2> QED
      BY <1>6, <2>1, <2>4, <2>5 DEF TxnidsLogged, Logged
  <1> QED
    BY <1>2, <1>8, <1>10, <1>11, <1>12, <1>13, <1>14 DEF IndInv, TypeOK

-----------------------------------------------------------------------------
LEMMA NextInd ==
    ASSUME IndInv, [Next]_vars
    PROVE  IndInv'
  <1>1. CASE UNCHANGED vars
    BY <1>1, StutterInd
  <1>2. CASE SystemCrash
    BY <1>2, SystemCrashInd
  <1>3. CASE \E p \in Procs : Read(p) \/ Write(p) \/ EnvSync(p)
                              \/ ReaderCheck(p) \/ Crash(p) \/ Open(p)
    BY <1>3, ReadInd, WriteInd, EnvSyncInd, ReaderCheckInd, CrashInd, OpenInd
  <1> QED
    BY <1>1, <1>2, <1>3 DEF Next

LEMMA SpecInd == Spec => []IndInv
  <1>1. IndInv /\ [Next]_vars => IndInv'
    BY NextInd
  <1> QED
    BY InitInd, <1>1, PTL DEF Spec

(* Whatever the processes, the trees and the faults, every variable of the *)
(* engine stays in its type: page numbers inside the map (never a meta     *)
(* page, never P_INVALID in a list of pages), transaction numbers below    *)
(* the number of transactions begun, through deaths and restarts.          *)
THEOREM TxnTypes == Spec => []TypeOK
  <1>1. IndInv => TypeOK
    BY DEF IndInv
  <1> QED
    BY SpecInd, <1>1, PTL

(* A write of a meta page that fails is never forgotten; and where none    *)
(* fails, nobody rolls one back.                                           *)
LEMMA NoFailure ==
    ASSUME IndInv, doubt' = "none", NEW p \in Procs
    PROVE  ~WriteMetaFails(p) /\ ~RollBack(p)
  <1>1. ASSUME WriteMetaFails(p) PROVE FALSE
    BY <1>1 DEF WriteMetaFails
  <1>2. ASSUME RollBack(p) PROVE FALSE
    BY <1>2 DEF RollBack, Owner, ghostVars, IndInv, WorkLogged
  <1> QED
    BY <1>1, <1>2

LEMMA NothingFails ==
    ASSUME IndInv, doubt = "none", "meta" \notin Faults, NEW p \in Procs
    PROVE  ~WriteMetaFails(p) /\ ~RollBack(p)
  BY DEF WriteMetaFails, RollBack, Owner, IndInv, WorkLogged

LEMMA InMemoryIs ==
    ASSUME NEW p \in Procs, Work(p) \/ Commit(p) \/ Save(p), ~Abort(p)
    PROVE  InMemory
  <1>1. CASE Work(p)
    BY <1>1 DEF Work, WriteNode, LoosePage, FreeOverflow, EmptyRoot, Drop,
       WriteFails, MapFull, RemoveStep
  <1>2. CASE Commit(p)
    BY <1>2 DEF Commit
  <1>3. CASE Save(p)
    BY <1>3 DEF Save, SaveTouches, SaveLoose, SaveDeletes, SaveReserves,
       SavePuts, SaveReturns, SaveFails, SaveStep, MapFull
  <1> QED
    BY <1>1, <1>2, <1>3

LEMMA DoubtSteps ==
    ASSUME IndInv, [Next]_vars
    PROVE  \/ doubt' = doubt
           \/ \E p \in Procs :
                 \/ BeginWrite(p) /\ doubt' = IF doubt = "failed" THEN "built" ELSE doubt
                 \/ WriteMetaFails(p) /\ doubt' # "none"
  <1>1. CASE UNCHANGED vars
    BY <1>1 DEF vars, ghostVars
  <1>2. CASE SystemCrash
    BY <1>2 DEF SystemCrash
  <1>3. ASSUME NEW p \in Procs, Write(p), ~BeginWrite(p), ~WriteMetaFails(p)
        PROVE  doubt' = doubt
    <2>1. CASE (Work(p) \/ Commit(p) \/ Save(p)) /\ ~Abort(p)
      <3>1. InMemory
        BY <2>1, InMemoryIs
      <3> QED
        BY <3>1 DEF InMemory, ghostVars
    <2>2. CASE Abort(p) \/ CommitNothing(p) \/ Unlock(p) \/ BeginPanics(p) \/ RollBack(p)
      BY <2>2 DEF Abort, CommitNothing, Unlock, BeginPanics, RollBack, ghostVars
    <2>3. CASE FlushPage(p) \/ Flushed(p) \/ Sync(p) \/ SyncMeta(p)
      BY <2>3 DEF FlushPage, Flushed, Sync, SyncMeta, ghostVars
    <2>4. CASE WriteMeta(p) \/ PublishTxnid(p)
      BY <2>4 DEF WriteMeta, PublishTxnid
    <2> QED
      BY <1>3, <2>1, <2>2, <2>3, <2>4 DEF Write
  <1>4. ASSUME NEW p \in Procs, BeginWrite(p) \/ WriteMetaFails(p)
        PROVE  \/ BeginWrite(p) /\ doubt' = IF doubt = "failed" THEN "built" ELSE doubt
               \/ WriteMetaFails(p) /\ doubt' # "none"
    BY <1>4 DEF BeginWrite, WriteMetaFails
  <1>5. ASSUME NEW p \in Procs, Read(p)
        PROVE  doubt' = doubt
    BY <1>5 DEF Read, LoadTxnid, StoreTxnid, CheckTxnid, CopyDbs, CopyLastPg,
       EndRead, ReadStep, ghostVars
  <1>6. ASSUME NEW p \in Procs, EnvSync(p) \/ ReaderCheck(p) \/ Crash(p) \/ Open(p)
        PROVE  doubt' = doubt
    BY <1>6 DEF EnvSync, ReaderCheck, Crash, Open, ghostVars
  <1> QED
    BY <1>1, <1>2, <1>3, <1>4, <1>5, <1>6 DEF Next

LEMMA DoubtOnce ==
    ASSUME IndInv, [Next]_vars, doubt' = "none"
    PROVE  doubt = "none"
  BY DoubtSteps

LEMMA SpecNoDoubt ==
    ASSUME "meta" \notin Faults
    PROVE  Spec => [](doubt = "none")
  <1>1. Init => doubt = "none"
    BY DEF Init
  <1>2. IndInv /\ doubt = "none" /\ [Next]_vars => (doubt = "none")'
    <2>1. \A p : ~WriteMetaFails(p)
      BY DEF WriteMetaFails
    <2> QED
      BY <2>1, DoubtSteps
  <1> QED
    BY <1>1, <1>2, SpecInd, PTL DEF Spec

(* Where no write of a meta page fails, no transaction number is ever      *)
(* published, or found in a meta page of the file or of the disk, that no  *)
(* commit wrote: mti_txnid and both meta pages name images of the history  *)
(* of commits, in any mode, whatever else fails and whoever dies.          *)
THEOREM TxnidsHaveImages ==
    "meta" \notin Faults => (Spec => []TxnidsCommitted)
  <1> SUFFICES ASSUME "meta" \notin Faults PROVE Spec => []TxnidsCommitted
    OBVIOUS
  <1>1. IndInv /\ doubt = "none" => TxnidsCommitted
    BY DEF IndInv, TxnidsLogged, Logged, TxnidsCommitted
  <1> QED
    BY SpecInd, SpecNoDoubt, <1>1, PTL

-----------------------------------------------------------------------------
(* The pages. *)

(* The newest meta page, and where it is.                                  *)
TopIdx == IF metas[0].mm_txnid < metas[1].mm_txnid THEN 1 ELSE 0
Top == metas[TopIdx]
Old == metas[1 - TopIdx]

SomeAlive == \E p \in Procs : alive[p]

(* The transaction at work fills pages, then they are in their last form;  *)
(* its meta page is written when all of them are on disk.                  *)
Filling == {"work", "error", "save", "loop", "put"}
Filled == {"flush", "sync", "meta"}
Before == Filling \cup Filled
After == {"metasync", "publish", "unlock"}

(* The two meta pages hold the last two transactions; the disk has both,   *)
(* but for one of them: the newest, not synced.                            *)
MetasOrdered ==
    /\ Top.mm_txnid % 2 = TopIdx
    /\ Old.mm_txnid = IF Top.mm_txnid = 0 THEN 0 ELSE Top.mm_txnid - 1
    /\ diskMetas[1 - TopIdx].mm_txnid = Old.mm_txnid
    /\ \/ diskMetas[TopIdx] = Top
       \/ /\ diskMetas[1 - TopIdx] = Old
          /\ Top.mm_txnid > 0
          /\ diskMetas[TopIdx].mm_txnid =
                IF Old.mm_txnid = 0 THEN 0 ELSE Old.mm_txnid - 1

(* Who owns the writer mutex is at work.  What is published is the newest  *)
(* transaction, or the one before it while that is being published or its  *)
(* owner has died.                                                         *)
PublishedOrdered ==
    /\ wmutex \in Procs <=> wpc # "idle"
    /\ \A p \in Procs : wmutex = p => alive[p]
    /\ SomeAlive => mti_txnid \in {Top.mm_txnid, Top.mm_txnid - 1}
    /\ SomeAlive /\ mti_txnid # Top.mm_txnid =>
          wmutex = Abandoned \/ wpc \in {"metasync", "publish"}
    /\ wpc \in Before => mt_txnid = Top.mm_txnid + 1
    /\ wpc \in After => mt_txnid = Top.mm_txnid
    /\ wpc = "meta" => diskMetas = metas /\ disk = file

(* Without MDB_NOMETASYNC no commit returns before its meta page is on     *)
(* disk.                                                                   *)
AckedOrdered ==
    /\ acked <= Top.mm_txnid
    /\ SomeAlive => acked <= mti_txnid
    /\ ~NoMetaSync /\ diskMetas[TopIdx] # Top =>
          acked < Top.mm_txnid /\ wpc \notin {"publish", "unlock"}

OrderInv == MetasOrdered /\ PublishedOrdered /\ AckedOrdered

(* A reader whose slot is checked is seen by every look at the table: no   *)
(* process thinks that what it needs is not needed any more.               *)
Holding == {"dbs", "last", "open"}

LooksOK ==
    /\ \A p \in Procs : ~alive[p] => rpc[p] = "idle" /\ me_pgoldest[p] = 0
    /\ SomeAlive => \A q \in Procs : me_pgoldest[q] <= mti_txnid
    /\ \A p, q \in Procs : rpc[p] \in Holding =>
          mr_txnid[p] # IDLE /\ me_pgoldest[q] <= mr_txnid[p]

(* The pages that meta page b leaves to others are not those of m.         *)
Spares(b, m) ==
    \A pg \in Pages(m.mm_dbs) :
        /\ pg <= b.mm_last_pg
        /\ \A k \in Txnids : k <= m.mm_txnid => pg \notin b.freedb[k]

Untouched(m) ==
    /\ Spares(NewMeta, m)
    /\ \A pg \in Pages(m.mm_dbs) :
          pg \notin dirty_list /\ pg \notin me_pghead /\ pg \notin mt_loose_pgs

(* A snapshot that somebody may still read. *)
Kept(m) ==
    /\ m.mm_txnid <= Top.mm_txnid
    /\ Intact(m, file)
    /\ Spares(Top, m)
    /\ wpc \in Before => Untouched(m)

(* Every page of a meta page is used once. *)
TreeOnce(dbs) ==
    \A a, b \in AllNodes : dbs[a] = dbs[b] /\ dbs[a] # P_INVALID => a = b

InTree(pg, dbs) == \E n \in AllNodes : dbs[n] = pg

RecsOf(recs, txnid) ==
    \A k \in Txnids : k = 0 \/ k > txnid => recs[k] = {}

Accounted(m) ==
    /\ TreeOnce(m.mm_dbs)
    /\ \A pg \in Pgnos :
          /\ \A k \in Txnids : pg \in m.freedb[k] =>
                /\ ~InTree(pg, m.mm_dbs)
                /\ \A j \in Txnids : pg \in m.freedb[j] => j = k
          /\ pg <= m.mm_last_pg <=>
                InTree(pg, m.mm_dbs) \/ \E k \in Txnids : pg \in m.freedb[k]
    /\ RecsOf(m.freedb, m.mm_txnid)

(* A meta page that may be the next one to build on. *)
Needed(i) ==
    \/ i = TopIdx
    \/ diskMetas[1 - i] # metas[1 - i]
    \/ SomeAlive /\ i = mti_txnid % 2

MetasSafe ==
    \A i \in {0, 1} : Needed(i) =>
        Kept(metas[i]) /\ Intact(metas[i], disk) /\ Accounted(metas[i])

(* Of every page there is exactly one use in the transaction at work: in   *)
(* its tree, freed, or in the stock that pages are given out from.         *)
LiveRec(k) == IF k <= me_pglast \/ k = mt_txnid THEN {} ELSE freedb[k]

Stock(pg) ==
    pg \in me_pghead \/ pg \in mt_loose_pgs \/ \E k \in Txnids : pg \in LiveRec(k)

StockOnce(pg) ==
    /\ pg \in me_pghead => pg \notin mt_loose_pgs
    /\ \A k \in Txnids : pg \in LiveRec(k) =>
          /\ pg \notin me_pghead /\ pg \notin mt_loose_pgs
          /\ \A j \in Txnids : pg \in LiveRec(j) => j = k

WorkOnce ==
    /\ TreeOnce(mt_dbs)
    /\ \A pg \in Pgnos :
          /\ InTree(pg, mt_dbs) => pg \notin mt_free_pgs /\ ~Stock(pg)
          /\ pg \in mt_free_pgs => ~Stock(pg)
          /\ StockOnce(pg)

WorkCovers ==
    \A pg \in Pgnos :
        pg < mt_next_pgno <=>
            InTree(pg, mt_dbs) \/ pg \in mt_free_pgs \/ Stock(pg)

ListsOK ==
    /\ wpc \in Filling =>
          /\ mt_loose_pgs \subseteq dirty_list
          /\ RecsOf(freedb, mt_txnid)
          /\ me_pglast < mt_txnid
          /\ me_pglast = 0 => me_pghead = {}
          /\ me_pglast = 0 /\ wpc \in {"loop", "put"} => mt_loose_pgs = {}
    /\ wpc \in Filled => me_pghead = {} /\ mt_loose_pgs = {}
    /\ wpc \in {"sync", "meta"} => dirty_list = {}
    /\ wpc = "idle" =>
          /\ dirty_list = {} /\ mt_free_pgs = {} /\ mt_loose_pgs = {}
          /\ me_pghead = {} /\ me_pglast = 0

(* What is not in the dirty list any more is in the file. *)
WrittenOK ==
    wpc \in Before =>
        \A n \in AllNodes : mt_dbs[n] # P_INVALID =>
            IF mt_dbs[n] \in dirty_list THEN image[n] = <<begun, n>>
                                        ELSE file[mt_dbs[n]] = image[n]

WorkInv ==
    /\ wpc \in Filling => WorkOnce /\ WorkCovers
    /\ wpc \in Filled => Accounted(NewMeta)
    /\ ListsOK
    /\ WrittenOK

PagesInv == MetasSafe /\ WorkInv

(* The same of the snapshots of readers. *)
PagesUpTo(m, last) == \A pg \in Pages(m.mm_dbs) : pg <= last

ReaderSafe(p) ==
    /\ rpc[p] = "dbs" =>
          LET m == metas[mr_txnid[p] % 2] IN
          Kept(m) /\ mr_txnid[p] <= m.mm_txnid /\ PagesUpTo(m, m.mm_last_pg)
    /\ rpc[p] \in {"last", "open"} =>
          Kept(snap[p]) /\ mr_txnid[p] <= snap[p].mm_txnid
    /\ rpc[p] = "last" =>
          PagesUpTo(snap[p], metas[mr_txnid[p] % 2].mm_last_pg)
    /\ rpc[p] = "open" => \A pg \in Pages(snap[p].mm_dbs) : pg < rnext[p]

ReadersSafe == \A p \in Procs : ReaderSafe(p)

-----------------------------------------------------------------------------
(* Types, as the steps below need them. *)
LEMMA Numbers ==
    ASSUME IndInv
    PROVE  /\ \A i \in {0, 1} : /\ metas[i] \in Metas /\ diskMetas[i] \in Metas
                                /\ metas[i].mm_txnid \in Nat
                                /\ diskMetas[i].mm_txnid \in Nat
           /\ mti_txnid \in Nat /\ mt_txnid \in Nat /\ acked \in Nat
           /\ TopIdx \in {0, 1} /\ Top \in Metas /\ Old \in Metas
           /\ Top.mm_txnid \in Nat /\ Old.mm_txnid \in Nat
           /\ wpc \in WPC
  <1>1. \A i \in {0, 1} : /\ metas[i] \in Metas /\ diskMetas[i] \in Metas
                          /\ metas[i].mm_txnid \in Nat
                          /\ diskMetas[i].mm_txnid \in Nat
    BY DEF IndInv, TypeOK, FileTypeOK, Metas, Txnids
  <1>2. mti_txnid \in Nat /\ mt_txnid \in Nat /\ acked \in Nat /\ wpc \in WPC
    BY DEF IndInv, TypeOK, LockTypeOK, TxnTypeOK, GhostTypeOK, Txnids
  <1>3. TopIdx \in {0, 1} /\ 1 - TopIdx \in {0, 1}
    BY DEF TopIdx
  <1> QED
    BY <1>1, <1>2, <1>3 DEF Top, Old

LEMMA NewestIsTop == Newest(metas) = Top
  BY DEF Newest, Top, TopIdx

(* The number of a transaction that begins, and the meta page it will not  *)
(* write.                                                                  *)
LEMMA Parity ==
    /\ \A n \in Nat : n % 2 \in {0, 1} /\ (n + 1) % 2 = 1 - (n % 2)
  OBVIOUS

-----------------------------------------------------------------------------
(* The order of transaction numbers: OrderInv is inductive. *)
LEMMA InitOrder == Init => OrderInv /\ LooksOK
  <1> SUFFICES ASSUME Init PROVE OrderInv /\ LooksOK
    OBVIOUS
  <1>1. /\ \A i \in {0, 1} : metas[i] = EmptyMeta /\ diskMetas[i] = EmptyMeta
        /\ EmptyMeta.mm_txnid = 0
    BY DEF Init, EmptyMeta
  <1>2. TopIdx = 0 /\ Top = EmptyMeta /\ Old = EmptyMeta
    BY <1>1 DEF TopIdx, Top, Old
  <1>3. MetasOrdered
    BY <1>1, <1>2 DEF MetasOrdered
  <1>4. PublishedOrdered
    BY <1>1, <1>2, ProcsAssumption DEF Init, PublishedOrdered, Before, Filling, Filled, After
  <1>5. AckedOrdered
    BY <1>1, <1>2 DEF Init, AckedOrdered
  <1>6. LooksOK
    BY DEF Init, LooksOK, Holding
  <1> QED
    BY <1>3, <1>4, <1>5, <1>6 DEF OrderInv

LEMMA KeepMetas ==
    ASSUME UNCHANGED <<metas, diskMetas>>
    PROVE  /\ TopIdx' = TopIdx /\ Top' = Top /\ Old' = Old
           /\ MetasOrdered => MetasOrdered'
  <1>1. TopIdx' = TopIdx
    BY DEF TopIdx
  <1>2. Top' = Top /\ Old' = Old
    BY <1>1 DEF Top, Old
  <1> QED
    BY <1>1, <1>2 DEF MetasOrdered

orderVars == <<metas, diskMetas, mti_txnid, wmutex, alive, acked>>

(* A step of the writer in its own memory, or of anybody else that leaves  *)
(* the numbers alone.                                                      *)
LEMMA KeepOrder ==
    ASSUME OrderInv, UNCHANGED orderVars, UNCHANGED mt_txnid,
           \/ wpc' = wpc /\ UNCHANGED <<disk, file>>
           \/ wpc \in Filling /\ wpc' \in Filling \cup {"flush"}
           \/ wpc = "flush" /\ wpc' \in {"flush", "sync"}
    PROVE  OrderInv'
  <1>1. MetasOrdered' /\ Top' = Top /\ TopIdx' = TopIdx
    BY KeepMetas DEF OrderInv, orderVars
  <1>2. SomeAlive' = SomeAlive
    BY DEF SomeAlive, orderVars
  <1>3. PublishedOrdered'
    BY <1>1, <1>2 DEF OrderInv, PublishedOrdered, orderVars, Before, Filling, Filled, After
  <1>4. AckedOrdered'
    BY <1>1, <1>2 DEF OrderInv, AckedOrdered, orderVars, Filling
  <1> QED
    BY <1>1, <1>3, <1>4 DEF OrderInv

(* The steps of a transaction that allocates and frees pages. *)
LEMMA MemorySteps ==
    ASSUME NEW p \in Procs, Work(p) \/ Commit(p) \/ Save(p), ~Abort(p)
    PROVE  /\ InMemory /\ wmutex = p
           /\ wpc \in Filling /\ wpc' \in Filling \cup {"flush"}
  <1> USE DEF Filling
  <1>1. ASSUME NEW wanted, MapFull(p, wanted)
        PROVE  InMemory /\ wpc' = "error" /\ wanted
    BY <1>1 DEF MapFull
  <1>2. CASE Work(p)
    BY <1>1, <1>2 DEF Work, WriteNode, LoosePage, FreeOverflow, EmptyRoot, Drop,
       WriteFails, RemoveStep, Owner
  <1>3. CASE Commit(p)
    BY <1>3 DEF Commit, Owner
  <1>4. CASE Save(p)
    BY <1>1, <1>4 DEF Save, SaveTouches, SaveLoose, SaveDeletes, SaveReserves,
       SavePuts, SaveReturns, SaveFails, SaveStep, Owner
  <1> QED
    BY <1>2, <1>3, <1>4

LEMMA MemoryOrder ==
    ASSUME OrderInv, NEW p \in Procs, Work(p) \/ Commit(p) \/ Save(p), ~Abort(p)
    PROVE  OrderInv'
  <1>1. InMemory /\ wpc \in Filling /\ wpc' \in Filling \cup {"flush"}
    BY MemorySteps
  <1>2. UNCHANGED orderVars /\ UNCHANGED mt_txnid
    BY <1>1 DEF InMemory, orderVars, fileVars, diskVars, lockVars, ghostVars
  <1> QED
    BY <1>1, <1>2, KeepOrder

LEMMA ReadOrder ==
    ASSUME OrderInv, NEW p \in Procs, Read(p)
    PROVE  OrderInv'
  <1>1. \E from, to : ReadStep(p, from, to)
    BY DEF Read, LoadTxnid, StoreTxnid, CheckTxnid, CopyDbs, CopyLastPg, EndRead
  <1>2. UNCHANGED <<mti_txnid, wmutex>>
    BY DEF Read, LoadTxnid, StoreTxnid, CheckTxnid, CopyDbs, CopyLastPg, EndRead,
       lockVars
  <1>3. UNCHANGED orderVars /\ UNCHANGED <<mt_txnid, wpc, disk, file>>
    BY <1>1, <1>2 DEF ReadStep, orderVars, fileVars, diskVars, procVars, txnVars,
       ghostVars
  <1> QED
    BY <1>3, KeepOrder

(* Who takes the mutex finds the newest transaction published, or          *)
(* publishes it.                                                           *)
LEMMA RecoveredIsTop ==
    ASSUME IndInv, OrderInv, NEW p \in Procs, LockMutex(p)
    PROVE  /\ RecoveredTxnid = Top.mm_txnid /\ mti_txnid' = Top.mm_txnid
           /\ SomeAlive /\ wpc = "idle" /\ mti_txnid <= Top.mm_txnid
  <1>1. alive[p] /\ wmutex \in {Nobody, Abandoned} /\ mti_txnid' = RecoveredTxnid
    BY DEF LockMutex
  <1>2. SomeAlive
    BY <1>1 DEF SomeAlive
  <1>3. wmutex \notin Procs
    BY <1>1, ProcsAssumption
  <1>4. wpc = "idle"
    BY <1>3 DEF OrderInv, PublishedOrdered
  <1>5. mti_txnid \in {Top.mm_txnid, Top.mm_txnid - 1}
    BY <1>2 DEF OrderInv, PublishedOrdered
  <1>6. CASE wmutex = Abandoned
    BY <1>1, <1>2, <1>4, <1>5, <1>6, NewestIsTop, Numbers DEF RecoveredTxnid
  <1>7. CASE wmutex = Nobody
    <2>1. mti_txnid = Top.mm_txnid
      BY <1>2, <1>4, <1>7, ProcsAssumption DEF OrderInv, PublishedOrdered
    <2> QED
      BY <1>1, <1>2, <1>4, <1>7, <2>1, ProcsAssumption, Numbers DEF RecoveredTxnid
  <1> QED
    BY <1>1, <1>6, <1>7

LEMMA BeginOrder ==
    ASSUME IndInv, OrderInv, NEW p \in Procs, BeginWrite(p) \/ BeginPanics(p)
    PROVE  OrderInv'
  <1>1. /\ LockMutex(p) /\ alive[p]
        /\ UNCHANGED <<metas, diskMetas, disk, file, alive, acked>>
    BY DEF BeginWrite, BeginPanics, LockMutex, fileVars, diskVars, procVars, ghostVars
  <1>2. /\ RecoveredTxnid = Top.mm_txnid /\ mti_txnid' = Top.mm_txnid
        /\ SomeAlive /\ wpc = "idle" /\ mti_txnid <= Top.mm_txnid
    BY <1>1, RecoveredIsTop
  <1>3. MetasOrdered' /\ Top' = Top /\ TopIdx' = TopIdx /\ SomeAlive'
    BY <1>1, <1>2, KeepMetas DEF OrderInv, SomeAlive
  <1>4. /\ wpc' \in {"idle", "work"} /\ (wpc' = "work" => mt_txnid' = Top.mm_txnid + 1)
        /\ wmutex' \in Procs <=> wpc' # "idle"
        /\ \A q \in Procs : wmutex' = q => q = p
    BY <1>2, ProcsAssumption DEF BeginWrite, BeginPanics, txnVars
  <1>5. PublishedOrdered'
    BY <1>1, <1>2, <1>3, <1>4 DEF PublishedOrdered, Before, Filling, Filled, After
  <1>6. AckedOrdered'
    BY <1>1, <1>2, <1>3, <1>4, Numbers DEF OrderInv, AckedOrdered
  <1> QED
    BY <1>3, <1>5, <1>6 DEF OrderInv

LEMMA EndsOrder ==
    ASSUME IndInv, OrderInv, NEW p \in Procs, Abort(p) \/ CommitNothing(p) \/ Unlock(p)
    PROVE  OrderInv'
  <1>1. /\ EndTxn(p) /\ UNCHANGED <<fileVars, procVars, ghostVars>>
        /\ wmutex = p /\ wpc \notin {"metasync", "publish"}
    BY DEF Abort, CommitNothing, Unlock, Owner
  <1>2. /\ UNCHANGED <<metas, diskMetas, alive, acked, mti_txnid>>
        /\ wmutex' = Nobody /\ wpc' = "idle"
    BY <1>1 DEF EndTxn, ForgetTxn, fileVars, diskVars, procVars, ghostVars
  <1>3. MetasOrdered' /\ Top' = Top /\ TopIdx' = TopIdx /\ SomeAlive' = SomeAlive
    BY <1>2, KeepMetas DEF OrderInv, SomeAlive
  <1>4. PublishedOrdered'
    BY <1>1, <1>2, <1>3, ProcsAssumption
    DEF OrderInv, PublishedOrdered, Before, Filling, Filled, After
  <1>5. AckedOrdered'
    BY <1>2, <1>3 DEF OrderInv, AckedOrdered
  <1> QED
    BY <1>3, <1>4, <1>5 DEF OrderInv

LEMMA FlushOrder ==
    ASSUME OrderInv, NEW p \in Procs, FlushPage(p) \/ Flushed(p)
    PROVE  OrderInv'
  <1>1. /\ UNCHANGED orderVars /\ UNCHANGED mt_txnid
        /\ wpc = "flush" /\ wpc' \in {"flush", "sync"}
    BY DEF FlushPage, Flushed, CommitStep, Owner, orderVars, procVars, fileVars, diskVars, ghostVars
  <1> QED
    BY <1>1, KeepOrder

(* What the disk has of the meta pages after it is synced. *)
LEMMA SyncedOrder ==
    ASSUME MetasOrdered, UNCHANGED metas, diskMetas' = metas
    PROVE  MetasOrdered' /\ Top' = Top /\ TopIdx' = TopIdx /\ diskMetas'[TopIdx'] = Top'
  <1>1. TopIdx' = TopIdx
    BY DEF TopIdx
  <1>2. Top' = Top /\ Old' = Old
    BY <1>1 DEF Top, Old
  <1>3. diskMetas'[TopIdx] = Top /\ diskMetas'[1 - TopIdx] = Old
    BY DEF Top, Old
  <1> QED
    BY <1>1, <1>2, <1>3 DEF MetasOrdered

LEMMA SyncOrder ==
    ASSUME IndInv, OrderInv, NEW p \in Procs, Sync(p) \/ EnvSync(p)
    PROVE  OrderInv'
  <1>1. /\ disk' = file /\ diskMetas' = metas
        /\ UNCHANGED <<file, metas, mti_txnid, wmutex, alive, acked, mt_txnid>>
        /\ wpc' = wpc \/ (wpc = "sync" /\ wpc' = "meta")
    BY DEF Sync, EnvSync, CommitStep, Owner, fileVars, lockVars, procVars, txnVars, ghostVars
  <1>2. MetasOrdered' /\ Top' = Top /\ TopIdx' = TopIdx /\ diskMetas'[TopIdx'] = Top'
    BY <1>1, SyncedOrder DEF OrderInv
  <1>3. SomeAlive' = SomeAlive
    BY <1>1 DEF SomeAlive
  <1>4. PublishedOrdered'
    BY <1>1, <1>2, <1>3 DEF OrderInv, PublishedOrdered, Before, Filling, Filled, After
  <1>5. AckedOrdered'
    BY <1>1, <1>2, <1>3 DEF OrderInv, AckedOrdered
  <1> QED
    BY <1>2, <1>4, <1>5 DEF OrderInv

(* A transaction writes the meta page that is not the newest. *)
LEMMA ToggleIsOther ==
    ASSUME IndInv, OrderInv, wpc \in Before
    PROVE  Toggle = 1 - TopIdx /\ Toggle \in {0, 1} /\ TopIdx \in {0, 1}
  <1>1. mt_txnid = Top.mm_txnid + 1 /\ Top.mm_txnid % 2 = TopIdx
    BY DEF OrderInv, PublishedOrdered, MetasOrdered
  <1> QED
    BY <1>1, Numbers, Parity DEF Toggle

LEMMA WriteMetaOrder ==
    ASSUME IndInv, OrderInv, NEW p \in Procs, WriteMeta(p)
    PROVE  /\ OrderInv'
           /\ TopIdx' = Toggle /\ Top' = NewMeta /\ Old' = Top
  <1>1. /\ wmutex = p /\ wpc = "meta"
        /\ wpc' = IF NoMetaSync THEN "publish" ELSE "metasync"
        /\ metas' = [metas EXCEPT ![Toggle] = NewMeta]
        /\ UNCHANGED <<diskMetas, mti_txnid, wmutex, alive, acked, mt_txnid>>
    BY DEF WriteMeta, CommitStep, Owner, diskVars, procVars
  <1>2. Toggle = 1 - TopIdx /\ Toggle \in {0, 1} /\ TopIdx \in {0, 1}
    BY <1>1, ToggleIsOther DEF Before, Filled
  <1>3. metas \in [{0, 1} -> Metas]
    BY DEF IndInv, TypeOK, FileTypeOK
  <1>4. metas'[Toggle] = NewMeta /\ metas'[TopIdx] = metas[TopIdx]
    BY <1>1, <1>2, <1>3
  <1>5. NewMeta.mm_txnid = Top.mm_txnid + 1 /\ NewMeta.mm_txnid = mt_txnid
    BY <1>1, NewMetaType DEF OrderInv, PublishedOrdered, Before, Filled
  <1>6. metas[TopIdx].mm_txnid = Top.mm_txnid /\ metas[TopIdx] = Top
    BY DEF Top
  <1>7. TopIdx' = Toggle
    BY <1>2, <1>4, <1>5, <1>6, Numbers DEF TopIdx
  <1>8. Top' = NewMeta /\ Old' = Top
    BY <1>2, <1>4, <1>6, <1>7 DEF Top, Old
  <1>9. diskMetas'[TopIdx] = Top /\ diskMetas'[Toggle] = Old
    BY <1>1, <1>2 DEF OrderInv, PublishedOrdered, Top, Old
  <1>10. MetasOrdered'
    <2>1. Top'.mm_txnid % 2 = TopIdx'
      BY <1>5, <1>7, <1>8, NewMetaType, <1>1 DEF Toggle
    <2>2. Old'.mm_txnid = IF Top'.mm_txnid = 0 THEN 0 ELSE Top'.mm_txnid - 1
      BY <1>5, <1>8, Numbers
    <2>3. diskMetas'[1 - TopIdx'] = Old'
      BY <1>2, <1>7, <1>8, <1>9
    <2>4. Old.mm_txnid = (IF Top.mm_txnid = 0 THEN 0 ELSE Top.mm_txnid - 1)
          /\ Top.mm_txnid % 2 = TopIdx
      BY DEF OrderInv, MetasOrdered
    <2>5. diskMetas'[TopIdx'].mm_txnid = Old.mm_txnid
      BY <1>7, <1>9
    <2>6. /\ Top'.mm_txnid > 0
          /\ diskMetas'[TopIdx'].mm_txnid =
                IF Old'.mm_txnid = 0 THEN 0 ELSE Old'.mm_txnid - 1
      BY <2>4, <2>5, <1>5, <1>8, Numbers
    <2> QED
      BY <2>1, <2>2, <2>3, <2>6 DEF MetasOrdered
  <1>11. SomeAlive' = SomeAlive
    BY <1>1 DEF SomeAlive
  <1>12. PublishedOrdered'
    <2>1. wmutex # Abandoned /\ SomeAlive
      BY <1>1, ProcsAssumption DEF OrderInv, PublishedOrdered, SomeAlive
    <2>2. mti_txnid = Top.mm_txnid
      BY <1>1, <2>1 DEF OrderInv, PublishedOrdered
    <2>3. mti_txnid' = Top'.mm_txnid - 1 /\ mt_txnid' = Top'.mm_txnid
      BY <1>1, <1>5, <1>8, <2>2, Numbers
    <2> QED
      BY <1>1, <1>11, <2>3
      DEF OrderInv, PublishedOrdered, Before, Filling, Filled, After
  <1>13. AckedOrdered'
    BY <1>1, <1>5, <1>8, <1>11, Numbers DEF OrderInv, AckedOrdered
  <1> QED
    BY <1>7, <1>8, <1>10, <1>12, <1>13 DEF OrderInv

LEMMA SyncMetaOrder ==
    ASSUME IndInv, OrderInv, NEW p \in Procs, SyncMeta(p)
    PROVE  OrderInv'
  <1>1. /\ wpc = "metasync" /\ wpc' = "publish"
        /\ diskMetas' = [diskMetas EXCEPT ![Toggle] = metas[Toggle]]
        /\ UNCHANGED <<metas, mti_txnid, wmutex, alive, acked, mt_txnid>>
    BY DEF SyncMeta, CommitStep, Owner, fileVars, procVars, ghostVars
  <1>2. diskMetas \in [{0, 1} -> Metas]
    BY DEF IndInv, TypeOK, FileTypeOK
  <1>3. Toggle = TopIdx /\ TopIdx \in {0, 1}
    BY <1>1, Numbers DEF OrderInv, PublishedOrdered, MetasOrdered, After, Toggle
  <1>4. TopIdx' = TopIdx /\ Top' = Top /\ Old' = Old
    BY <1>1, KeepMetas DEF TopIdx, Top, Old
  <1>5. diskMetas'[TopIdx] = Top /\ diskMetas'[1 - TopIdx] = diskMetas[1 - TopIdx]
    BY <1>1, <1>2, <1>3 DEF Top
  <1>6. MetasOrdered'
    BY <1>4, <1>5 DEF OrderInv, MetasOrdered
  <1>7. SomeAlive' = SomeAlive
    BY <1>1 DEF SomeAlive
  <1>8. PublishedOrdered' /\ AckedOrdered'
    BY <1>1, <1>4, <1>5, <1>7
    DEF OrderInv, PublishedOrdered, AckedOrdered, Before, Filling, Filled, After
  <1> QED
    BY <1>6, <1>8 DEF OrderInv

LEMMA PublishOrder ==
    ASSUME IndInv, OrderInv, NEW p \in Procs, PublishTxnid(p)
    PROVE  OrderInv' /\ mti_txnid' = Top.mm_txnid
  <1>1. /\ wpc = "publish" /\ wpc' = "unlock" /\ wmutex = p
        /\ mti_txnid' = mt_txnid /\ acked' = mt_txnid
        /\ UNCHANGED <<metas, diskMetas, wmutex, alive, mt_txnid>>
    BY DEF PublishTxnid, CommitStep, Owner, fileVars, diskVars, procVars
  <1>2. MetasOrdered' /\ Top' = Top /\ TopIdx' = TopIdx /\ SomeAlive' = SomeAlive
    BY <1>1, KeepMetas DEF OrderInv, SomeAlive
  <1>3. mt_txnid = Top.mm_txnid
    BY <1>1 DEF OrderInv, PublishedOrdered, After
  <1>4. PublishedOrdered'
    BY <1>1, <1>2, <1>3 DEF OrderInv, PublishedOrdered, Before, Filling, Filled, After
  <1>5. AckedOrdered'
    BY <1>1, <1>2, <1>3, Numbers DEF OrderInv, AckedOrdered
  <1> QED
    BY <1>1, <1>2, <1>3, <1>4, <1>5 DEF OrderInv

LEMMA ReaderCheckOrder ==
    ASSUME OrderInv, NEW p \in Procs, ReaderCheck(p)
    PROVE  OrderInv'
  <1>1. UNCHANGED orderVars /\ UNCHANGED <<mt_txnid, wpc, disk, file>>
    BY DEF ReaderCheck, orderVars, fileVars, diskVars, procVars, txnVars, ghostVars
  <1> QED
    BY <1>1, KeepOrder

LEMMA CrashOrder ==
    ASSUME IndInv, OrderInv, NEW p \in Procs, Crash(p)
    PROVE  OrderInv'
  <1>1. /\ UNCHANGED <<metas, diskMetas, disk, file, mti_txnid, acked>>
        /\ alive[p] /\ alive' = [alive EXCEPT ![p] = FALSE]
    BY DEF Crash, fileVars, diskVars, ghostVars
  <1>2. MetasOrdered' /\ Top' = Top /\ TopIdx' = TopIdx
    BY <1>1, KeepMetas DEF OrderInv
  <1>3. alive \in [Procs -> BOOLEAN]
    BY DEF IndInv, TypeOK, ProcTypeOK
  <1>4. /\ SomeAlive /\ \A q \in Procs : alive'[q] => alive[q]
        /\ \A q \in Procs : q # p /\ alive[q] => alive'[q]
    BY <1>1, <1>3 DEF SomeAlive
  <1>5. \/ wmutex = p /\ wmutex' = Abandoned /\ wpc' = "idle"
        \/ wmutex # p /\ UNCHANGED <<wmutex, wpc, mt_txnid>>
    BY DEF Crash, ForgetTxn, txnVars
  <1>6. PublishedOrdered'
    BY <1>1, <1>2, <1>4, <1>5, ProcsAssumption
    DEF OrderInv, PublishedOrdered, Before, Filling, Filled, After
  <1>7. AckedOrdered'
    BY <1>1, <1>2, <1>4, <1>5 DEF OrderInv, AckedOrdered
  <1> QED
    BY <1>2, <1>6, <1>7 DEF OrderInv

LEMMA OpenOrder ==
    ASSUME IndInv, OrderInv, NEW p \in Procs, Open(p)
    PROVE  OrderInv' /\ (~SomeAlive => mti_txnid' = Top.mm_txnid)
  <1>1. /\ UNCHANGED <<metas, diskMetas, disk, file, acked, wpc, mt_txnid>>
        /\ ~alive[p] /\ alive' = [alive EXCEPT ![p] = TRUE]
    BY DEF Open, fileVars, diskVars, txnVars, ghostVars
  <1>2. MetasOrdered' /\ Top' = Top /\ TopIdx' = TopIdx
    BY <1>1, KeepMetas DEF OrderInv
  <1>3. alive \in [Procs -> BOOLEAN]
    BY DEF IndInv, TypeOK, ProcTypeOK
  <1>4. \A q \in Procs : alive[q] => alive'[q]
    BY <1>1, <1>3
  <1>5. CASE SomeAlive
    <2>1. UNCHANGED <<mti_txnid, wmutex>>
      BY <1>5 DEF Open, SomeAlive
    <2>2. PublishedOrdered' /\ AckedOrdered'
      BY <1>1, <1>2, <1>4, <1>5, <2>1 DEF OrderInv, PublishedOrdered, AckedOrdered
    <2> QED
      BY <1>2, <1>5, <2>2 DEF OrderInv
  <1>6. CASE ~SomeAlive
    <2>1. mti_txnid' = Top.mm_txnid /\ wmutex' = Nobody
      BY <1>6, NewestIsTop DEF Open, SomeAlive
    <2>2. wpc = "idle"
      BY <1>6 DEF OrderInv, PublishedOrdered, SomeAlive
    <2>3. PublishedOrdered'
      BY <1>1, <1>2, <2>1, <2>2, ProcsAssumption
      DEF PublishedOrdered, Before, Filling, Filled, After
    <2>4. AckedOrdered'
      BY <1>1, <1>2, <2>1, <2>2 DEF OrderInv, AckedOrdered
    <2> QED
      BY <1>2, <2>1, <2>3, <2>4 DEF OrderInv
  <1> QED
    BY <1>5, <1>6

(* Whatever the disk has of each meta page, the newest of the two is one   *)
(* that is needed.                                                         *)
LEMMA PickIsNeeded ==
    ASSUME IndInv, OrderInv,
           NEW ms \in [{0, 1} -> Metas],
           \A i \in {0, 1} : ms[i] \in {metas[i], diskMetas[i]}
    PROVE  LET j == IF ms[0].mm_txnid < ms[1].mm_txnid THEN 1 ELSE 0 IN
           /\ j \in {0, 1} /\ ms[j] = metas[j] /\ Needed(j)
           /\ ms[j].mm_txnid % 2 = j
           /\ ms[1 - j].mm_txnid =
                 IF ms[j].mm_txnid = 0 THEN 0 ELSE ms[j].mm_txnid - 1
  <1> DEFINE j == IF ms[0].mm_txnid < ms[1].mm_txnid THEN 1 ELSE 0
             t == TopIdx
             o == 1 - TopIdx
  <1>1. /\ t \in {0, 1} /\ o \in {0, 1} /\ metas[t] = Top /\ metas[o] = Old
        /\ 1 - o = t /\ 1 - t = o
    BY Numbers DEF Top, Old
  <1>2. ms[o].mm_txnid = Old.mm_txnid
    BY <1>1 DEF OrderInv, MetasOrdered
  <1>3. /\ Top.mm_txnid \in Nat /\ Top.mm_txnid % 2 = t
        /\ Old.mm_txnid = IF Top.mm_txnid = 0 THEN 0 ELSE Top.mm_txnid - 1
    BY Numbers DEF OrderInv, MetasOrdered
  <1>4. CASE ms[t] = Top
    <2>1. ms[t].mm_txnid = Top.mm_txnid
      BY <1>4
    <2>2. t = 1 => Top.mm_txnid > 0
      BY <1>3
    <2>3. j = t
      <3>1. CASE t = 0
        BY <1>2, <1>3, <2>1, <3>1
      <3>2. CASE t = 1
        BY <1>2, <1>3, <2>1, <2>2, <3>2
      <3> QED
        BY <1>1, <3>1, <3>2
    <2> QED
      BY <1>1, <1>2, <1>3, <1>4, <2>3 DEF Needed
  <1>5. CASE ms[t] # Top
    <2>1. ms[t] = diskMetas[t] /\ diskMetas[t] # Top
      BY <1>1, <1>5
    <2>2. /\ diskMetas[o] = Old /\ Top.mm_txnid > 0
          /\ diskMetas[t].mm_txnid = IF Old.mm_txnid = 0 THEN 0 ELSE Old.mm_txnid - 1
      BY <2>1 DEF OrderInv, MetasOrdered
    <2>3. ms[o] = Old
      BY <1>1, <2>2
    <2>4. Old.mm_txnid \in Nat /\ Old.mm_txnid % 2 = o /\ (Old.mm_txnid = 0 => o = 0)
      BY <1>1, <1>3, <2>2, Parity
    <2>5. j = o
      BY <1>1, <2>1, <2>2, <2>3, <2>4
    <2>6. Needed(o)
      BY <1>1, <2>1 DEF Needed
    <2> QED
      BY <1>1, <2>1, <2>2, <2>3, <2>4, <2>5, <2>6
  <1> QED
    BY <1>4, <1>5

(* What the machine that dies leaves on disk. *)
LEMMA SystemCrashOrder ==
    ASSUME IndInv, OrderInv, SystemCrash
    PROVE  /\ OrderInv'
           /\ TopIdx' \in {0, 1} /\ Top' = metas[TopIdx'] /\ Needed(TopIdx')
  <1>1. /\ \A i \in {0, 1} : metas'[i] \in {metas[i], diskMetas[i]}
        /\ metas' \in [{0, 1} -> Metas]
        /\ diskMetas' = metas' /\ disk' = file'
        /\ \A p \in Procs : alive'[p] = FALSE
        /\ acked' = Newest(metas').mm_txnid
        /\ wmutex' = Nobody /\ wpc' = "idle"
    <2>1. metas' \in [{0, 1} -> Metas]
      BY SystemCrashInd DEF IndInv, TypeOK, FileTypeOK
    <2> QED
      BY <2>1 DEF SystemCrash, ForgetTxn
  <1>2. LET j == IF metas'[0].mm_txnid < metas'[1].mm_txnid THEN 1 ELSE 0 IN
           /\ j \in {0, 1} /\ metas'[j] = metas[j] /\ Needed(j)
           /\ metas'[j].mm_txnid % 2 = j
           /\ metas'[1 - j].mm_txnid =
                 IF metas'[j].mm_txnid = 0 THEN 0 ELSE metas'[j].mm_txnid - 1
    BY <1>1, PickIsNeeded
  <1>3. TopIdx' = IF metas'[0].mm_txnid < metas'[1].mm_txnid THEN 1 ELSE 0
    BY DEF TopIdx
  <1>4. Top' = metas'[TopIdx'] /\ Old' = metas'[1 - TopIdx']
    BY DEF Top, Old
  <1>5. MetasOrdered'
    BY <1>1, <1>2, <1>3, <1>4 DEF MetasOrdered
  <1>6. PublishedOrdered'
    BY <1>1, ProcsAssumption
    DEF PublishedOrdered, SomeAlive, Before, Filling, Filled, After
  <1>7. acked' = Top'.mm_txnid /\ Top'.mm_txnid \in Nat
    <2>1. Newest(metas') = metas'[TopIdx']
      BY <1>3 DEF Newest
    <2> QED
      BY <1>1, <1>2, <1>3, <1>4, <2>1 DEF Metas, Txnids
  <1>8. AckedOrdered'
    BY <1>1, <1>4, <1>7 DEF AckedOrdered, SomeAlive
  <1> QED
    BY <1>2, <1>3, <1>4, <1>5, <1>6, <1>8 DEF OrderInv

LEMMA NextOrder ==
    ASSUME IndInv, OrderInv, [Next]_vars, doubt' = "none"
    PROVE  OrderInv'
  <1>1. CASE UNCHANGED vars
    <2>1. UNCHANGED orderVars /\ UNCHANGED <<mt_txnid, wpc, disk, file>>
      BY <1>1 DEF vars, orderVars, fileVars, diskVars, lockVars, procVars,
         txnVars, ghostVars
    <2> QED
      BY <2>1, KeepOrder
  <1>2. CASE SystemCrash
    BY <1>2, SystemCrashOrder
  <1>3. ASSUME NEW p \in Procs, Write(p)
        PROVE  OrderInv'
    BY <1>3, BeginOrder, MemoryOrder, EndsOrder, FlushOrder, SyncOrder,
       WriteMetaOrder, SyncMetaOrder, PublishOrder, NoFailure
    DEF Write
  <1>4. ASSUME NEW p \in Procs,
               Read(p) \/ EnvSync(p) \/ ReaderCheck(p) \/ Crash(p) \/ Open(p)
        PROVE  OrderInv'
    BY <1>4, ReadOrder, SyncOrder, ReaderCheckOrder, CrashOrder, OpenOrder
  <1> QED
    BY <1>1, <1>2, <1>3, <1>4 DEF Next

-----------------------------------------------------------------------------
(* Durability needs less than OrderInv, which ends with the first write of *)
(* a meta page that fails: a number is in the meta page of its parity, the *)
(* one published and, while it is being published, the next; and the disk  *)
(* has one as late as the last commit that succeeded.                      *)
InSlot(txnid, i) == txnid = 0 \/ txnid % 2 = i

OnDisk(txnid) == txnid - Loss <= Newest(diskMetas).mm_txnid

SlotsOK ==
    /\ \A i \in {0, 1} : /\ InSlot(metas[i].mm_txnid, i)
                         /\ InSlot(diskMetas[i].mm_txnid, i)
    /\ SomeAlive => metas[mti_txnid % 2].mm_txnid = mti_txnid
    /\ wpc = "rollback" => InSlot(metab.mm_txnid, Toggle)
    /\ wpc = "meta" => diskMetas = metas
    /\ wpc \in {"metasync", "publish"} => metas[Toggle].mm_txnid = mt_txnid

Committing == Before \cup {"rollback", "metasync", "publish"}

OwnerOK ==
    /\ wmutex \in Procs <=> wpc # "idle"
    /\ \A p \in Procs : wmutex = p => alive[p]
    /\ wpc \in Committing => mt_txnid = mti_txnid + 1
    /\ wpc = "metasync" => ~NoMetaSync

AckedOK ==
    /\ IF SomeAlive THEN acked <= mti_txnid ELSE acked <= Newest(metas).mm_txnid
    /\ OnDisk(acked)
    /\ wpc = "publish" => OnDisk(mt_txnid)

NumInv == SlotsOK /\ OwnerOK /\ AckedOK

LEMMA NewestNumber ==
    ASSUME NEW ms \in [{0, 1} -> Metas]
    PROVE  /\ Newest(ms).mm_txnid \in Nat
           /\ \A i \in {0, 1} : ms[i].mm_txnid \in Nat /\ ms[i].mm_txnid <= Newest(ms).mm_txnid
           /\ \E i \in {0, 1} : Newest(ms) = ms[i]
           /\ (\A i \in {0, 1} : InSlot(ms[i].mm_txnid, i)) =>
                 ms[Newest(ms).mm_txnid % 2].mm_txnid = Newest(ms).mm_txnid
  <1>1. \A i \in {0, 1} : ms[i].mm_txnid \in Nat
    BY DEF Metas, Txnids
  <1>2. CASE ms[0].mm_txnid < ms[1].mm_txnid
    <2>1. Newest(ms) = ms[1]
      BY <1>2 DEF Newest
    <2>2. InSlot(ms[1].mm_txnid, 1) => ms[1].mm_txnid % 2 = 1
      BY <1>1, <1>2 DEF InSlot
    <2> QED
      BY <1>1, <1>2, <2>1, <2>2
  <1>3. CASE ~(ms[0].mm_txnid < ms[1].mm_txnid)
    <2>1. Newest(ms) = ms[0]
      BY <1>3 DEF Newest
    <2>2. InSlot(ms[0].mm_txnid, 0) => ms[0].mm_txnid % 2 = 0
      BY <1>1 DEF InSlot
    <2> QED
      BY <1>1, <1>3, <2>1, <2>2
  <1> QED
    BY <1>2, <1>3

LEMMA NumTypes ==
    ASSUME IndInv
    PROVE  /\ metas \in [{0, 1} -> Metas] /\ diskMetas \in [{0, 1} -> Metas]
           /\ alive \in [Procs -> BOOLEAN]
           /\ mti_txnid \in Nat /\ mt_txnid \in Nat /\ acked \in Nat
           /\ metab.mm_txnid \in Nat /\ wpc \in WPC /\ Loss \in {0, 1}
  BY ModeAssumption
  DEF IndInv, TypeOK, FileTypeOK, LockTypeOK, ProcTypeOK, TxnTypeOK, GhostTypeOK,
      Backups, Txnids, Loss

LEMMA InitNum == Init => NumInv
  <1> SUFFICES ASSUME Init PROVE NumInv
    OBVIOUS
  <1>1. /\ metas = [i \in {0, 1} |-> EmptyMeta] /\ diskMetas = metas
        /\ EmptyMeta.mm_txnid = 0 /\ mti_txnid = 0 /\ acked = 0 /\ wpc = "idle"
        /\ wmutex = Nobody
    BY DEF Init, EmptyMeta
  <1>2. Newest(diskMetas).mm_txnid = 0 /\ Newest(metas).mm_txnid = 0
    BY <1>1 DEF Newest
  <1>3. SlotsOK
    BY <1>1 DEF SlotsOK, InSlot
  <1>4. OwnerOK
    BY <1>1, ProcsAssumption DEF OwnerOK, Committing, Before, Filling, Filled
  <1>5. AckedOK
    BY <1>1, <1>2, ModeAssumption DEF AckedOK, OnDisk, Loss
  <1> QED
    BY <1>3, <1>4, <1>5 DEF NumInv

(* A step that leaves the numbers alone. *)
LEMMA KeepNum ==
    ASSUME NumInv, UNCHANGED orderVars,
           \/ wpc' = wpc /\ UNCHANGED <<mt_txnid, metab>>
           \/ /\ wpc \in Before \ {"meta"} /\ wpc' \in Before \ {"meta"}
              /\ UNCHANGED mt_txnid
    PROVE  NumInv'
  <1>1. SomeAlive' = SomeAlive
    BY DEF SomeAlive, orderVars
  <1>2. SlotsOK'
    BY <1>1 DEF NumInv, SlotsOK, orderVars, Toggle, Before, Filling, Filled
  <1>3. OwnerOK'
    BY DEF NumInv, OwnerOK, orderVars, Committing, Before, Filling, Filled
  <1>4. AckedOK'
    BY <1>1 DEF NumInv, AckedOK, OnDisk, orderVars, Before, Filling, Filled
  <1> QED
    BY <1>2, <1>3, <1>4 DEF NumInv

(* Who takes the mutex publishes the newest meta page it finds, or leaves  *)
(* what is published.                                                      *)
LEMMA BeginNum ==
    ASSUME IndInv, NumInv, NEW p \in Procs, BeginWrite(p) \/ BeginPanics(p)
    PROVE  NumInv'
  <1>1. /\ alive[p] /\ wmutex \in {Nobody, Abandoned} /\ mti_txnid' = RecoveredTxnid
        /\ UNCHANGED <<metas, diskMetas, alive, acked>>
    BY DEF BeginWrite, BeginPanics, LockMutex, fileVars, diskVars, procVars, ghostVars
  <1>2. SomeAlive /\ SomeAlive'
    BY <1>1 DEF SomeAlive
  <1>3. wpc = "idle"
    BY <1>1, ProcsAssumption DEF NumInv, OwnerOK
  <1>4. /\ metas[RecoveredTxnid % 2].mm_txnid = RecoveredTxnid
        /\ mti_txnid <= RecoveredTxnid /\ RecoveredTxnid \in Nat
    <2>1. CASE wmutex = Abandoned
      <3>1. RecoveredTxnid = Newest(metas).mm_txnid
        BY <2>1 DEF RecoveredTxnid
      <3>2. metas[mti_txnid % 2].mm_txnid = mti_txnid /\ mti_txnid % 2 \in {0, 1}
        BY <1>2, NumTypes DEF NumInv, SlotsOK
      <3> QED
        BY <3>1, <3>2, NewestNumber, NumTypes DEF NumInv, SlotsOK
    <2>2. CASE wmutex # Abandoned
      BY <1>2, <2>2, NumTypes DEF RecoveredTxnid, NumInv, SlotsOK
    <2> QED
      BY <2>1, <2>2
  <1>5. /\ wpc' \in {"idle", "work"} /\ (wpc' = "work" => mt_txnid' = RecoveredTxnid + 1)
        /\ wmutex' \in Procs <=> wpc' # "idle"
        /\ \A q \in Procs : wmutex' = q => q = p
    BY <1>3, ProcsAssumption DEF BeginWrite, BeginPanics, txnVars
  <1>6. SlotsOK'
    BY <1>1, <1>2, <1>4, <1>5 DEF NumInv, SlotsOK
  <1>7. OwnerOK'
    BY <1>1, <1>5 DEF NumInv, OwnerOK, Committing, Before, Filling, Filled
  <1>8. AckedOK'
    BY <1>1, <1>2, <1>4, <1>5, NumTypes DEF NumInv, AckedOK, OnDisk
  <1> QED
    BY <1>6, <1>7, <1>8 DEF NumInv

LEMMA EndsNum ==
    ASSUME IndInv, NumInv, NEW p \in Procs, Abort(p) \/ CommitNothing(p) \/ Unlock(p)
    PROVE  NumInv'
  <1>1. /\ UNCHANGED <<metas, diskMetas, alive, acked, mti_txnid>>
        /\ wmutex' = Nobody /\ wpc' = "idle"
    BY DEF Abort, CommitNothing, Unlock, EndTxn, ForgetTxn, fileVars, diskVars,
       procVars, ghostVars
  <1>2. SomeAlive' = SomeAlive
    BY <1>1 DEF SomeAlive
  <1>3. SlotsOK' /\ OwnerOK'
    BY <1>1, <1>2, ProcsAssumption
    DEF NumInv, SlotsOK, OwnerOK, Committing, Before, Filling, Filled
  <1>4. AckedOK'
    BY <1>1, <1>2 DEF NumInv, AckedOK, OnDisk
  <1> QED
    BY <1>3, <1>4 DEF NumInv

(* What the disk takes from the map is as late as what is published. *)
LEMMA SyncNum ==
    ASSUME IndInv, NumInv, NEW p \in Procs, Sync(p) \/ EnvSync(p)
    PROVE  NumInv'
  <1>1. /\ diskMetas' = metas
        /\ UNCHANGED <<metas, mti_txnid, wmutex, alive, acked, mt_txnid, metab>>
        /\ wpc' = wpc \/ (wpc = "sync" /\ wpc' = "meta")
    BY DEF Sync, EnvSync, CommitStep, Owner, fileVars, lockVars, procVars, txnVars, ghostVars
  <1>2. SomeAlive /\ SomeAlive'
    <2>1. alive[p]
      BY DEF Sync, CommitStep, Owner, EnvSync, NumInv, OwnerOK
    <2> QED
      BY <1>1, <2>1 DEF SomeAlive
  <1>3. mti_txnid <= Newest(metas).mm_txnid /\ Newest(metas).mm_txnid \in Nat
    <2>1. metas[mti_txnid % 2].mm_txnid = mti_txnid /\ mti_txnid % 2 \in {0, 1}
      BY <1>2, NumTypes DEF NumInv, SlotsOK
    <2> QED
      BY <2>1, NewestNumber, NumTypes
  <1>4. wpc = "publish" => mt_txnid <= Newest(metas).mm_txnid
    <2>1. Toggle \in {0, 1}
      BY NumTypes DEF Toggle
    <2>2. wpc = "publish" => metas[Toggle].mm_txnid = mt_txnid
      BY DEF NumInv, SlotsOK
    <2> QED
      BY <2>1, <2>2, NewestNumber, NumTypes
  <1>5. SlotsOK'
    BY <1>1, <1>2 DEF NumInv, SlotsOK, Toggle
  <1>6. OwnerOK'
    BY <1>1 DEF NumInv, OwnerOK, Committing, Before, Filling, Filled
  <1>7. AckedOK'
    <2>1. acked <= mti_txnid
      BY <1>2 DEF NumInv, AckedOK
    <2> QED
      BY <1>1, <1>2, <1>3, <1>4, <2>1, NumTypes DEF AckedOK, OnDisk, Loss
  <1> QED
    BY <1>5, <1>6, <1>7 DEF NumInv

(* The next number goes to the place that is not the published one's. *)
LEMMA ToggleFree ==
    ASSUME IndInv, NumInv, wpc \in Committing, wpc # "idle"
    PROVE  /\ Toggle \in {0, 1} /\ Toggle = 1 - (mti_txnid % 2)
           /\ mti_txnid % 2 \in {0, 1} /\ SomeAlive
           /\ InSlot(mt_txnid, Toggle) /\ mt_txnid = mti_txnid + 1
  <1>1. mt_txnid = mti_txnid + 1 /\ SomeAlive
    BY DEF NumInv, OwnerOK, SomeAlive
  <1> QED
    BY <1>1, NumTypes, Parity DEF Toggle, InSlot

LEMMA WriteMetaNum ==
    ASSUME IndInv, NumInv, NEW p \in Procs, WriteMeta(p)
    PROVE  NumInv'
  <1>1. /\ wpc = "meta"
        /\ wpc' = IF NoMetaSync THEN "publish" ELSE "metasync"
        /\ metas' = [metas EXCEPT ![Toggle] = NewMeta]
        /\ UNCHANGED <<diskMetas, mti_txnid, wmutex, alive, acked, mt_txnid>>
    BY DEF WriteMeta, CommitStep, Owner, diskVars, procVars
  <1>2. /\ Toggle \in {0, 1} /\ Toggle = 1 - (mti_txnid % 2)
        /\ mti_txnid % 2 \in {0, 1} /\ SomeAlive
        /\ InSlot(mt_txnid, Toggle) /\ mt_txnid = mti_txnid + 1
    BY <1>1, ToggleFree DEF Committing, Before, Filled
  <1>3. PICK m : m = NewMeta
    OBVIOUS
  <1>4. m.mm_txnid = mt_txnid
    BY <1>1, <1>3, NewMetaType
  <1>5. /\ metas'[Toggle] = m /\ metas'[mti_txnid % 2] = metas[mti_txnid % 2]
        /\ \A i \in {0, 1} : metas'[i] = IF i = Toggle THEN m ELSE metas[i]
    BY <1>1, <1>2, <1>3, NumTypes
  <1>6. SomeAlive' = SomeAlive /\ Toggle' = Toggle
    BY <1>1 DEF SomeAlive, Toggle
  <1>7. SlotsOK'
    <2>1. ASSUME NEW i \in {0, 1}
          PROVE  InSlot(metas'[i].mm_txnid, i) /\ InSlot(diskMetas'[i].mm_txnid, i)
      BY <1>1, <1>2, <1>4, <1>5 DEF NumInv, SlotsOK
    <2> QED
      BY <1>1, <1>2, <1>4, <1>5, <1>6, <2>1 DEF NumInv, SlotsOK
  <1>8. OwnerOK'
    BY <1>1, <1>2 DEF NumInv, OwnerOK
  <1>9. AckedOK'
    <2>1. NoMetaSync => OnDisk(mt_txnid)
      <3>1. diskMetas[mti_txnid % 2].mm_txnid = mti_txnid
        BY <1>1, <1>2 DEF NumInv, SlotsOK
      <3>2. mti_txnid <= Newest(diskMetas).mm_txnid /\ Newest(diskMetas).mm_txnid \in Nat
        BY <1>2, <3>1, NewestNumber, NumTypes
      <3> QED
        BY <1>2, <3>2, NumTypes DEF OnDisk, Loss
    <2> QED
      BY <1>1, <1>2, <1>6, <2>1 DEF NumInv, AckedOK, OnDisk
  <1> QED
    BY <1>7, <1>8, <1>9 DEF NumInv

LEMMA SyncMetaNum ==
    ASSUME IndInv, NumInv, NEW p \in Procs, SyncMeta(p)
    PROVE  NumInv'
  <1>1. /\ wpc = "metasync" /\ wpc' = "publish"
        /\ diskMetas' = [diskMetas EXCEPT ![Toggle] = metas[Toggle]]
        /\ UNCHANGED <<metas, mti_txnid, wmutex, alive, acked, mt_txnid>>
    BY DEF SyncMeta, CommitStep, Owner, fileVars, procVars, ghostVars
  <1>2. /\ Toggle \in {0, 1} /\ mt_txnid = mti_txnid + 1 /\ SomeAlive
        /\ metas[Toggle].mm_txnid = mt_txnid
    BY <1>1, ToggleFree DEF Committing, NumInv, SlotsOK
  <1>3. /\ diskMetas' \in [{0, 1} -> Metas] /\ diskMetas'[Toggle] = metas[Toggle]
        /\ \A i \in {0, 1} : diskMetas'[i] \in {metas[i], diskMetas[i]}
    BY <1>1, <1>2, NumTypes
  <1>4. SomeAlive' = SomeAlive /\ Toggle' = Toggle
    BY <1>1 DEF SomeAlive, Toggle
  <1>5. SlotsOK'
    BY <1>1, <1>3, <1>4 DEF NumInv, SlotsOK
  <1>6. OwnerOK'
    BY <1>1 DEF NumInv, OwnerOK, Committing
  <1>7. mt_txnid <= Newest(diskMetas').mm_txnid /\ Newest(diskMetas').mm_txnid \in Nat
    BY <1>2, <1>3, NewestNumber
  <1>8. AckedOK'
    <2>1. acked <= mti_txnid
      BY <1>2 DEF NumInv, AckedOK
    <2> QED
      BY <1>1, <1>2, <1>4, <1>7, <2>1, NumTypes DEF AckedOK, OnDisk, Loss
  <1> QED
    BY <1>5, <1>6, <1>8 DEF NumInv

(* A failed write leaves the meta page of what is published alone. *)
LEMMA WriteMetaFailsNum ==
    ASSUME IndInv, NumInv, NEW p \in Procs, WriteMetaFails(p)
    PROVE  NumInv'
  <1>1. /\ wpc = "meta" /\ wpc' = "rollback"
        /\ metab'.mm_txnid = metas[Toggle].mm_txnid
        /\ metas' \in {metas, [metas EXCEPT ![Toggle] = NewMeta]}
        /\ diskMetas' \in {diskMetas, [diskMetas EXCEPT ![Toggle] = metas'[Toggle]]}
        /\ UNCHANGED <<mti_txnid, wmutex, alive, acked, mt_txnid>>
    BY DEF WriteMetaFails, Owner, lockVars, procVars
  <1>2. /\ Toggle \in {0, 1} /\ Toggle = 1 - (mti_txnid % 2)
        /\ mti_txnid % 2 \in {0, 1} /\ SomeAlive
        /\ InSlot(mt_txnid, Toggle) /\ mt_txnid = mti_txnid + 1
    BY <1>1, ToggleFree DEF Committing, Before, Filled
  <1>3. PICK m \in Metas : m = NewMeta
    BY <1>1, NewMetaType
  <1>4. m.mm_txnid = mt_txnid
    BY <1>1, <1>3, NewMetaType
  <1>5. /\ metas'[mti_txnid % 2] = metas[mti_txnid % 2]
        /\ \A i \in {0, 1} : metas'[i] = metas[i] \/ (i = Toggle /\ metas'[i] = m)
    BY <1>1, <1>2, <1>3, NumTypes
  <1>6. /\ diskMetas'[mti_txnid % 2] = diskMetas[mti_txnid % 2]
        /\ diskMetas' \in [{0, 1} -> Metas]
        /\ \A i \in {0, 1} : diskMetas'[i] = diskMetas[i] \/ diskMetas'[i] = metas'[i]
    BY <1>1, <1>2, <1>3, <1>5, NumTypes
  <1>7. SomeAlive' = SomeAlive /\ Toggle' = Toggle
    BY <1>1 DEF SomeAlive, Toggle
  <1>8. SlotsOK'
    <2>1. ASSUME NEW i \in {0, 1} PROVE InSlot(metas'[i].mm_txnid, i)
      BY <1>2, <1>4, <1>5 DEF NumInv, SlotsOK
    <2>2. ASSUME NEW i \in {0, 1} PROVE InSlot(diskMetas'[i].mm_txnid, i)
      BY <1>6, <2>1 DEF NumInv, SlotsOK
    <2>3. InSlot(metab'.mm_txnid, Toggle)
      BY <1>1, <1>2 DEF NumInv, SlotsOK
    <2> QED
      BY <1>1, <1>2, <1>5, <1>7, <2>1, <2>2, <2>3 DEF NumInv, SlotsOK
  <1>9. OwnerOK'
    BY <1>1, <1>2 DEF NumInv, OwnerOK
  <1>10. AckedOK'
    <2>1. diskMetas'[mti_txnid % 2].mm_txnid = mti_txnid
      BY <1>1, <1>2, <1>6 DEF NumInv, SlotsOK
    <2>2. mti_txnid <= Newest(diskMetas').mm_txnid /\ Newest(diskMetas').mm_txnid \in Nat
      BY <1>2, <1>6, <2>1, NewestNumber
    <2>3. acked <= mti_txnid
      BY <1>2 DEF NumInv, AckedOK
    <2> QED
      BY <1>1, <1>2, <1>7, <2>2, <2>3, NumTypes DEF AckedOK, OnDisk, Loss
  <1> QED
    BY <1>8, <1>9, <1>10 DEF NumInv

LEMMA RollBackNum ==
    ASSUME IndInv, NumInv, NEW p \in Procs, RollBack(p)
    PROVE  NumInv'
  <1>1. /\ wpc = "rollback" /\ wpc' = "error"
        /\ metas' \in {metas, [metas EXCEPT ![Toggle] = RolledBack]}
        /\ UNCHANGED <<diskMetas, mti_txnid, wmutex, alive, acked, mt_txnid>>
    BY DEF RollBack, Owner, diskVars, lockVars, ghostVars
  <1>2. /\ Toggle \in {0, 1} /\ Toggle = 1 - (mti_txnid % 2)
        /\ mti_txnid % 2 \in {0, 1} /\ SomeAlive /\ mt_txnid = mti_txnid + 1
    BY <1>1, ToggleFree DEF Committing
  <1>3. PICK m : m = RolledBack
    OBVIOUS
  <1>4. InSlot(m.mm_txnid, Toggle)
    BY <1>1, <1>3, NewMetaType DEF NumInv, SlotsOK
  <1>5. /\ metas'[mti_txnid % 2] = metas[mti_txnid % 2]
        /\ \A i \in {0, 1} : metas'[i] = metas[i] \/ (i = Toggle /\ metas'[i] = m)
    BY <1>1, <1>2, <1>3, NumTypes
  <1>6. SomeAlive' = SomeAlive
    BY <1>1 DEF SomeAlive
  <1>7. SlotsOK'
    <2>1. ASSUME NEW i \in {0, 1} PROVE InSlot(metas'[i].mm_txnid, i)
      BY <1>4, <1>5 DEF NumInv, SlotsOK
    <2> QED
      BY <1>1, <1>2, <1>5, <1>6, <2>1 DEF NumInv, SlotsOK
  <1>8. OwnerOK'
    BY <1>1, <1>2 DEF NumInv, OwnerOK
  <1>9. AckedOK'
    BY <1>1, <1>2, <1>6 DEF NumInv, AckedOK, OnDisk
  <1> QED
    BY <1>7, <1>8, <1>9 DEF NumInv

LEMMA PublishNum ==
    ASSUME IndInv, NumInv, NEW p \in Procs, PublishTxnid(p)
    PROVE  NumInv'
  <1>1. /\ wpc = "publish" /\ wpc' = "unlock"
        /\ mti_txnid' = mt_txnid /\ acked' = mt_txnid
        /\ UNCHANGED <<metas, diskMetas, wmutex, alive>>
    BY DEF PublishTxnid, CommitStep, Owner, fileVars, diskVars, procVars
  <1>2. SomeAlive /\ SomeAlive'
    BY <1>1, ToggleFree DEF Committing, SomeAlive
  <1>3. metas[mt_txnid % 2].mm_txnid = mt_txnid /\ OnDisk(mt_txnid)
    BY <1>1 DEF NumInv, SlotsOK, AckedOK, Toggle
  <1>4. SlotsOK' /\ OwnerOK'
    BY <1>1, <1>2, <1>3 DEF NumInv, SlotsOK, OwnerOK, Committing, Before, Filling, Filled
  <1>5. AckedOK'
    BY <1>1, <1>2, <1>3, NumTypes DEF AckedOK, OnDisk
  <1> QED
    BY <1>4, <1>5 DEF NumInv

LEMMA CrashNum ==
    ASSUME IndInv, NumInv, NEW p \in Procs, Crash(p)
    PROVE  NumInv'
  <1>1. /\ UNCHANGED <<metas, diskMetas, mti_txnid, acked>>
        /\ alive[p] /\ alive' = [alive EXCEPT ![p] = FALSE]
    BY DEF Crash, fileVars, diskVars, ghostVars
  <1>2. /\ SomeAlive /\ \A q \in Procs : alive'[q] => alive[q]
        /\ \A q \in Procs : q # p /\ alive[q] => alive'[q]
    BY <1>1, NumTypes DEF SomeAlive
  <1>3. \/ wmutex = p /\ wmutex' = Abandoned /\ wpc' = "idle"
        \/ wmutex # p /\ UNCHANGED <<wmutex, wpc, mt_txnid, metab>>
    BY DEF Crash, ForgetTxn, txnVars
  <1>4. SlotsOK'
    BY <1>1, <1>2, <1>3 DEF NumInv, SlotsOK, Toggle
  <1>5. OwnerOK'
    BY <1>1, <1>2, <1>3, ProcsAssumption
    DEF NumInv, OwnerOK, Committing, Before, Filling, Filled
  <1>6. AckedOK'
    <2>1. metas[mti_txnid % 2].mm_txnid = mti_txnid /\ mti_txnid % 2 \in {0, 1}
      BY <1>2, NumTypes DEF NumInv, SlotsOK
    <2>2. mti_txnid <= Newest(metas).mm_txnid /\ Newest(metas).mm_txnid \in Nat
      BY <2>1, NewestNumber, NumTypes
    <2>3. acked <= mti_txnid /\ OnDisk(acked) /\ (wpc = "publish" => OnDisk(mt_txnid))
      BY <1>2 DEF NumInv, AckedOK
    <2> QED
      BY <1>1, <1>3, <2>2, <2>3, NumTypes DEF AckedOK, OnDisk
  <1> QED
    BY <1>4, <1>5, <1>6 DEF NumInv

LEMMA OpenNum ==
    ASSUME IndInv, NumInv, NEW p \in Procs, Open(p)
    PROVE  NumInv'
  <1>1. /\ UNCHANGED <<metas, diskMetas, acked, wpc, mt_txnid, metab>>
        /\ ~alive[p] /\ alive' = [alive EXCEPT ![p] = TRUE]
    BY DEF Open, fileVars, diskVars, txnVars, ghostVars
  <1>2. SomeAlive' /\ \A q \in Procs : alive[q] => alive'[q]
    BY <1>1, NumTypes DEF SomeAlive
  <1>3. CASE SomeAlive
    <2>1. UNCHANGED <<mti_txnid, wmutex>>
      BY <1>3 DEF Open, SomeAlive
    <2> QED
      BY <1>1, <1>2, <1>3, <2>1
      DEF NumInv, SlotsOK, OwnerOK, AckedOK, OnDisk, Toggle
  <1>4. CASE ~SomeAlive
    <2>1. mti_txnid' = Newest(metas).mm_txnid /\ wmutex' = Nobody
      BY <1>4 DEF Open, SomeAlive
    <2>2. wpc = "idle"
      BY <1>4, NumTypes DEF NumInv, OwnerOK, SomeAlive
    <2>3. metas[mti_txnid' % 2].mm_txnid = mti_txnid'
      BY <2>1, NewestNumber, NumTypes DEF NumInv, SlotsOK
    <2>4. SlotsOK' /\ OwnerOK'
      BY <1>1, <2>1, <2>2, <2>3, ProcsAssumption
      DEF NumInv, SlotsOK, OwnerOK, Committing, Before, Filling, Filled
    <2>5. AckedOK'
      BY <1>1, <1>2, <1>4, <2>1, <2>2 DEF NumInv, AckedOK, OnDisk
    <2> QED
      BY <2>4, <2>5 DEF NumInv
  <1> QED
    BY <1>3, <1>4

LEMMA SystemCrashNum ==
    ASSUME IndInv, NumInv, SystemCrash
    PROVE  NumInv'
  <1>1. /\ \A i \in {0, 1} : metas'[i] \in {metas[i], diskMetas[i]}
        /\ metas' \in [{0, 1} -> Metas] /\ diskMetas' = metas'
        /\ \A p \in Procs : alive'[p] = FALSE
        /\ acked' = Newest(metas').mm_txnid
        /\ wmutex' = Nobody /\ wpc' = "idle"
    <2>1. metas' \in [{0, 1} -> Metas]
      BY SystemCrashInd DEF IndInv, TypeOK, FileTypeOK
    <2> QED
      BY <2>1 DEF SystemCrash, ForgetTxn
  <1>2. ~SomeAlive'
    BY <1>1 DEF SomeAlive
  <1>3. \A i \in {0, 1} : InSlot(metas'[i].mm_txnid, i)
    BY <1>1 DEF NumInv, SlotsOK
  <1>4. SlotsOK' /\ OwnerOK'
    BY <1>1, <1>2, <1>3, ProcsAssumption
    DEF SlotsOK, OwnerOK, Committing, Before, Filling, Filled
  <1>5. Newest(metas').mm_txnid \in Nat
    BY <1>1, NewestNumber
  <1>6. AckedOK'
    BY <1>1, <1>2, <1>5, NumTypes DEF AckedOK, OnDisk, Loss
  <1> QED
    BY <1>4, <1>6 DEF NumInv

LEMMA NextNum ==
    ASSUME IndInv, NumInv, [Next]_vars
    PROVE  NumInv'
  <1>1. CASE UNCHANGED vars
    BY <1>1, KeepNum DEF vars, orderVars, fileVars, diskVars, lockVars, procVars,
       txnVars, ghostVars
  <1>2. CASE SystemCrash
    BY <1>2, SystemCrashNum
  <1>3. ASSUME NEW p \in Procs, Write(p)
        PROVE  NumInv'
    <2>1. CASE (Work(p) \/ Commit(p) \/ Save(p)) /\ ~Abort(p)
      <3>1. InMemory /\ wpc \in Filling /\ wpc' \in Filling \cup {"flush"}
        BY <2>1, MemorySteps
      <3>2. UNCHANGED orderVars /\ UNCHANGED mt_txnid
        BY <3>1 DEF InMemory, orderVars, fileVars, diskVars, lockVars, ghostVars
      <3> QED
        BY <3>1, <3>2, KeepNum DEF Before, Filling, Filled
    <2>2. CASE FlushPage(p) \/ Flushed(p)
      BY <2>2, KeepNum
      DEF FlushPage, Flushed, CommitStep, Owner, orderVars, procVars, fileVars,
          diskVars, ghostVars, Before, Filled
    <2> QED
      BY <1>3, <2>1, <2>2, BeginNum, EndsNum, SyncNum, WriteMetaNum, SyncMetaNum,
         WriteMetaFailsNum, RollBackNum, PublishNum
      DEF Write
  <1>4. ASSUME NEW p \in Procs, Read(p)
        PROVE  NumInv'
    <2>1. \E from, to : ReadStep(p, from, to)
      BY <1>4 DEF Read, LoadTxnid, StoreTxnid, CheckTxnid, CopyDbs, CopyLastPg, EndRead
    <2>2. UNCHANGED <<mti_txnid, wmutex>>
      BY <1>4 DEF Read, LoadTxnid, StoreTxnid, CheckTxnid, CopyDbs, CopyLastPg,
         EndRead, lockVars
    <2> QED
      BY <2>1, <2>2, KeepNum
      DEF ReadStep, orderVars, fileVars, diskVars, procVars, txnVars, ghostVars
  <1>5. ASSUME NEW p \in Procs, ReaderCheck(p)
        PROVE  NumInv'
    BY <1>5, KeepNum
    DEF ReaderCheck, orderVars, fileVars, diskVars, procVars, txnVars, ghostVars
  <1>6. ASSUME NEW p \in Procs, EnvSync(p) \/ Crash(p) \/ Open(p)
        PROVE  NumInv'
    BY <1>6, SyncNum, CrashNum, OpenNum
  <1> QED
    BY <1>1, <1>2, <1>3, <1>4, <1>5, <1>6 DEF Next

(* A commit that has returned is never lost: whenever the machine dies,    *)
(* the newest meta page on disk is that of the last transaction whose      *)
(* commit succeeded or of a later one - with MDB_NOMETASYNC, of the one    *)
(* before it - in any mode, whatever fails, the write of a meta page and   *)
(* its roll-back included, and whoever dies.                               *)
THEOREM CommitsDurable == Spec => []Durable
  <1>1. Init => IndInv /\ NumInv
    BY InitInd, InitNum
  <1>2. IndInv /\ NumInv /\ [Next]_vars => (IndInv /\ NumInv)'
    BY NextInd, NextNum
  <1>3. IndInv /\ NumInv => Durable
    BY DEF NumInv, AckedOK, OnDisk, Durable
  <1> QED
    BY <1>1, <1>2, <1>3, PTL DEF Spec

-----------------------------------------------------------------------------
(* What a writer believes the oldest reader to be: LooksOK is inductive.   *)
LEMMA OldestBound ==
    ASSUME IndInv, wpc # "idle"
    PROVE  /\ Oldest \in Nat /\ Oldest <= mt_txnid - 1
           /\ \A q \in Procs : mr_txnid[q] # IDLE => Oldest <= mr_txnid[q]
  <1> DEFINE held == InUse({mr_txnid[q] : q \in Procs} \cup stale)
                        \cup {mt_txnid - 1}
  <1>0. /\ LockTypeOK /\ mt_txnid \in Txnids /\ mt_txnid > 0
    BY WorkingTypes
  <1>1. held \subseteq Nat /\ held # {}
    <2>1. InUse({mr_txnid[q] : q \in Procs} \cup stale) \subseteq Txnids
      BY <1>0 DEF InUse, LockTypeOK
    <2>2. mt_txnid - 1 \in Nat
      BY <1>0 DEF Txnids
    <2>3. Txnids \subseteq Nat
      BY DEF Txnids
    <2> QED
      BY <2>1, <2>2, <2>3
  <1>2. \E t \in held : \A u \in held : t <= u
    <2> HIDE DEF held
    <2> QED
      BY <1>1, LeastExists
  <1>3. Oldest = CHOOSE t \in held : \A u \in held : t <= u
    BY DEF Oldest
  <1>4. Oldest \in held /\ \A u \in held : Oldest <= u
    <2> HIDE DEF held
    <2> QED
      BY <1>2, <1>3
  <1>5. mt_txnid - 1 \in held
    OBVIOUS
  <1>6. \A q \in Procs : mr_txnid[q] # IDLE => mr_txnid[q] \in held
    BY DEF InUse
  <1> QED
    BY <1>1, <1>4, <1>5, <1>6

(* A writer at work goes on from the newest transaction, which is          *)
(* published.                                                              *)
LEMMA WorkerOrder ==
    ASSUME IndInv, OrderInv, wpc \in Before
    PROVE  /\ SomeAlive /\ mti_txnid = Top.mm_txnid
           /\ mt_txnid = Top.mm_txnid + 1 /\ wmutex \in Procs
  <1>1. wpc \notin {"idle", "metasync", "publish"}
    BY DEF Before, Filling, Filled
  <1>2. wmutex \in Procs /\ wmutex # Abandoned
    BY <1>1, ProcsAssumption DEF OrderInv, PublishedOrdered
  <1>3. SomeAlive
    BY <1>2 DEF OrderInv, PublishedOrdered, SomeAlive
  <1> QED
    BY <1>1, <1>2, <1>3 DEF OrderInv, PublishedOrdered

LEMMA PgOldestBound ==
    ASSUME IndInv, OrderInv, LooksOK, wpc \in Before, NEW p \in Procs
    PROVE  /\ PgOldest(p) \in Nat /\ PgOldest(p) <= mti_txnid
           /\ \A q \in Procs : rpc[q] \in Holding => PgOldest(p) <= mr_txnid[q]
  <1>1. /\ SomeAlive /\ mti_txnid = Top.mm_txnid /\ mt_txnid = Top.mm_txnid + 1
        /\ wpc # "idle"
    BY WorkerOrder DEF Before, Filling, Filled
  <1>2. /\ Oldest \in Nat /\ Oldest <= mti_txnid
        /\ \A q \in Procs : mr_txnid[q] # IDLE => Oldest <= mr_txnid[q]
    BY <1>1, OldestBound, Numbers
  <1>3. me_pgoldest[p] \in Nat
    BY DEF IndInv, TypeOK, ProcTypeOK, Txnids
  <1>4. /\ me_pgoldest[p] <= mti_txnid
        /\ \A q \in Procs : rpc[q] \in Holding =>
              mr_txnid[q] # IDLE /\ me_pgoldest[p] <= mr_txnid[q]
    BY <1>1 DEF LooksOK
  <1> QED
    BY <1>2, <1>3, <1>4 DEF PgOldest

LEMMA KeepLooks ==
    ASSUME LooksOK, UNCHANGED <<alive, rpc, mr_txnid, me_pgoldest, mti_txnid>>
    PROVE  LooksOK'
  BY DEF LooksOK, SomeAlive

LEMMA LooksUp ==
    ASSUME IndInv, LooksOK, UNCHANGED <<alive, rpc, mr_txnid, me_pgoldest>>,
           SomeAlive => mti_txnid <= mti_txnid', mti_txnid' \in Nat
    PROVE  LooksOK'
  <1>1. \A q \in Procs : me_pgoldest[q] \in Nat
    BY DEF IndInv, TypeOK, ProcTypeOK, Txnids
  <1> QED
    BY <1>1, Numbers DEF LooksOK, SomeAlive

(* mdb_page_alloc looks at the table, or does not. *)
LEMMA AllocLooks ==
    ASSUME NEW p \in Procs, NEW pg, PageAlloc(p, pg)
    PROVE  Look(p) \/ UNCHANGED me_pgoldest
  BY DEF PageAlloc, TakeLoose, TakeHead, TakeRecord, TakeNew

LEMMA MemoryLooks ==
    ASSUME IndInv, OrderInv, LooksOK,
           NEW p \in Procs, Work(p) \/ Commit(p) \/ Save(p), ~Abort(p)
    PROVE  LooksOK'
  <1>1. /\ InMemory /\ wpc \in Filling /\ wmutex = p
        /\ UNCHANGED <<alive, rpc, mr_txnid, mti_txnid>>
    BY MemorySteps DEF InMemory, lockVars, readVars
  <1>2. ASSUME NEW wanted, MapFull(p, wanted)
        PROVE  Look(p) \/ UNCHANGED me_pgoldest
    BY <1>2 DEF MapFull
  <1>3. ASSUME NEW n, Touch(p, n)
        PROVE  Look(p) \/ UNCHANGED me_pgoldest
    BY <1>3, AllocLooks DEF Touch
  <1>4. Look(p) \/ UNCHANGED me_pgoldest
    <2>1. CASE Work(p)
      BY <1>2, <1>3, <2>1 DEF Work, WriteNode, LoosePage, FreeOverflow,
         EmptyRoot, Drop, WriteFails, RemoveStep
    <2>2. CASE Commit(p)
      BY <2>2 DEF Commit
    <2>3. CASE Save(p)
      BY <1>2, <1>3, <2>3 DEF Save, SaveTouches, SaveLoose, SaveDeletes,
         SaveReserves, SavePuts, SaveReturns, SaveFails
    <2> QED
      BY <2>1, <2>2, <2>3
  <1>5. CASE UNCHANGED me_pgoldest
    BY <1>1, <1>5, KeepLooks
  <1>6. CASE Look(p)
    <2>1. /\ PgOldest(p) <= mti_txnid
          /\ \A q \in Procs : rpc[q] \in Holding => PgOldest(p) <= mr_txnid[q]
      BY <1>1, PgOldestBound DEF Before
    <2>2. me_pgoldest' = [me_pgoldest EXCEPT ![p] = PgOldest(p)]
          /\ me_pgoldest \in [Procs -> Txnids]
      BY <1>6 DEF Look, IndInv, TypeOK, ProcTypeOK
    <2>3. alive[p]
      BY <1>1 DEF OrderInv, PublishedOrdered
    <2> HIDE DEF PgOldest
    <2> QED
      BY <1>1, <2>1, <2>2, <2>3 DEF LooksOK, SomeAlive
  <1> QED
    BY <1>4, <1>5, <1>6

LEMMA ReadLooks ==
    ASSUME IndInv, OrderInv, LooksOK, NEW p \in Procs, Read(p)
    PROVE  LooksOK'
  <1>1. /\ alive[p] /\ UNCHANGED <<alive, me_pgoldest, mti_txnid>>
        /\ \A q \in Procs : q # p => rpc'[q] = rpc[q] /\ mr_txnid'[q] = mr_txnid[q]
        /\ \/ rpc'[p] \notin Holding
           \/ rpc[p] \in Holding /\ mr_txnid' = mr_txnid
           \/ mr_txnid'[p] = mti_txnid
    <2>1. /\ rpc \in [Procs -> RPC] /\ mr_txnid \in [Procs -> Txnids \cup {IDLE}]
      BY DEF IndInv, TypeOK, ReadTypeOK, LockTypeOK
    <2> QED
      BY <2>1 DEF Read, LoadTxnid, StoreTxnid, CheckTxnid, CopyDbs, CopyLastPg,
         EndRead, ReadStep, procVars, lockVars, Holding
  <1>2. SomeAlive
    BY <1>1 DEF SomeAlive
  <1>3. mti_txnid # IDLE /\ \A q \in Procs : me_pgoldest[q] <= mti_txnid
    BY <1>2, Numbers DEF LooksOK, IDLE
  <1> QED
    BY <1>1, <1>2, <1>3 DEF LooksOK, SomeAlive

LEMMA WriteLooks ==
    ASSUME IndInv, OrderInv, LooksOK, NEW p \in Procs, Write(p), doubt' = "none"
    PROVE  LooksOK'
  <1>1. CASE BeginWrite(p) \/ BeginPanics(p)
    <2>1. /\ LockMutex(p)
          /\ UNCHANGED <<alive, rpc, mr_txnid, me_pgoldest>>
      BY <1>1 DEF BeginWrite, BeginPanics, procVars, readVars
    <2>2. mti_txnid' = Top.mm_txnid /\ mti_txnid <= Top.mm_txnid
      BY <2>1, RecoveredIsTop
    <2> QED
      BY <2>1, <2>2, LooksUp, Numbers
  <1>2. CASE (Work(p) \/ Commit(p) \/ Save(p)) /\ ~Abort(p)
    BY <1>2, MemoryLooks
  <1>3. CASE Abort(p) \/ CommitNothing(p) \/ Unlock(p)
    <2>1. UNCHANGED <<alive, rpc, mr_txnid, me_pgoldest, mti_txnid>>
      BY <1>3 DEF Abort, CommitNothing, Unlock, EndTxn, procVars,
         readVars
    <2> QED
      BY <2>1, KeepLooks
  <1>4. CASE FlushPage(p) \/ Flushed(p) \/ Sync(p) \/ WriteMeta(p) \/ SyncMeta(p)
    <2>1. UNCHANGED <<alive, rpc, mr_txnid, me_pgoldest, mti_txnid>>
      BY <1>4 DEF FlushPage, Flushed, Sync, WriteMeta, SyncMeta, CommitStep,
         procVars, readVars
    <2> QED
      BY <2>1, KeepLooks
  <1>5. CASE PublishTxnid(p)
    <2>1. UNCHANGED <<alive, rpc, mr_txnid, me_pgoldest>>
      BY <1>5 DEF PublishTxnid, CommitStep, procVars, readVars
    <2>2. mti_txnid' = Top.mm_txnid
      BY <1>5, PublishOrder
    <2>3. SomeAlive => mti_txnid <= Top.mm_txnid
      BY Numbers DEF OrderInv, PublishedOrdered
    <2> QED
      BY <2>1, <2>2, <2>3, LooksUp, Numbers
  <1> QED
    BY <1>1, <1>2, <1>3, <1>4, <1>5, NoFailure DEF Write

LEMMA NextLooks ==
    ASSUME IndInv, OrderInv, LooksOK, [Next]_vars, doubt' = "none"
    PROVE  LooksOK'
  <1>1. CASE UNCHANGED vars
    BY <1>1, KeepLooks DEF vars, lockVars, procVars, readVars
  <1>2. CASE SystemCrash
    BY <1>2 DEF SystemCrash, LooksOK, SomeAlive, Holding
  <1>3. ASSUME NEW p \in Procs, Read(p) \/ Write(p)
        PROVE  LooksOK'
    BY <1>3, ReadLooks, WriteLooks
  <1>4. ASSUME NEW p \in Procs, EnvSync(p) \/ ReaderCheck(p)
        PROVE  LooksOK'
    <2>1. UNCHANGED <<alive, rpc, mr_txnid, me_pgoldest, mti_txnid>>
      BY <1>4 DEF EnvSync, ReaderCheck, lockVars, procVars, readVars
    <2> QED
      BY <2>1, KeepLooks
  <1>5. ASSUME NEW p \in Procs, Crash(p)
        PROVE  LooksOK'
    <2>1. TypeOK
      BY DEF IndInv
    <2>2. /\ alive' = [alive EXCEPT ![p] = FALSE]
          /\ me_pgoldest' = [me_pgoldest EXCEPT ![p] = 0]
          /\ rpc' = [rpc EXCEPT ![p] = "idle"]
          /\ mr_txnid' = [mr_txnid EXCEPT ![p] = IDLE]
          /\ mti_txnid' = mti_txnid /\ alive[p]
      BY <1>5 DEF Crash
    <2>3. \A q \in Procs : rpc[q] \in Holding => mr_txnid[q] \in Nat
      BY <2>1 DEF LooksOK, TypeOK, LockTypeOK, Txnids
    <2>4. mti_txnid \in Nat
      BY Numbers
    <2> QED
      BY <2>1, <2>2, <2>3, <2>4
      DEF LooksOK, SomeAlive, TypeOK, ProcTypeOK, ReadTypeOK, LockTypeOK, Holding
  <1>6. ASSUME NEW p \in Procs, Open(p)
        PROVE  LooksOK'
    <2>1. /\ alive' = [alive EXCEPT ![p] = TRUE] /\ ~alive[p]
          /\ UNCHANGED <<mr_txnid, me_pgoldest, rpc>>
          /\ SomeAlive => UNCHANGED mti_txnid
      BY <1>6 DEF Open, readVars, SomeAlive
    <2>2. mti_txnid' \in Nat /\ alive \in [Procs -> BOOLEAN]
      BY <1>6, OpenInd DEF IndInv, TypeOK, LockTypeOK, ProcTypeOK, Txnids
    <2> QED
      BY <2>1, <2>2 DEF LooksOK, SomeAlive
  <1> QED
    BY <1>1, <1>2, <1>3, <1>4, <1>5, <1>6 DEF Next

-----------------------------------------------------------------------------
(* One use of every page: what the steps of a transaction do to its lists. *)
LEMMA TreeSet ==
    ASSUME TreeTypeOK, TreeOnce(mt_dbs), NEW n \in AllNodes, NEW pg \in Pgnos,
           ~InTree(pg, mt_dbs), mt_dbs' = [mt_dbs EXCEPT ![n] = pg]
    PROVE  /\ TreeOnce(mt_dbs')
           /\ \A x \in Pgnos :
                 InTree(x, mt_dbs') <=> x = pg \/ (InTree(x, mt_dbs) /\ x # mt_dbs[n])
  <1>1. \A a \in AllNodes : mt_dbs'[a] = IF a = n THEN pg ELSE mt_dbs[a]
    BY DEF TreeTypeOK, Dbs
  <1>2. P_INVALID \notin Pgnos
    BY ConstantTypes
  <1>3. TreeOnce(mt_dbs')
    BY <1>1, <1>2 DEF TreeOnce, InTree
  <1>4. ASSUME NEW x \in Pgnos
        PROVE  InTree(x, mt_dbs') <=> x = pg \/ (InTree(x, mt_dbs) /\ x # mt_dbs[n])
    BY <1>1, <1>2, <1>4 DEF TreeOnce, InTree
  <1> QED
    BY <1>3, <1>4

LEMMA TreeRemove ==
    ASSUME TreeTypeOK, TreeOnce(mt_dbs), NEW ns, Remove(ns)
    PROVE  /\ TreeOnce(mt_dbs')
           /\ \A x \in Pgnos :
                 InTree(x, mt_dbs') <=>
                     InTree(x, mt_dbs) /\ \A n \in ns \cap AllNodes : x # mt_dbs[n]
  <1>1. \A a \in AllNodes : mt_dbs'[a] = IF a \in ns THEN P_INVALID ELSE mt_dbs[a]
    BY DEF Remove
  <1>2. P_INVALID \notin Pgnos
    BY ConstantTypes
  <1>3. TreeOnce(mt_dbs')
    BY <1>1 DEF TreeOnce
  <1>4. ASSUME NEW x \in Pgnos
        PROVE  InTree(x, mt_dbs') <=>
                   InTree(x, mt_dbs) /\ \A n \in ns \cap AllNodes : x # mt_dbs[n]
    <2>1. ASSUME NEW a \in AllNodes, mt_dbs[a] = x, NEW n \in ns \cap AllNodes, mt_dbs[n] = x
          PROVE  a = n
      BY <1>2, <2>1 DEF TreeOnce
    <2> QED
      BY <1>1, <1>2, <2>1 DEF InTree
  <1> QED
    BY <1>3, <1>4

(* mdb_page_alloc takes a page from the stock, or the first that was never *)
(* used; nobody has it, and all else in the stock stays there.             *)
LEMMA AllocStock ==
    ASSUME IndInv, wpc \in Filling, WorkOnce, WorkCovers, ListsOK,
           NEW p \in Procs, NEW pg \in Pgnos, PageAlloc(p, pg),
           PgOldest(p) \in Nat, PgOldest(p) < mt_txnid,
           UNCHANGED <<freedb, mt_txnid>>
    PROVE  /\ ~InTree(pg, mt_dbs) /\ pg \notin mt_free_pgs /\ ~Stock(pg)'
           /\ \A x \in Pgnos : /\ x # pg => (Stock(x)' <=> Stock(x))
                               /\ StockOnce(x)'
                               /\ x < mt_next_pgno' <=> x < mt_next_pgno \/ x = pg
  <1>0. /\ TreeTypeOK /\ PageTypeOK /\ mt_txnid \in Txnids
        /\ Pgnos \subseteq Nat /\ Txnids \subseteq Nat /\ mt_next_pgno \in Nat
    BY WorkingTypes DEF Filling, Pgnos, Txnids, PageTypeOK
  <1>1. \A x \in Pgnos : StockOnce(x)
    BY DEF WorkOnce
  <1>2. CASE TakeLoose(pg)
    <2>1. /\ pg \in mt_loose_pgs /\ mt_loose_pgs' = mt_loose_pgs \ {pg}
          /\ UNCHANGED <<mt_next_pgno, me_pghead, me_pglast>>
      BY <1>2 DEF TakeLoose
    <2>2. Stock(pg)
      BY <2>1 DEF Stock
    <2>3. ~InTree(pg, mt_dbs) /\ pg \notin mt_free_pgs /\ pg < mt_next_pgno
      BY <2>2 DEF WorkOnce, WorkCovers
    <2>4. \A k \in Txnids : LiveRec(k)' = LiveRec(k)
      BY <2>1 DEF LiveRec
    <2> QED
      BY <1>1, <2>1, <2>3, <2>4 DEF Stock, StockOnce
  <1>3. CASE TakeHead(pg)
    <2>1. /\ pg \in me_pghead /\ me_pghead' = me_pghead \ {pg}
          /\ UNCHANGED <<mt_next_pgno, mt_loose_pgs, me_pglast>>
      BY <1>3 DEF TakeHead
    <2>2. Stock(pg)
      BY <2>1 DEF Stock
    <2>3. ~InTree(pg, mt_dbs) /\ pg \notin mt_free_pgs /\ pg < mt_next_pgno
      BY <2>2 DEF WorkOnce, WorkCovers
    <2>4. \A k \in Txnids : LiveRec(k)' = LiveRec(k)
      BY <2>1 DEF LiveRec
    <2> QED
      BY <1>1, <2>1, <2>3, <2>4 DEF Stock, StockOnce
  <1>4. CASE TakeRecord(p, pg)
    <2>1. PICK k \in Reclaimable(p) :
              /\ pg \in freedb[k] /\ me_pghead' = freedb[k] \ {pg} /\ me_pglast' = k
      BY <1>4 DEF TakeRecord
    <2>2. /\ me_pghead = {} /\ mt_loose_pgs = {}
          /\ UNCHANGED <<mt_next_pgno, mt_loose_pgs>>
      BY <1>4 DEF TakeRecord, NoPageLeft
    <2>3. /\ k \in Txnids /\ k > me_pglast /\ k < mt_txnid
          /\ \A j \in (me_pglast + 1)..(k - 1) : freedb[j] = {}
      BY <1>0 DEF Reclaimable, NextRecs
    <2>4. me_pglast \in Nat
      BY <1>0 DEF PageTypeOK
    <2>5. LiveRec(k) = freedb[k] /\ LiveRec(k)' = {}
      BY <1>0, <2>1, <2>3, <2>4 DEF LiveRec
    <2>6. \A j \in Txnids : j # k => LiveRec(j)' = LiveRec(j)
      <3> TAKE j \in Txnids
      <3> HAVE j # k
      <3>1. CASE j <= me_pglast
        BY <1>0, <2>1, <2>3, <2>4, <3>1 DEF LiveRec
      <3>2. CASE j > me_pglast /\ j < k
        <4>1. j \in (me_pglast + 1)..(k - 1)
          BY <1>0, <2>3, <2>4, <3>2
        <4>2. freedb[j] = {}
          BY <2>3, <4>1
        <4> QED
          BY <2>1, <3>2, <4>2 DEF LiveRec
      <3>3. CASE j > k
        BY <1>0, <2>1, <2>3, <2>4, <3>3 DEF LiveRec
      <3> QED
        BY <1>0, <2>3, <2>4, <3>1, <3>2, <3>3
    <2>7. Stock(pg)
      BY <2>1, <2>3, <2>5 DEF Stock
    <2>8. ~InTree(pg, mt_dbs) /\ pg \notin mt_free_pgs /\ pg < mt_next_pgno
      BY <2>7 DEF WorkOnce, WorkCovers
    <2>9. ~Stock(pg)'
      BY <1>1, <2>1, <2>2, <2>3, <2>5, <2>6 DEF Stock, StockOnce
    <2>10. \A x \in Pgnos : x # pg => (Stock(x)' <=> Stock(x))
      BY <2>1, <2>2, <2>3, <2>5, <2>6 DEF Stock
    <2>11. \A x \in Pgnos : StockOnce(x)'
      BY <1>1, <2>1, <2>2, <2>3, <2>5, <2>6 DEF StockOnce
    <2> QED
      BY <2>2, <2>8, <2>9, <2>10, <2>11
  <1>5. CASE TakeNew(p, pg)
    <2>1. /\ pg = mt_next_pgno /\ mt_next_pgno' = pg + 1
          /\ UNCHANGED <<mt_loose_pgs, me_pghead, me_pglast>>
      BY <1>5 DEF TakeNew
    <2>2. ~InTree(pg, mt_dbs) /\ pg \notin mt_free_pgs /\ ~Stock(pg)
      BY <1>0, <2>1 DEF WorkCovers
    <2>3. \A k \in Txnids : LiveRec(k)' = LiveRec(k)
      BY <2>1 DEF LiveRec
    <2>4. \A x \in Pgnos : (Stock(x)' <=> Stock(x)) /\ StockOnce(x)'
      BY <1>1, <2>1, <2>3 DEF Stock, StockOnce
    <2>5. \A x \in Pgnos : x < mt_next_pgno' <=> x < mt_next_pgno \/ x = pg
      BY <1>0, <2>1
    <2> QED
      BY <2>2, <2>4, <2>5
  <1> QED
    BY <1>2, <1>3, <1>4, <1>5 DEF PageAlloc

(* The pages that the step of a transaction may write or give to others.   *)
Loan(p, x) ==
    \/ x \in dirty_list \/ x \in me_pghead \/ x \in mt_loose_pgs
    \/ ~(x < mt_next_pgno)
    \/ \E k \in Txnids : k < PgOldest(p) /\ x \in freedb[k]

LEMMA AllocLists ==
    ASSUME IndInv, wpc \in Filling, ListsOK,
           NEW p \in Procs, NEW pg \in Pgnos, PageAlloc(p, pg),
           PgOldest(p) \in Nat, PgOldest(p) < mt_txnid
    PROVE  /\ Loan(p, pg)
           /\ dirty_list' = dirty_list \cup {pg}
           /\ mt_loose_pgs' \subseteq mt_loose_pgs
           /\ \A x \in Pgnos : x \in me_pghead' => Loan(p, x)
           /\ mt_next_pgno' \in Nat /\ mt_next_pgno <= mt_next_pgno'
           /\ me_pglast <= me_pglast' /\ me_pglast' < mt_txnid
           /\ me_pglast' = 0 => me_pghead' = {}
  <1>0. /\ PageTypeOK /\ mt_txnid \in Nat /\ me_pglast \in Nat
        /\ mt_next_pgno \in Nat /\ Txnids \subseteq Nat
        /\ mt_loose_pgs \subseteq dirty_list /\ me_pglast < mt_txnid
        /\ me_pglast = 0 => me_pghead = {}
    BY WorkingTypes DEF Filling, Txnids, PageTypeOK, ListsOK
  <1>1. CASE TakeLoose(pg)
    <2>1. /\ pg \in mt_loose_pgs /\ mt_loose_pgs' = mt_loose_pgs \ {pg}
          /\ UNCHANGED <<dirty_list, mt_next_pgno, me_pghead, me_pglast>>
      BY <1>1 DEF TakeLoose
    <2>2. dirty_list' = dirty_list \cup {pg}
      BY <1>0, <2>1
    <2> QED
      BY <1>0, <2>1, <2>2 DEF Loan
  <1>2. CASE TakeHead(pg)
    <2>1. /\ pg \in me_pghead /\ me_pghead' = me_pghead \ {pg}
          /\ dirty_list' = dirty_list \cup {pg}
          /\ UNCHANGED <<mt_next_pgno, mt_loose_pgs, me_pglast>>
      BY <1>2 DEF TakeHead
    <2> QED
      BY <1>0, <2>1 DEF Loan
  <1>3. CASE TakeRecord(p, pg)
    <2>1. PICK k \in Reclaimable(p) :
              /\ pg \in freedb[k] /\ me_pghead' = freedb[k] \ {pg} /\ me_pglast' = k
      BY <1>3 DEF TakeRecord
    <2>2. /\ dirty_list' = dirty_list \cup {pg}
          /\ UNCHANGED <<mt_next_pgno, mt_loose_pgs>>
      BY <1>3 DEF TakeRecord
    <2>3. k \in Txnids /\ k > me_pglast /\ k < PgOldest(p)
      BY DEF Reclaimable, NextRecs
    <2>4. \A x \in freedb[k] : Loan(p, x)
      BY <2>3 DEF Loan
    <2> QED
      BY <1>0, <2>1, <2>2, <2>3, <2>4
  <1>4. CASE TakeNew(p, pg)
    <2>1. /\ pg = mt_next_pgno /\ mt_next_pgno' = pg + 1
          /\ dirty_list' = dirty_list \cup {pg}
          /\ UNCHANGED <<mt_loose_pgs, me_pghead, me_pglast>>
      BY <1>4 DEF TakeNew
    <2>2. Loan(p, pg)
      BY <1>0, <2>1 DEF Loan
    <2> QED
      BY <1>0, <2>1, <2>2 DEF Loan
  <1> QED
    BY <1>1, <1>2, <1>3, <1>4 DEF PageAlloc

(* A touched node has a page of its own, and the page it had is freed.     *)
LEMMA TouchWork ==
    ASSUME IndInv, OrderInv, LooksOK, WorkInv, wpc \in Filling,
           NEW p \in Procs, NEW n \in AllNodes, Touch(p, n),
           UNCHANGED <<mt_txnid, begun, file>>
    PROVE  /\ WorkOnce' /\ WorkCovers'
           /\ mt_loose_pgs' \subseteq mt_loose_pgs
           /\ mt_loose_pgs' \subseteq dirty_list'
           /\ RecsOf(freedb', mt_txnid')
           /\ me_pglast <= me_pglast' /\ me_pglast' < mt_txnid'
           /\ me_pglast' = 0 => me_pghead' = {}
           /\ \A a \in AllNodes : mt_dbs'[a] # P_INVALID =>
                 IF mt_dbs'[a] \in dirty_list' THEN image'[a] = <<begun', a>>
                                              ELSE file'[mt_dbs'[a]] = image'[a]
           /\ \A x \in Pgnos :
                 x \in dirty_list' \/ x \in me_pghead' => Loan(p, x)
           /\ freedb' = freedb
           /\ mt_next_pgno' \in Nat /\ mt_next_pgno <= mt_next_pgno'
  <1>1. PICK pg \in Pgnos : /\ PageAlloc(p, pg)
                            /\ mt_dbs' = [mt_dbs EXCEPT ![n] = pg]
    BY DEF Touch
  <1>2. /\ mt_free_pgs' = mt_free_pgs \cup ({mt_dbs[n]} \ {P_INVALID})
        /\ image' = [image EXCEPT ![n] = <<begun, n>>]
        /\ freedb' = freedb
    BY DEF Touch, Freed
  <1>3. WorkOnce /\ WorkCovers /\ ListsOK /\ WrittenOK /\ wpc \in Before /\ wpc # "idle"
    BY DEF WorkInv, Before, Filling
  <1>4. TreeTypeOK /\ PageTypeOK
    BY <1>3, WorkingTypes
  <1>5. PgOldest(p) \in Nat /\ PgOldest(p) < mt_txnid
    BY <1>3, PgOldestBound, WorkerOrder, Numbers
  <1>6. /\ ~InTree(pg, mt_dbs) /\ pg \notin mt_free_pgs /\ ~Stock(pg)'
        /\ \A x \in Pgnos : /\ x # pg => (Stock(x)' <=> Stock(x))
                            /\ StockOnce(x)'
                            /\ x < mt_next_pgno' <=> x < mt_next_pgno \/ x = pg
    BY <1>1, <1>2, <1>3, <1>5, AllocStock
  <1>7. /\ TreeOnce(mt_dbs')
        /\ \A x \in Pgnos :
              InTree(x, mt_dbs') <=> x = pg \/ (InTree(x, mt_dbs) /\ x # mt_dbs[n])
    BY <1>1, <1>3, <1>4, <1>6, TreeSet DEF WorkOnce
  <1>8. \A x \in Pgnos : /\ x # P_INVALID
                         /\ x = mt_dbs[n] => InTree(x, mt_dbs)
    BY ConstantTypes DEF InTree
  <1>9. \A x \in Pgnos : x \in mt_free_pgs' <=> x \in mt_free_pgs \/ x = mt_dbs[n]
    BY <1>2, <1>8
  <1>10. WorkOnce'
    <2>1. \A x \in Pgnos : /\ InTree(x, mt_dbs) => x \notin mt_free_pgs /\ ~Stock(x)
                           /\ x \in mt_free_pgs => ~Stock(x)
      BY <1>3 DEF WorkOnce
    <2>2. ASSUME NEW x \in Pgnos
          PROVE  /\ InTree(x, mt_dbs') => x \notin mt_free_pgs' /\ ~Stock(x)'
                 /\ x \in mt_free_pgs' => ~Stock(x)'
                 /\ StockOnce(x)'
      BY <1>6, <1>7, <1>8, <1>9, <2>1
    <2> QED
      BY <1>7, <2>2 DEF WorkOnce
  <1>11. WorkCovers'
    <2>1. \A x \in Pgnos :
            x < mt_next_pgno <=> InTree(x, mt_dbs) \/ x \in mt_free_pgs \/ Stock(x)
      BY <1>3 DEF WorkCovers
    <2>2. ASSUME NEW x \in Pgnos
          PROVE  x < mt_next_pgno' <=>
                     InTree(x, mt_dbs') \/ x \in mt_free_pgs' \/ Stock(x)'
      BY <1>6, <1>7, <1>8, <1>9, <2>1
    <2> QED
      BY <2>2 DEF WorkCovers
  <1>12. /\ Loan(p, pg)
         /\ dirty_list' = dirty_list \cup {pg}
         /\ mt_loose_pgs' \subseteq mt_loose_pgs
         /\ \A x \in Pgnos : x \in me_pghead' => Loan(p, x)
         /\ mt_next_pgno' \in Nat /\ mt_next_pgno <= mt_next_pgno'
         /\ me_pglast <= me_pglast' /\ me_pglast' < mt_txnid
         /\ me_pglast' = 0 => me_pghead' = {}
    BY <1>1, <1>3, <1>5, AllocLists
  <1>13. mt_loose_pgs \subseteq dirty_list /\ RecsOf(freedb, mt_txnid)
    BY <1>3 DEF ListsOK
  <1>14. ASSUME NEW a \in AllNodes, mt_dbs'[a] # P_INVALID
         PROVE  IF mt_dbs'[a] \in dirty_list' THEN image'[a] = <<begun', a>>
                                             ELSE file'[mt_dbs'[a]] = image'[a]
    <2>1. CASE a = n
      <3>1. mt_dbs'[a] = pg /\ image'[a] = <<begun, a>>
        BY <1>1, <1>2, <1>4, <2>1 DEF TreeTypeOK, Dbs, Images
      <3> QED
        BY <1>12, <3>1
    <2>2. CASE a # n
      <3>1. mt_dbs'[a] = mt_dbs[a] /\ image'[a] = image[a]
        BY <1>1, <1>2, <1>4, <2>2 DEF TreeTypeOK, Dbs, Images
      <3>2. mt_dbs[a] # pg
        BY <1>6 DEF InTree
      <3> QED
        BY <1>3, <1>12, <1>14, <3>1, <3>2 DEF WrittenOK
    <2> QED
      BY <2>1, <2>2
  <1>15. \A x \in Pgnos : x \in dirty_list' => Loan(p, x)
    BY <1>12 DEF Loan
  <1>16. mt_loose_pgs' \subseteq dirty_list' /\ RecsOf(freedb', mt_txnid')
    BY <1>2, <1>12, <1>13
  <1> QED
    BY <1>2, <1>10, <1>11, <1>12, <1>14, <1>15, <1>16

-----------------------------------------------------------------------------
(* What a step of a transaction takes for itself or gives to others was    *)
(* its own, never used, or in a record that no reader holds back.          *)
Takes(p) ==
    /\ mt_next_pgno' \in Nat /\ mt_next_pgno <= mt_next_pgno'
    /\ \A x \in Pgnos :
          /\ x \in dirty_list' \/ x \in me_pghead' \/ x \in mt_loose_pgs' => Loan(p, x)
          /\ \A k \in Txnids \ {mt_txnid} :
                x \in freedb'[k] => x \in freedb[k] \/ Loan(p, x)

Placed(x) ==
    InTree(x, mt_dbs) \/ x \in mt_free_pgs \/ x \in me_pghead \/ x \in mt_loose_pgs

PlacedOnce(x) ==
    /\ InTree(x, mt_dbs) => x \notin mt_free_pgs \cup me_pghead \cup mt_loose_pgs
    /\ x \in mt_free_pgs => x \notin me_pghead \cup mt_loose_pgs
    /\ x \in me_pghead => x \notin mt_loose_pgs

LEMMA WorkPlaced ==
    ASSUME WorkOnce, NEW x \in Pgnos
    PROVE  PlacedOnce(x)
  BY DEF WorkOnce, PlacedOnce, Stock, StockOnce

(* A step that moves pages from one list to another. *)
LEMMA Moved ==
    ASSUME WorkOnce, WorkCovers, TreeOnce(mt_dbs'), UNCHANGED mt_next_pgno,
           \A k \in Txnids : LiveRec(k)' = LiveRec(k),
           \A x \in Pgnos : (Placed(x)' <=> Placed(x)) /\ PlacedOnce(x)'
    PROVE  WorkOnce' /\ WorkCovers'
  <1>1. ASSUME NEW x \in Pgnos
        PROVE  /\ InTree(x, mt_dbs') => x \notin mt_free_pgs' /\ ~Stock(x)'
               /\ x \in mt_free_pgs' => ~Stock(x)'
               /\ StockOnce(x)'
               /\ x < mt_next_pgno' <=>
                     InTree(x, mt_dbs') \/ x \in mt_free_pgs' \/ Stock(x)'
    <2>1. (Placed(x)' <=> Placed(x)) /\ PlacedOnce(x)'
      OBVIOUS
    <2>2. /\ InTree(x, mt_dbs) => ~Stock(x)
          /\ x \in mt_free_pgs => ~Stock(x)
          /\ StockOnce(x)
          /\ x < mt_next_pgno <=>
                InTree(x, mt_dbs) \/ x \in mt_free_pgs \/ Stock(x)
      BY DEF WorkOnce, WorkCovers
    <2>3. Placed(x) => \A k \in Txnids : x \notin LiveRec(k)
      BY <2>2 DEF Placed, Stock, StockOnce
    <2>4. \A k \in Txnids : x \in LiveRec(k) => \A j \in Txnids : x \in LiveRec(j) => j = k
      BY <2>2 DEF StockOnce
    <2> HIDE DEF LiveRec
    <2> QED
      BY <2>1, <2>2, <2>3, <2>4 DEF Placed, PlacedOnce, Stock, StockOnce
  <1> QED
    BY <1>1 DEF WorkOnce, WorkCovers

LEMMA KeepWritten ==
    ASSUME WrittenOK, wpc \in Before, UNCHANGED <<file, begun>>,
           \A a \in AllNodes : mt_dbs'[a] # P_INVALID =>
               /\ mt_dbs'[a] = mt_dbs[a] /\ image'[a] = image[a]
               /\ mt_dbs[a] \in dirty_list' <=> mt_dbs[a] \in dirty_list
    PROVE  WrittenOK'
  BY DEF WrittenOK

(* What is in memory stays in memory. *)
LEMMA MemoryIs ==
    ASSUME IndInv, WorkInv, wpc \in Filling, InMemory
    PROVE  /\ UNCHANGED <<mt_txnid, begun, file>>
           /\ WorkOnce /\ WorkCovers /\ ListsOK /\ WrittenOK /\ wpc \in Before
           /\ TreeTypeOK /\ PageTypeOK /\ mt_txnid \in Nat /\ mt_txnid > 0
           /\ mt_txnid \in Txnids /\ me_pglast \in Nat /\ mt_next_pgno \in Nat
           /\ mt_loose_pgs \subseteq dirty_list /\ RecsOf(freedb, mt_txnid)
           /\ me_pglast < mt_txnid /\ (me_pglast = 0 => me_pghead = {})
  <1>1. wpc # "idle" /\ wpc \in Before
    BY DEF Filling, Before
  <1>2. UNCHANGED <<mt_txnid, begun, file>>
    BY DEF InMemory, fileVars
  <1>3. /\ TreeTypeOK /\ PageTypeOK /\ mt_txnid \in Txnids /\ mt_txnid > 0
        /\ mt_txnid \in Nat
    BY <1>1, WorkingTypes DEF Txnids
  <1>4. me_pglast \in Nat /\ mt_next_pgno \in Nat
    BY <1>3 DEF PageTypeOK, Txnids
  <1> QED
    BY <1>1, <1>2, <1>3, <1>4 DEF WorkInv, ListsOK

LEMMA WriteNodeWork ==
    ASSUME IndInv, OrderInv, LooksOK, WorkInv, NEW p \in Procs,
           NEW n \in Nodes, WriteNode(p, n)
    PROVE  WorkInv' /\ Takes(p)
  <1>1. wpc = "work" /\ wpc' = "work" /\ Touch(p, n) /\ InMemory
    BY DEF WriteNode, Owner
  <1>2. /\ wpc \in Filling /\ UNCHANGED <<mt_txnid, begun, file>> /\ n \in AllNodes
        /\ mt_loose_pgs \subseteq dirty_list
    BY <1>1, MemoryIs, RootIsNode DEF Filling
  <1>3. /\ WorkOnce' /\ WorkCovers'
        /\ mt_loose_pgs' \subseteq mt_loose_pgs
        /\ mt_loose_pgs' \subseteq dirty_list'
        /\ RecsOf(freedb', mt_txnid')
        /\ me_pglast <= me_pglast' /\ me_pglast' < mt_txnid'
        /\ me_pglast' = 0 => me_pghead' = {}
        /\ \A a \in AllNodes : mt_dbs'[a] # P_INVALID =>
              IF mt_dbs'[a] \in dirty_list' THEN image'[a] = <<begun', a>>
                                           ELSE file'[mt_dbs'[a]] = image'[a]
        /\ \A x \in Pgnos :
              x \in dirty_list' \/ x \in me_pghead' => Loan(p, x)
        /\ freedb' = freedb
        /\ mt_next_pgno' \in Nat /\ mt_next_pgno <= mt_next_pgno'
    BY <1>1, <1>2, TouchWork
  <1>4. ListsOK' /\ WrittenOK'
    BY <1>1, <1>3 DEF ListsOK, WrittenOK, Filled
  <1>5. Takes(p)
    BY <1>3 DEF Takes
  <1> QED
    BY <1>1, <1>3, <1>4, <1>5 DEF WorkInv, Filled

(* A tree loses nodes: their pages are freed, loose, or old pages again.   *)
LEMMA RemoveWork ==
    ASSUME IndInv, WorkInv, NEW p \in Procs, wpc = "work",
           NEW ns \in SUBSET AllNodes, RemoveStep(ns),
           \A x \in Pgnos : Placed(x)' <=> Placed(x),
           \A x \in Pgnos : PlacedOnce(x)',
           dirty_list' \subseteq dirty_list,
           \A a \in AllNodes \ ns : mt_dbs[a] \in dirty_list => mt_dbs[a] \in dirty_list',
           mt_loose_pgs' \subseteq dirty_list',
           \A x \in Pgnos : x \in me_pghead' => Loan(p, x),
           me_pglast = 0 => me_pghead' = {}
    PROVE  WorkInv' /\ Takes(p)
  <1>1. /\ Remove(ns) /\ InMemory /\ wpc' = wpc
        /\ UNCHANGED <<me_pgoldest, freedb, mt_next_pgno, me_pglast>>
    BY DEF RemoveStep
  <1>2. wpc \in Filling
    BY DEF Filling
  <1>3. /\ UNCHANGED <<mt_txnid, begun, file>>
        /\ WorkOnce /\ WorkCovers /\ ListsOK /\ WrittenOK /\ wpc \in Before
        /\ TreeTypeOK /\ mt_next_pgno \in Nat
        /\ mt_loose_pgs \subseteq dirty_list /\ RecsOf(freedb, mt_txnid)
        /\ me_pglast < mt_txnid
    BY <1>1, <1>2, MemoryIs
  <1>4. TreeOnce(mt_dbs')
    BY <1>1, <1>3, TreeRemove DEF WorkOnce
  <1>5. \A k \in Txnids : LiveRec(k)' = LiveRec(k)
    BY <1>1, <1>3 DEF LiveRec
  <1>6. WorkOnce' /\ WorkCovers'
    BY <1>1, <1>3, <1>4, <1>5, Moved
  <1>7. \A a \in AllNodes : mt_dbs'[a] # P_INVALID =>
               /\ mt_dbs'[a] = mt_dbs[a] /\ image'[a] = image[a]
               /\ mt_dbs[a] \in dirty_list' <=> mt_dbs[a] \in dirty_list
    BY <1>1 DEF Remove
  <1>8. WrittenOK'
    BY <1>3, <1>7, KeepWritten
  <1>9. ListsOK'
    BY <1>1, <1>3 DEF ListsOK, Filled
  <1>10. Takes(p)
    BY <1>1, <1>3 DEF Takes, Loan
  <1> QED
    BY <1>1, <1>6, <1>8, <1>9, <1>10 DEF WorkInv, Filled

LEMMA RemoveOne ==
    ASSUME TreeTypeOK, TreeOnce(mt_dbs), NEW n \in Nodes, Remove({n})
    PROVE  \A x \in Pgnos :
              InTree(x, mt_dbs') <=> InTree(x, mt_dbs) /\ x # mt_dbs[n]
  <1>1. \A x \in Pgnos : InTree(x, mt_dbs') <=>
              InTree(x, mt_dbs) /\ \A m \in {n} \cap AllNodes : x # mt_dbs[m]
    BY TreeRemove
  <1> QED
    BY <1>1, RootIsNode

LEMMA LoosePageWork ==
    ASSUME IndInv, WorkInv, NEW p \in Procs, NEW n \in Nodes, LoosePage(p, n)
    PROVE  WorkInv' /\ Takes(p)
  <1>1. /\ wpc = "work" /\ RemoveStep({n}) /\ Remove({n}) /\ InMemory
        /\ UNCHANGED <<dirty_list, me_pghead>>
        /\ mt_dbs[n] # P_INVALID
    BY DEF LoosePage, Owner, RemoveStep, Below
  <1>2. wpc \in Filling /\ {n} \in SUBSET AllNodes /\ n \in AllNodes
    BY <1>1, RootIsNode DEF Filling
  <1>3. /\ WorkOnce /\ TreeTypeOK /\ mt_loose_pgs \subseteq dirty_list
        /\ me_pglast = 0 => me_pghead = {}
    BY <1>1, <1>2, MemoryIs
  <1>4. mt_dbs[n] \in Pgnos /\ InTree(mt_dbs[n], mt_dbs)
    BY <1>1, <1>2, <1>3, PageOf DEF InTree
  <1>5. \A x \in Pgnos : InTree(x, mt_dbs') <=> InTree(x, mt_dbs) /\ x # mt_dbs[n]
    BY <1>1, <1>3, RemoveOne DEF WorkOnce
  <1>6. \A x \in Pgnos : PlacedOnce(x)
    BY <1>3, WorkPlaced
  <1>7. /\ \A x \in Pgnos : (Placed(x)' <=> Placed(x)) /\ PlacedOnce(x)'
        /\ mt_loose_pgs' \subseteq dirty_list'
    <2>1. CASE Dirty(n)
      <3>1. mt_loose_pgs' = mt_loose_pgs \cup {mt_dbs[n]} /\ mt_free_pgs' = mt_free_pgs
        BY <2>1 DEF LoosePage
      <3> QED
        BY <1>1, <1>3, <1>4, <1>5, <1>6, <2>1, <3>1 DEF Placed, PlacedOnce, Dirty
    <2>2. CASE ~Dirty(n)
      <3>1. mt_loose_pgs' = mt_loose_pgs /\ mt_free_pgs' = mt_free_pgs \cup {mt_dbs[n]}
        BY <1>1, <2>2 DEF LoosePage, Freed
      <3> QED
        BY <1>1, <1>3, <1>4, <1>5, <1>6, <3>1 DEF Placed, PlacedOnce
    <2> QED
      BY <2>1, <2>2
  <1>8. \A x \in Pgnos : x \in me_pghead' => Loan(p, x)
    BY <1>1 DEF Loan
  <1> QED
    BY <1>1, <1>2, <1>3, <1>7, <1>8, RemoveWork

LEMMA FreeOverflowWork ==
    ASSUME IndInv, WorkInv, NEW p \in Procs, NEW n \in Nodes, FreeOverflow(p, n)
    PROVE  WorkInv' /\ Takes(p)
  <1>1. /\ wpc = "work" /\ RemoveStep({n}) /\ Remove({n}) /\ InMemory
        /\ UNCHANGED mt_loose_pgs
        /\ mt_dbs[n] # P_INVALID
    BY DEF FreeOverflow, Owner, RemoveStep, Below
  <1>2. wpc \in Filling /\ {n} \in SUBSET AllNodes /\ n \in AllNodes
    BY <1>1, RootIsNode DEF Filling
  <1>3. /\ WorkOnce /\ TreeTypeOK /\ mt_loose_pgs \subseteq dirty_list
        /\ me_pglast = 0 => me_pghead = {}
    BY <1>1, <1>2, MemoryIs
  <1>4. mt_dbs[n] \in Pgnos /\ InTree(mt_dbs[n], mt_dbs)
    BY <1>1, <1>2, <1>3, PageOf DEF InTree
  <1>5. \A x \in Pgnos : InTree(x, mt_dbs') <=> InTree(x, mt_dbs) /\ x # mt_dbs[n]
    BY <1>1, <1>3, RemoveOne DEF WorkOnce
  <1>6. \A x \in Pgnos : PlacedOnce(x)
    BY <1>3, WorkPlaced
  <1>7. /\ \A x \in Pgnos : (Placed(x)' <=> Placed(x)) /\ PlacedOnce(x)'
        /\ mt_loose_pgs' \subseteq dirty_list' /\ dirty_list' \subseteq dirty_list
        /\ \A a \in AllNodes \ {n} : mt_dbs[a] \in dirty_list => mt_dbs[a] \in dirty_list'
        /\ \A x \in Pgnos : x \in me_pghead' => Loan(p, x)
        /\ me_pglast = 0 => me_pghead' = {}
    <2>1. CASE me_pglast > 0 /\ Dirty(n)
      <3>1. /\ me_pghead' = me_pghead \cup {mt_dbs[n]} /\ mt_free_pgs' = mt_free_pgs
            /\ dirty_list' = dirty_list \ {mt_dbs[n]}
        BY <2>1 DEF FreeOverflow
      <3>2. mt_dbs[n] \notin mt_loose_pgs
        BY <1>4, <1>6 DEF PlacedOnce
      <3>3. \A a \in AllNodes \ {n} : mt_dbs[a] # mt_dbs[n]
        BY <1>1, <1>2, <1>3 DEF WorkOnce, TreeOnce
      <3>4. \A x \in Pgnos : (Placed(x)' <=> Placed(x)) /\ PlacedOnce(x)'
        BY <1>1, <1>4, <1>5, <1>6, <3>1 DEF Placed, PlacedOnce
      <3>5. \A x \in Pgnos : x \in me_pghead' => Loan(p, x)
        BY <2>1, <3>1 DEF Loan, Dirty
      <3>6. me_pglast # 0
        BY <2>1
      <3> QED
        BY <1>1, <1>3, <3>1, <3>2, <3>3, <3>4, <3>5, <3>6
    <2>2. CASE ~(me_pglast > 0 /\ Dirty(n))
      <3>1. /\ mt_free_pgs' = mt_free_pgs \cup {mt_dbs[n]}
            /\ UNCHANGED <<me_pghead, dirty_list>>
        BY <1>1, <2>2 DEF FreeOverflow, Freed
      <3>2. \A x \in Pgnos : (Placed(x)' <=> Placed(x)) /\ PlacedOnce(x)'
        BY <1>1, <1>4, <1>5, <1>6, <3>1 DEF Placed, PlacedOnce
      <3> QED
        BY <1>1, <1>3, <3>1, <3>2 DEF Loan
    <2> QED
      BY <2>1, <2>2
  <1> QED
    BY <1>1, <1>2, <1>3, <1>7, RemoveWork

LEMMA EmptiesWork ==
    ASSUME IndInv, WorkInv, NEW p \in Procs, EmptyRoot(p) \/ Drop(p)
    PROVE  WorkInv' /\ Takes(p)
  <1>1. /\ wpc = "work" /\ InMemory
        /\ \E ns \in SUBSET AllNodes : RemoveStep(ns) /\ Freed({mt_dbs[n] : n \in ns})
        /\ UNCHANGED <<dirty_list, mt_loose_pgs, me_pghead>>
    <2>1. CASE EmptyRoot(p)
      <3>1. {mt_dbs[n] : n \in {Root}} = {mt_dbs[Root]}
        OBVIOUS
      <3>2. RemoveStep({Root}) /\ Freed({mt_dbs[n] : n \in {Root}})
        BY <2>1, <3>1 DEF EmptyRoot
      <3>3. {Root} \in SUBSET AllNodes
        BY RootIsNode
      <3> QED
        BY <2>1, <3>2, <3>3 DEF EmptyRoot, Owner, RemoveStep
    <2>2. CASE Drop(p)
      <3>1. RemoveStep(Nodes) /\ Freed({mt_dbs[n] : n \in Nodes})
        BY <2>2 DEF Drop
      <3> QED
        BY <2>2, <3>1, RootIsNode DEF Drop, Owner, RemoveStep
    <2> QED
      BY <2>1, <2>2
  <1>2. PICK ns \in SUBSET AllNodes : RemoveStep(ns) /\ Freed({mt_dbs[n] : n \in ns})
    BY <1>1
  <1>3. wpc \in Filling /\ Remove(ns)
    BY <1>1, <1>2 DEF Filling, RemoveStep
  <1>4. /\ WorkOnce /\ TreeTypeOK /\ mt_loose_pgs \subseteq dirty_list
        /\ me_pglast = 0 => me_pghead = {}
    BY <1>1, <1>3, MemoryIs
  <1>5. \A x \in Pgnos :
            InTree(x, mt_dbs') <=> InTree(x, mt_dbs) /\ \A n \in ns \cap AllNodes : x # mt_dbs[n]
    BY <1>3, <1>4, TreeRemove DEF WorkOnce
  <1>6. \A x \in Pgnos :
            /\ x \in mt_free_pgs' <=> x \in mt_free_pgs \/ \E n \in ns : x = mt_dbs[n]
            /\ (\E n \in ns : x = mt_dbs[n]) => InTree(x, mt_dbs)
            /\ PlacedOnce(x)
    BY <1>2, <1>4, ConstantTypes, WorkPlaced DEF Freed, InTree
  <1>7. \A x \in Pgnos : (Placed(x)' <=> Placed(x)) /\ PlacedOnce(x)'
    BY <1>1, <1>5, <1>6 DEF Placed, PlacedOnce
  <1>8. \A x \in Pgnos : x \in me_pghead' => Loan(p, x)
    BY <1>1 DEF Loan
  <1> QED
    BY <1>1, <1>2, <1>4, <1>7, <1>8, RemoveWork

(* A step that only moves the transaction on. *)
LEMMA GoesOnWork ==
    ASSUME IndInv, WorkInv, NEW p \in Procs, wpc \in Filling, InMemory,
           UNCHANGED <<treeVars, pageVars>>,
           wpc' \in Filling, wpc' \in {"loop", "put"} => wpc \in {"loop", "put"}
    PROVE  WorkInv' /\ Takes(p)
  <1>1. /\ UNCHANGED <<mt_txnid, begun, file>>
        /\ WorkOnce /\ WorkCovers /\ ListsOK /\ WrittenOK /\ wpc \in Before
        /\ mt_next_pgno \in Nat
        /\ mt_loose_pgs \subseteq dirty_list /\ RecsOf(freedb, mt_txnid)
        /\ me_pglast < mt_txnid /\ (me_pglast = 0 => me_pghead = {})
    BY MemoryIs
  <1>2. /\ UNCHANGED <<mt_dbs, image, freedb, mt_next_pgno, dirty_list>>
        /\ UNCHANGED <<mt_free_pgs, mt_loose_pgs, me_pghead, me_pglast>>
    BY DEF treeVars, pageVars
  <1>3. \A k : LiveRec(k)' = LiveRec(k)
    BY <1>1, <1>2 DEF LiveRec
  <1>4. \A x : (Stock(x)' <=> Stock(x)) /\ (StockOnce(x)' <=> StockOnce(x))
    BY <1>2, <1>3 DEF Stock, StockOnce
  <1>5. WorkOnce' /\ WorkCovers'
    BY <1>1, <1>2, <1>4 DEF WorkOnce, WorkCovers
  <1>6. WrittenOK'
    BY <1>1, <1>2, KeepWritten
  <1>7. ListsOK'
    BY <1>1, <1>2 DEF ListsOK, Filling, Filled
  <1>8. Takes(p)
    BY <1>1, <1>2 DEF Takes, Loan
  <1> QED
    BY <1>5, <1>6, <1>7, <1>8 DEF WorkInv, Filling, Filled

LEMMA FailsWork ==
    ASSUME IndInv, WorkInv, NEW p \in Procs, WriteFails(p) \/ SaveFails(p)
    PROVE  WorkInv' /\ Takes(p)
  <1>1. /\ wpc \in Filling /\ wpc' = "error" /\ InMemory
        /\ UNCHANGED <<treeVars, pageVars>>
    BY DEF WriteFails, SaveFails, MapFull, Owner, Filling
  <1> QED
    BY <1>1, GoesOnWork DEF Filling

LEMMA CommitWork ==
    ASSUME IndInv, WorkInv, NEW p \in Procs, Commit(p)
    PROVE  WorkInv' /\ Takes(p)
  <1>1. /\ wpc \in Filling /\ wpc' = "save" /\ InMemory
        /\ UNCHANGED <<treeVars, pageVars>>
    BY DEF Commit, Owner, Filling
  <1> QED
    BY <1>1, GoesOnWork DEF Filling

(* mdb_freelist_save touches the freeDB. *)
LEMMA SaveTouchWork ==
    ASSUME IndInv, OrderInv, LooksOK, WorkInv, NEW p \in Procs,
           wpc \in {"save", "loop"}, wpc' \in {"loop", "put"},
           InMemory, Touch(p, FreeDB), wpc = "save" => me_pglast > 0
    PROVE  WorkInv' /\ Takes(p)
  <1>1. /\ wpc \in Filling /\ UNCHANGED <<mt_txnid, begun, file>>
        /\ FreeDB \in AllNodes /\ me_pglast \in Nat
        /\ me_pglast = 0 => mt_loose_pgs = {}
        /\ mt_loose_pgs \subseteq dirty_list
    <2>1. wpc \in Filling /\ FreeDB \in AllNodes
      BY RootIsNode DEF Filling
    <2>2. /\ UNCHANGED <<mt_txnid, begun, file>> /\ me_pglast \in Nat /\ ListsOK
          /\ mt_loose_pgs \subseteq dirty_list
      BY <2>1, MemoryIs
    <2> QED
      BY <2>1, <2>2 DEF ListsOK
  <1>2. /\ WorkOnce' /\ WorkCovers'
        /\ mt_loose_pgs' \subseteq mt_loose_pgs
        /\ mt_loose_pgs' \subseteq dirty_list'
        /\ RecsOf(freedb', mt_txnid')
        /\ me_pglast <= me_pglast' /\ me_pglast' < mt_txnid'
        /\ me_pglast' = 0 => me_pghead' = {}
        /\ \A a \in AllNodes : mt_dbs'[a] # P_INVALID =>
              IF mt_dbs'[a] \in dirty_list' THEN image'[a] = <<begun', a>>
                                           ELSE file'[mt_dbs'[a]] = image'[a]
        /\ \A x \in Pgnos :
              x \in dirty_list' \/ x \in me_pghead' => Loan(p, x)
        /\ freedb' = freedb
        /\ mt_next_pgno' \in Nat /\ mt_next_pgno <= mt_next_pgno'
    BY <1>1, TouchWork
  <1>3. me_pglast' = 0 => mt_loose_pgs' = {}
    BY <1>1, <1>2
  <1>4. ListsOK' /\ WrittenOK'
    BY <1>2, <1>3 DEF ListsOK, WrittenOK, Filled
  <1>5. Takes(p)
    BY <1>2 DEF Takes
  <1> QED
    BY <1>2, <1>4, <1>5 DEF WorkInv, Filled

LEMMA SaveLooseWork ==
    ASSUME IndInv, WorkInv, NEW p \in Procs, SaveLoose(p)
    PROVE  WorkInv' /\ Takes(p)
  <1>1. /\ wpc = "save" /\ wpc' = "loop" /\ InMemory /\ me_pglast = 0
        /\ Freed(mt_loose_pgs)
        /\ dirty_list' = dirty_list \ mt_loose_pgs /\ mt_loose_pgs' = {}
        /\ UNCHANGED <<treeVars, mt_next_pgno, me_pghead, me_pglast>>
    BY DEF SaveLoose, SaveStep, Owner
  <1>2. wpc \in Filling
    BY <1>1 DEF Filling
  <1>3. /\ UNCHANGED <<mt_txnid, begun, file, mt_dbs, image, freedb>>
        /\ WorkOnce /\ WorkCovers /\ ListsOK /\ WrittenOK /\ wpc \in Before
        /\ mt_next_pgno \in Nat /\ TreeTypeOK
        /\ mt_loose_pgs \subseteq dirty_list /\ RecsOf(freedb, mt_txnid)
        /\ me_pglast < mt_txnid /\ (me_pglast = 0 => me_pghead = {})
    BY <1>1, <1>2, MemoryIs DEF treeVars
  <1>4. \A k \in Txnids : LiveRec(k)' = LiveRec(k)
    BY <1>1, <1>3 DEF LiveRec
  <1>5. \A x \in Pgnos : x \in mt_free_pgs' <=> x \in mt_free_pgs \/ x \in mt_loose_pgs
    BY <1>1, ConstantTypes DEF Freed
  <1>6. \A x \in Pgnos : PlacedOnce(x)
    BY <1>3, WorkPlaced
  <1>7. \A x \in Pgnos : (Placed(x)' <=> Placed(x)) /\ PlacedOnce(x)'
    BY <1>1, <1>3, <1>5, <1>6 DEF Placed, PlacedOnce
  <1>8. WorkOnce' /\ WorkCovers'
    <2>1. TreeOnce(mt_dbs')
      BY <1>3 DEF WorkOnce
    <2> QED
      BY <1>1, <1>3, <1>4, <1>7, <2>1, Moved
  <1>9. WrittenOK'
    <2>1. ASSUME NEW a \in AllNodes, mt_dbs[a] # P_INVALID
          PROVE  mt_dbs[a] \notin mt_loose_pgs
      BY <1>3, <1>6, <2>1, PageOf DEF PlacedOnce, InTree
    <2> QED
      BY <1>1, <1>3, <2>1, KeepWritten
  <1>10. ListsOK'
    BY <1>1, <1>3 DEF ListsOK, Filled
  <1>11. Takes(p)
    BY <1>1, <1>3 DEF Takes, Loan
  <1> QED
    BY <1>1, <1>8, <1>9, <1>10, <1>11 DEF WorkInv, Filled

LEMMA SaveDeletesWork ==
    ASSUME IndInv, WorkInv, NEW p \in Procs, SaveDeletes(p)
    PROVE  WorkInv' /\ Takes(p)
  <1>1. /\ wpc = "loop" /\ wpc' = "loop" /\ InMemory
        /\ freedb' = [k \in Txnids |-> IF k <= me_pglast THEN {} ELSE freedb[k]]
        /\ \/ Remove({FreeDB}) /\ Freed({mt_dbs[FreeDB]})
           \/ UNCHANGED <<mt_dbs, image, mt_free_pgs>>
        /\ UNCHANGED <<mt_next_pgno, dirty_list, mt_loose_pgs, me_pghead, me_pglast>>
    BY DEF SaveDeletes, SaveStep, Owner
  <1>2. wpc \in Filling
    BY <1>1 DEF Filling
  <1>3. /\ UNCHANGED <<mt_txnid, begun, file>>
        /\ WorkOnce /\ WorkCovers /\ ListsOK /\ WrittenOK /\ wpc \in Before
        /\ mt_next_pgno \in Nat /\ TreeTypeOK /\ mt_txnid \in Txnids
        /\ mt_loose_pgs \subseteq dirty_list /\ RecsOf(freedb, mt_txnid)
        /\ me_pglast < mt_txnid /\ (me_pglast = 0 => me_pghead = {})
    BY <1>1, <1>2, MemoryIs
  <1>4. \A k \in Txnids : LiveRec(k)' = LiveRec(k)
    BY <1>1, <1>3 DEF LiveRec
  <1>5. \A x \in Pgnos : PlacedOnce(x)
    BY <1>3, WorkPlaced
  <1>6. /\ \A x \in Pgnos : (Placed(x)' <=> Placed(x)) /\ PlacedOnce(x)'
        /\ TreeOnce(mt_dbs')
        /\ \A a \in AllNodes : mt_dbs'[a] # P_INVALID =>
              mt_dbs'[a] = mt_dbs[a] /\ image'[a] = image[a]
    <2>1. CASE Remove({FreeDB}) /\ Freed({mt_dbs[FreeDB]})
      <3>1. /\ TreeOnce(mt_dbs')
            /\ \A x \in Pgnos : InTree(x, mt_dbs') <=>
                  InTree(x, mt_dbs) /\ \A m \in {FreeDB} \cap AllNodes : x # mt_dbs[m]
        BY <1>3, <2>1, TreeRemove DEF WorkOnce
      <3>2. \A x \in Pgnos : /\ InTree(x, mt_dbs') <=> InTree(x, mt_dbs) /\ x # mt_dbs[FreeDB]
                             /\ x = mt_dbs[FreeDB] => InTree(x, mt_dbs)
        BY <3>1, RootIsNode DEF InTree
      <3>3. \A x \in Pgnos : x \in mt_free_pgs' <=> x \in mt_free_pgs \/ x = mt_dbs[FreeDB]
        BY <2>1, ConstantTypes DEF Freed
      <3>4. \A x \in Pgnos : (Placed(x)' <=> Placed(x)) /\ PlacedOnce(x)'
        BY <1>1, <1>5, <3>2, <3>3 DEF Placed, PlacedOnce
      <3> QED
        BY <2>1, <3>1, <3>4 DEF Remove
    <2>2. CASE UNCHANGED <<mt_dbs, image, mt_free_pgs>>
      BY <1>1, <1>3, <1>5, <2>2 DEF Placed, PlacedOnce, WorkOnce
    <2> QED
      BY <1>1, <2>1, <2>2
  <1>7. WorkOnce' /\ WorkCovers'
    BY <1>1, <1>4, <1>3, <1>6, Moved
  <1>8. WrittenOK'
    BY <1>1, <1>3, <1>6, KeepWritten
  <1>9. RecsOf(freedb', mt_txnid)
    BY <1>1, <1>3 DEF RecsOf
  <1>10. ListsOK'
    BY <1>1, <1>3, <1>9 DEF ListsOK, Filled
  <1>11. Takes(p)
    BY <1>1, <1>3 DEF Takes, Loan
  <1> QED
    BY <1>1, <1>7, <1>8, <1>10, <1>11 DEF WorkInv, Filled

LEMMA SavePutsWork ==
    ASSUME IndInv, WorkInv, NEW p \in Procs, SavePuts(p)
    PROVE  WorkInv' /\ Takes(p)
  <1>1. /\ wpc = "put" /\ wpc' = "loop" /\ InMemory
        /\ freedb' = [freedb EXCEPT ![mt_txnid] = mt_free_pgs]
        /\ UNCHANGED <<mt_dbs, image, pageVars>>
    BY DEF SavePuts, SaveStep, Owner
  <1>2. wpc \in Filling
    BY <1>1 DEF Filling
  <1>3. /\ UNCHANGED <<mt_txnid, begun, file>>
        /\ UNCHANGED <<mt_next_pgno, dirty_list, mt_free_pgs, mt_loose_pgs>>
        /\ UNCHANGED <<me_pghead, me_pglast>>
        /\ WorkOnce /\ WorkCovers /\ ListsOK /\ WrittenOK /\ wpc \in Before
        /\ mt_next_pgno \in Nat /\ TreeTypeOK /\ mt_txnid \in Txnids
        /\ mt_txnid > 0 /\ mt_txnid \in Nat
        /\ mt_loose_pgs \subseteq dirty_list /\ RecsOf(freedb, mt_txnid)
        /\ me_pglast < mt_txnid /\ (me_pglast = 0 => me_pghead = {})
    BY <1>1, <1>2, MemoryIs DEF pageVars
  <1>4. \A k \in Txnids : k # mt_txnid => freedb'[k] = freedb[k]
    BY <1>1, <1>3 DEF TreeTypeOK, FreeRecs
  <1>5. \A k \in Txnids : LiveRec(k)' = LiveRec(k)
    BY <1>3, <1>4 DEF LiveRec
  <1>6. \A x \in Pgnos : PlacedOnce(x)
    BY <1>3, WorkPlaced
  <1>7. \A x \in Pgnos : (Placed(x)' <=> Placed(x)) /\ PlacedOnce(x)'
    BY <1>1, <1>3, <1>6 DEF Placed, PlacedOnce
  <1>8. WorkOnce' /\ WorkCovers'
    <2>1. TreeOnce(mt_dbs')
      BY <1>1, <1>3 DEF WorkOnce
    <2> QED
      BY <1>3, <1>5, <1>7, <2>1, Moved
  <1>9. WrittenOK'
    BY <1>1, <1>3, KeepWritten
  <1>10. RecsOf(freedb', mt_txnid)
    <2>1. \A k \in Txnids : k = 0 \/ k > mt_txnid => k # mt_txnid
      BY <1>3
    <2> QED
      BY <1>3, <1>4, <2>1 DEF RecsOf
  <1>11. ListsOK'
    BY <1>1, <1>2, <1>3, <1>10 DEF ListsOK, Filled
  <1>12. Takes(p)
    BY <1>3, <1>4 DEF Takes, Loan
  <1> QED
    BY <1>1, <1>8, <1>9, <1>11, <1>12 DEF WorkInv, Filled

(* What is saved at the end: each page up to the last is in the tree or in *)
(* one record.                                                             *)
LEMMA SaveReturnsWork ==
    ASSUME IndInv, WorkInv, NEW p \in Procs, SaveReturns(p)
    PROVE  WorkInv' /\ Takes(p)
  <1>1. /\ wpc = "loop" /\ wpc' = "flush" /\ InMemory
        /\ ~Consumed /\ ~Unsaved
        /\ freedb' = [freedb EXCEPT ![me_pglast] = me_pghead \cup mt_loose_pgs]
        /\ me_pghead' = {} /\ mt_loose_pgs' = {}
        /\ dirty_list' = dirty_list \ mt_loose_pgs
        /\ UNCHANGED <<mt_dbs, image, mt_next_pgno, mt_free_pgs, me_pglast>>
    BY DEF SaveReturns, SaveStep, Owner
  <1>2. wpc \in Filling
    BY <1>1 DEF Filling
  <1>3. /\ UNCHANGED <<mt_txnid, begun, file>>
        /\ WorkOnce /\ WorkCovers /\ ListsOK /\ WrittenOK /\ wpc \in Before
        /\ mt_next_pgno \in Nat /\ TreeTypeOK /\ PageTypeOK /\ mt_txnid \in Txnids
        /\ mt_txnid > 0 /\ mt_txnid \in Nat /\ me_pglast \in Nat
        /\ mt_loose_pgs \subseteq dirty_list /\ RecsOf(freedb, mt_txnid)
        /\ me_pglast < mt_txnid /\ (me_pglast = 0 => me_pghead = {})
        /\ me_pglast = 0 => mt_loose_pgs = {}
    <2>1. ListsOK
      BY <1>1, <1>2, MemoryIs
    <2>2. me_pglast = 0 => mt_loose_pgs = {}
      BY <1>1, <1>2, <2>1 DEF ListsOK
    <2> QED
      BY <1>1, <1>2, <2>2, MemoryIs
  <1>4. Txnids \subseteq Nat /\ Pgnos \subseteq Nat /\ me_pglast \in Txnids
    BY <1>3 DEF Txnids, Pgnos, PageTypeOK
  <1>5. \A k \in Txnids :
           freedb'[k] = IF k = me_pglast THEN me_pghead \cup mt_loose_pgs
                        ELSE IF k = mt_txnid THEN mt_free_pgs
                        ELSE LiveRec(k)
    <2> TAKE k \in Txnids
    <2>1. CASE k = me_pglast
      BY <1>1, <1>3, <1>4, <2>1 DEF TreeTypeOK, FreeRecs
    <2>2. CASE k = mt_txnid
      BY <1>1, <1>3, <1>4, <2>2 DEF TreeTypeOK, FreeRecs, Unsaved
    <2>3. CASE k # me_pglast /\ k # mt_txnid
      <3>1. freedb'[k] = freedb[k]
        BY <1>1, <1>3, <1>4, <2>3 DEF TreeTypeOK, FreeRecs
      <3>2. CASE k > me_pglast
        BY <1>4, <2>3, <3>1, <3>2, <1>3 DEF LiveRec
      <3>3. CASE k < me_pglast /\ k > 0
        <4>1. k \in 1..me_pglast
          BY <1>3, <1>4, <3>3
        <4>2. freedb[k] = {}
          BY <1>1, <4>1 DEF Consumed
        <4> QED
          BY <1>3, <1>4, <2>3, <3>1, <3>3, <4>2 DEF LiveRec
      <3>4. CASE k = 0
        BY <1>3, <1>4, <2>3, <3>1, <3>4 DEF LiveRec, RecsOf
      <3> QED
        BY <1>3, <1>4, <2>3, <3>2, <3>3, <3>4
    <2> QED
      BY <1>3, <2>1, <2>2, <2>3
  <1>6. /\ NewMeta'.mm_dbs = mt_dbs /\ NewMeta'.freedb = freedb'
        /\ NewMeta'.mm_txnid = mt_txnid /\ NewMeta'.mm_last_pg = mt_next_pgno - 1
    BY <1>1, <1>3 DEF NewMeta, MetaOf
  <1>7. RecsOf(freedb', mt_txnid)
    <2>1. ASSUME NEW k \in Txnids, k = 0
          PROVE  freedb'[k] = {}
      BY <1>3, <1>4, <1>5, <2>1 DEF LiveRec
    <2>2. ASSUME NEW k \in Txnids, k > mt_txnid
          PROVE  freedb'[k] = {}
      <3>1. freedb[k] = {}
        BY <1>3, <2>2 DEF RecsOf
      <3>2. k # me_pglast /\ k # mt_txnid
        BY <1>3, <1>4, <2>2
      <3> QED
        BY <1>5, <3>1, <3>2 DEF LiveRec
    <2> QED
      BY <2>1, <2>2 DEF RecsOf
  <1>8. \A x \in Pgnos, k \in Txnids : x \in LiveRec(k) => k # me_pglast /\ k # mt_txnid
    BY <1>3, <1>4 DEF LiveRec
  <1>9. ASSUME NEW x \in Pgnos
        PROVE  /\ \A k \in Txnids : x \in freedb'[k] =>
                     /\ ~InTree(x, mt_dbs)
                     /\ \A j \in Txnids : x \in freedb'[j] => j = k
               /\ x < mt_next_pgno <=>
                     InTree(x, mt_dbs) \/ \E k \in Txnids : x \in freedb'[k]
    <2>1. /\ InTree(x, mt_dbs) => x \notin mt_free_pgs /\ ~Stock(x)
          /\ x \in mt_free_pgs => ~Stock(x)
          /\ StockOnce(x)
          /\ x < mt_next_pgno <=>
                InTree(x, mt_dbs) \/ x \in mt_free_pgs \/ Stock(x)
      BY <1>3 DEF WorkOnce, WorkCovers
    <2>2. (\E k \in Txnids : x \in freedb'[k]) <=> x \in mt_free_pgs \/ Stock(x)
      <3> HIDE DEF LiveRec
      <3>1. me_pglast # mt_txnid
        BY <1>3
      <3>2. \A k \in Txnids : x \in freedb'[k] => x \in mt_free_pgs \/ Stock(x)
        BY <1>5 DEF Stock
      <3>3. x \in mt_free_pgs => x \in freedb'[mt_txnid]
        BY <1>3, <1>5, <3>1
      <3>4. x \in me_pghead \/ x \in mt_loose_pgs => x \in freedb'[me_pglast]
        BY <1>4, <1>5
      <3>5. \A k \in Txnids : x \in LiveRec(k) => x \in freedb'[k]
        BY <1>5, <1>8
      <3> QED
        BY <1>3, <1>4, <3>2, <3>3, <3>4, <3>5 DEF Stock
    <2>3. \A k, j \in Txnids : x \in freedb'[k] /\ x \in freedb'[j] => j = k
      <3> HIDE DEF LiveRec
      <3> QED
        BY <1>3, <1>5, <2>1 DEF Stock, StockOnce
    <2> QED
      BY <2>1, <2>2, <2>3
  <1>10. Accounted(NewMeta)'
    <2>1. TreeOnce(mt_dbs)
      BY <1>3 DEF WorkOnce
    <2>2. \A x \in Pgnos : x <= mt_next_pgno - 1 <=> x < mt_next_pgno
      BY <1>3, <1>4
    <2> QED
      BY <1>6, <1>7, <1>9, <2>1, <2>2 DEF Accounted
  <1>11. WrittenOK'
    <2>1. \A x \in Pgnos : PlacedOnce(x)
      BY <1>3, WorkPlaced
    <2>2. ASSUME NEW a \in AllNodes, mt_dbs[a] # P_INVALID
          PROVE  mt_dbs[a] \notin mt_loose_pgs
      BY <1>3, <2>1, <2>2, PageOf DEF PlacedOnce, InTree
    <2> QED
      BY <1>1, <1>3, <2>2, KeepWritten
  <1>12. ListsOK'
    BY <1>1 DEF ListsOK, Filling
  <1>13. Takes(p)
    <2>1. ASSUME NEW x \in Pgnos, NEW k \in Txnids, k # mt_txnid, x \in freedb'[k]
          PROVE  x \in freedb[k] \/ Loan(p, x)
      BY <1>3, <1>4, <1>5, <2>1 DEF Loan, LiveRec
    <2> QED
      BY <1>1, <1>3, <2>1 DEF Takes, Loan
  <1> QED
    BY <1>1, <1>10, <1>11, <1>12, <1>13 DEF WorkInv, Filling

LEMMA SaveWork ==
    ASSUME IndInv, OrderInv, LooksOK, WorkInv, NEW p \in Procs, Save(p)
    PROVE  WorkInv' /\ Takes(p)
  <1>1. CASE SaveTouches(p)
    BY <1>1, SaveTouchWork DEF SaveTouches, SaveStep, Owner
  <1>2. CASE SaveReserves(p)
    <2>1. wpc = "loop" /\ wpc' = "put" /\ InMemory
      BY <1>2 DEF SaveReserves, SaveStep, Owner
    <2>2. CASE Dirty(FreeDB)
      BY <1>2, <2>1, <2>2, GoesOnWork DEF SaveReserves, Filling
    <2>3. CASE ~Dirty(FreeDB)
      BY <1>2, <2>1, <2>3, SaveTouchWork DEF SaveReserves
    <2> QED
      BY <2>2, <2>3
  <1> QED
    BY <1>1, <1>2, SaveLooseWork, SaveDeletesWork, SavePutsWork, SaveReturnsWork,
       FailsWork DEF Save

(* Every step that fills pages keeps account of them. *)
LEMMA MemoryWork ==
    ASSUME IndInv, OrderInv, LooksOK, WorkInv,
           NEW p \in Procs, Work(p) \/ Commit(p) \/ Save(p), ~Abort(p)
    PROVE  WorkInv' /\ Takes(p)
  <1>1. CASE Work(p)
    BY <1>1, WriteNodeWork, LoosePageWork, FreeOverflowWork, EmptiesWork, FailsWork
    DEF Work
  <1> QED
    BY <1>1, CommitWork, SaveWork

-----------------------------------------------------------------------------
(* A snapshot that was kept is kept by every step, as long as the owner of *)
(* the writer mutex does not think that it is out of use.                  *)
Held(m) ==
    wpc \in Before =>
        \A p \in Procs : wmutex = p => PgOldest(p) <= m.mm_txnid + 1

Carries == \A m \in Metas : Kept(m) /\ Held(m) => Kept(m)'

LEMMA MetaPages ==
    ASSUME NEW m \in Metas
    PROVE  /\ Pages(m.mm_dbs) \subseteq Pgnos /\ m.mm_txnid \in Nat
           /\ m.mm_txnid \in Txnids
           /\ \A n \in AllNodes : m.mm_dbs[n] # P_INVALID =>
                  m.mm_dbs[n] \in Pages(m.mm_dbs)
           /\ \A x \in Pages(m.mm_dbs) : InTree(x, m.mm_dbs)
  BY DEF Metas, Dbs, Pages, Txnids, InTree

LEMMA NewMetaFields ==
    /\ NewMeta.mm_dbs = mt_dbs /\ NewMeta.freedb = freedb
    /\ NewMeta.image = image /\ NewMeta.mm_txnid = mt_txnid
    /\ NewMeta.mm_last_pg = mt_next_pgno - 1
  BY DEF NewMeta, MetaOf

(* Neither meta page is older than the transaction before the newest.      *)
LEMMA MetasHeld ==
    ASSUME IndInv, OrderInv, LooksOK, NEW i \in {0, 1}
    PROVE  Held(metas[i]) /\ metas[i].mm_txnid <= Top.mm_txnid
  <1>1. i = TopIdx \/ i = 1 - TopIdx
    BY DEF TopIdx
  <1>2. metas[i] = Top \/ metas[i] = Old
    BY <1>1 DEF Top, Old
  <1>3. metas[i].mm_txnid <= Top.mm_txnid /\ Top.mm_txnid <= metas[i].mm_txnid + 1
    BY <1>2, Numbers DEF OrderInv, MetasOrdered
  <1>4. ASSUME wpc \in Before, NEW p \in Procs
        PROVE  PgOldest(p) <= metas[i].mm_txnid + 1
    <2>1. PgOldest(p) \in Nat /\ PgOldest(p) <= mti_txnid /\ mti_txnid = Top.mm_txnid
      BY <1>4, PgOldestBound, WorkerOrder
    <2> QED
      BY <1>3, <2>1, Numbers
  <1> QED
    BY <1>3, <1>4 DEF Held

LEMMA ReaderHeld ==
    ASSUME IndInv, OrderInv, LooksOK, NEW q \in Procs, rpc[q] \in Holding,
           NEW m \in Metas, mr_txnid[q] <= m.mm_txnid
    PROVE  Held(m)
  <1>1. mr_txnid[q] \in Nat /\ m.mm_txnid \in Nat
    <2>1. mr_txnid[q] \in Txnids \cup {IDLE} /\ mr_txnid[q] # IDLE
      BY DEF IndInv, TypeOK, LockTypeOK, LooksOK
    <2> QED
      BY <2>1, MetaPages DEF Txnids
  <1>2. ASSUME wpc \in Before, NEW p \in Procs
        PROVE  PgOldest(p) \in Nat /\ PgOldest(p) <= mr_txnid[q]
    BY <1>2, PgOldestBound
  <1> QED
    BY <1>1, <1>2 DEF Held

(* A step that leaves the files alone, and the transaction at work.        *)
LEMMA StillCarries ==
    ASSUME UNCHANGED <<file, metas>>,
           \/ wpc' \notin Before
           \/ wpc \in Before /\ UNCHANGED <<mt_txnid, treeVars, pageVars>>
    PROVE  Carries
  <1>1. TopIdx' = TopIdx /\ Top' = Top
    BY DEF TopIdx, Top
  <1> SUFFICES ASSUME NEW m \in Metas, Kept(m) PROVE Kept(m)'
    BY DEF Carries
  <1>2. m.mm_txnid <= Top'.mm_txnid /\ Intact(m, file') /\ Spares(Top', m)
    BY <1>1 DEF Kept
  <1>3. ASSUME wpc' \in Before
        PROVE  Untouched(m)'
    <2>1. wpc \in Before /\ UNCHANGED <<mt_txnid, treeVars, pageVars>>
      BY <1>3
    <2>2. /\ UNCHANGED <<mt_txnid, mt_dbs, image, freedb, mt_next_pgno>>
          /\ UNCHANGED <<dirty_list, me_pghead, mt_loose_pgs>>
      BY <2>1 DEF treeVars, pageVars
    <2>3. NewMeta' = NewMeta /\ Untouched(m)
      BY <2>1, <2>2 DEF NewMeta, MetaOf, Kept
    <2> QED
      BY <2>2, <2>3 DEF Untouched
  <1> QED
    BY <1>2, <1>3 DEF Kept

LEMMA MemoryCarries ==
    ASSUME IndInv, OrderInv, LooksOK, WorkInv,
           NEW p \in Procs, Work(p) \/ Commit(p) \/ Save(p), ~Abort(p)
    PROVE  Carries
  <1>1. /\ UNCHANGED <<file, metas, mt_txnid>> /\ wmutex = p
        /\ wpc \in Before /\ Takes(p)
    BY MemorySteps, MemoryWork DEF InMemory, fileVars, Before
  <1>2. TopIdx' = TopIdx /\ Top' = Top
    BY <1>1 DEF TopIdx, Top
  <1> SUFFICES ASSUME NEW m \in Metas, Kept(m), Held(m) PROVE Kept(m)'
    BY DEF Carries
  <1>3. m.mm_txnid <= Top'.mm_txnid /\ Intact(m, file') /\ Spares(Top', m)
    BY <1>1, <1>2 DEF Kept
  <1>4. /\ PgOldest(p) <= m.mm_txnid + 1 /\ PgOldest(p) \in Nat
        /\ Untouched(m) /\ mt_txnid = Top.mm_txnid + 1
    BY <1>1, PgOldestBound, WorkerOrder DEF Held, Kept
  <1>5. /\ m.mm_txnid \in Nat /\ m.mm_txnid < mt_txnid /\ mt_txnid \in Nat
        /\ Pages(m.mm_dbs) \subseteq Pgnos /\ Pgnos \subseteq Nat
        /\ Txnids \subseteq Nat
    BY <1>4, MetaPages, Numbers DEF Kept, Pgnos, Txnids
  <1>6. mt_next_pgno \in Nat
    <2>1. wpc # "idle"
      BY <1>1 DEF Before, Filling, Filled
    <2> QED
      BY <2>1, WorkingTypes DEF PageTypeOK
  <1>7. ASSUME NEW x \in Pages(m.mm_dbs)
        PROVE  /\ x <= mt_next_pgno' - 1
               /\ \A k \in Txnids : k <= m.mm_txnid => x \notin freedb'[k]
               /\ x \notin dirty_list' /\ x \notin me_pghead' /\ x \notin mt_loose_pgs'
    <2>1. /\ x <= mt_next_pgno - 1
          /\ \A k \in Txnids : k <= m.mm_txnid => x \notin freedb[k]
          /\ x \notin dirty_list /\ x \notin me_pghead /\ x \notin mt_loose_pgs
      BY <1>4, NewMetaFields DEF Untouched, Spares
    <2>2. ~Loan(p, x)
      BY <1>4, <1>5, <1>6, <2>1 DEF Loan
    <2>3. x <= mt_next_pgno' - 1
      <3>1. mt_next_pgno' \in Nat /\ mt_next_pgno <= mt_next_pgno'
        BY <1>1 DEF Takes
      <3>2. x \in Nat
        BY <1>5
      <3>3. x <= mt_next_pgno - 1
        BY <2>1
      <3>4. \A a, b, c \in Nat : a <= b - 1 /\ b <= c => a <= c - 1
        OBVIOUS
      <3> QED
        BY <1>6, <3>1, <3>2, <3>3, <3>4
    <2>4. \A k \in Txnids : k <= m.mm_txnid => k # mt_txnid
      BY <1>5
    <2> QED
      BY <1>1, <1>5, <2>1, <2>2, <2>3, <2>4 DEF Takes
  <1>8. /\ NewMeta'.freedb = freedb' /\ NewMeta'.mm_last_pg = mt_next_pgno' - 1
    BY NewMetaFields DEF NewMeta, MetaOf
  <1>9. Untouched(m)'
    BY <1>7, <1>8 DEF Untouched, Spares
  <1> QED
    BY <1>3, <1>9 DEF Kept

(* The pages a transaction begins with are those of the newest meta page.  *)
LEMMA BeginsWithTop ==
    ASSUME IndInv, OrderInv, NEW p \in Procs, BeginWrite(p)
    PROVE  /\ wpc = "idle" /\ wpc' = "work" /\ mt_txnid' = Top.mm_txnid + 1
           /\ mt_dbs' = Top.mm_dbs /\ image' = Top.image /\ freedb' = Top.freedb
           /\ mt_next_pgno' = Top.mm_last_pg + 1
           /\ UNCHANGED <<dirty_list, mt_free_pgs, mt_loose_pgs>>
           /\ UNCHANGED <<me_pghead, me_pglast, file, disk, metas, diskMetas>>
           /\ mti_txnid' = Top.mm_txnid /\ SomeAlive
  <1>1. /\ RecoveredTxnid = Top.mm_txnid /\ mti_txnid' = Top.mm_txnid
        /\ SomeAlive /\ wpc = "idle"
    BY RecoveredIsTop DEF BeginWrite
  <1>2. metas[RecoveredTxnid % 2] = Top
    BY <1>1 DEF OrderInv, MetasOrdered, Top
  <1> QED
    BY <1>1, <1>2 DEF BeginWrite, fileVars, diskVars

LEMMA BeginCarries ==
    ASSUME IndInv, OrderInv, WorkInv, NEW p \in Procs, BeginWrite(p)
    PROVE  Carries
  <1>1. /\ wpc = "idle" /\ freedb' = Top.freedb
        /\ mt_next_pgno' = Top.mm_last_pg + 1
        /\ UNCHANGED <<dirty_list, mt_loose_pgs, me_pghead, file, metas>>
    BY BeginsWithTop
  <1>2. dirty_list = {} /\ mt_loose_pgs = {} /\ me_pghead = {}
    BY <1>1 DEF WorkInv, ListsOK
  <1>3. TopIdx' = TopIdx /\ Top' = Top
    BY <1>1 DEF TopIdx, Top
  <1>4. /\ NewMeta'.freedb = Top.freedb /\ NewMeta'.mm_last_pg = Top.mm_last_pg
    <2>1. Top.mm_last_pg \in Nat
      BY Numbers DEF Metas
    <2> QED
      BY <1>1, <2>1 DEF NewMeta, MetaOf
  <1> SUFFICES ASSUME NEW m \in Metas, Kept(m) PROVE Kept(m)'
    BY DEF Carries
  <1>5. m.mm_txnid <= Top'.mm_txnid /\ Intact(m, file') /\ Spares(Top', m)
    BY <1>1, <1>3 DEF Kept
  <1>6. Untouched(m)'
    BY <1>1, <1>2, <1>3, <1>4, <1>5 DEF Untouched, Spares
  <1> QED
    BY <1>5, <1>6 DEF Kept

LEMMA FlushCarries ==
    ASSUME IndInv, NEW p \in Procs, FlushPage(p)
    PROVE  Carries
  <1>1. PICK pg \in dirty_list :
            /\ dirty_list' = dirty_list \ {pg}
            /\ \E c : file' = [file EXCEPT ![pg] = c]
    BY DEF FlushPage
  <1>2. /\ wpc = "flush" /\ file \in [Pgnos -> Contents]
        /\ UNCHANGED <<metas, mt_txnid, mt_dbs, image, freedb, mt_next_pgno>>
        /\ UNCHANGED <<mt_loose_pgs, me_pghead>>
    BY DEF FlushPage, CommitStep, Owner, treeVars, IndInv, TypeOK, FileTypeOK
  <1>3. TopIdx' = TopIdx /\ Top' = Top /\ NewMeta' = NewMeta
    BY <1>2 DEF TopIdx, Top, NewMeta, MetaOf
  <1> SUFFICES ASSUME NEW m \in Metas, Kept(m) PROVE Kept(m)'
    BY DEF Carries
  <1>4. Untouched(m)
    BY <1>2 DEF Kept, Before, Filled
  <1>5. \A x \in Pages(m.mm_dbs) : file'[x] = file[x]
    <2>1. pg \notin Pages(m.mm_dbs)
      BY <1>4 DEF Untouched
    <2> QED
      BY <1>1, <1>2, <2>1, MetaPages
  <1>6. Intact(m, file')
    BY <1>5, MetaPages DEF Kept, Intact
  <1>7. Untouched(m)'
    BY <1>1, <1>2, <1>3, <1>4 DEF Untouched
  <1> QED
    BY <1>3, <1>6, <1>7 DEF Kept

LEMMA WriteMetaCarries ==
    ASSUME IndInv, OrderInv, NEW p \in Procs, WriteMeta(p)
    PROVE  Carries
  <1>1. /\ wpc = "meta" /\ wpc' \in {"publish", "metasync"} /\ file' = file
        /\ Top' = NewMeta
    BY WriteMetaOrder DEF WriteMeta, CommitStep, Owner
  <1>2. NewMeta.mm_txnid = Top.mm_txnid + 1
    BY <1>1, NewMetaFields DEF OrderInv, PublishedOrdered, Before, Filled
  <1> SUFFICES ASSUME NEW m \in Metas, Kept(m) PROVE Kept(m)'
    BY DEF Carries
  <1>3. Untouched(m) /\ m.mm_txnid <= Top.mm_txnid /\ m.mm_txnid \in Nat
    BY <1>1, MetaPages DEF Kept, Before, Filled
  <1>4. m.mm_txnid <= Top'.mm_txnid
    BY <1>1, <1>2, <1>3, Numbers
  <1>5. Spares(Top', m)
    BY <1>1, <1>3 DEF Untouched
  <1>6. wpc' \notin Before
    BY <1>1 DEF Before, Filling, Filled
  <1> QED
    BY <1>1, <1>4, <1>5, <1>6 DEF Kept

-----------------------------------------------------------------------------
(* The meta pages that may be the next to build on are safe in every state.*)
LEMMA InitPages == Init => MetasSafe /\ WorkInv /\ ReadersSafe
  <1> SUFFICES ASSUME Init PROVE MetasSafe /\ WorkInv /\ ReadersSafe
    OBVIOUS
  <1>1. /\ \A i \in {0, 1} : metas[i] = EmptyMeta
        /\ wpc = "idle" /\ \A p \in Procs : rpc[p] = "idle"
        /\ TopIdx \in {0, 1}
    BY DEF Init, TopIdx
  <1>2. Top = EmptyMeta
    BY <1>1 DEF Top
  <1>3. /\ EmptyMeta.mm_txnid = 0 /\ EmptyMeta.mm_last_pg = 1
        /\ \A n \in AllNodes : EmptyMeta.mm_dbs[n] = P_INVALID
        /\ \A k \in Txnids : EmptyMeta.freedb[k] = {}
    BY DEF EmptyMeta, EmptyDbs, NoRecs
  <1>4. Pages(EmptyMeta.mm_dbs) = {}
    BY <1>3 DEF Pages
  <1>5. Kept(EmptyMeta) /\ Intact(EmptyMeta, disk)
    BY <1>1, <1>2, <1>3, <1>4 DEF Kept, Intact, Spares, Before, Filling, Filled
  <1>6. \A x \in Pgnos : ~InTree(x, EmptyMeta.mm_dbs) /\ ~(x <= 1)
    BY <1>3, ConstantTypes DEF InTree, Pgnos
  <1>7. Accounted(EmptyMeta)
    BY <1>3, <1>6 DEF Accounted, TreeOnce, RecsOf
  <1>8. MetasSafe
    BY <1>1, <1>5, <1>7 DEF MetasSafe
  <1>9. WorkInv
    BY <1>1 DEF Init, WorkInv, ListsOK, WrittenOK, Before, Filling, Filled
  <1>10. ReadersSafe
    BY <1>1 DEF ReadersSafe, ReaderSafe
  <1> QED
    BY <1>8, <1>9, <1>10

LEMMA SameNeeds ==
    ASSUME UNCHANGED <<metas, diskMetas, alive, mti_txnid>>
    PROVE  \A i : Needed(i)' <=> Needed(i)
  BY DEF Needed, TopIdx, SomeAlive

(* A step that carries the snapshots and rewrites no meta page. *)
LEMMA CarriesMetas ==
    ASSUME IndInv, OrderInv, LooksOK, MetasSafe, Carries, UNCHANGED metas,
           \A i \in {0, 1} : Needed(i)' => Needed(i),
           disk' = disk \/ disk' = file
    PROVE  MetasSafe'
  <1>1. ASSUME NEW i \in {0, 1}, Needed(i)', NEW m \in Metas, m = metas[i]
        PROVE  Kept(m)' /\ Intact(m, disk') /\ Accounted(m)
    <2>1. Kept(m) /\ Intact(m, disk) /\ Accounted(m) /\ Held(m)
      BY <1>1, MetasHeld DEF MetasSafe
    <2>2. Kept(m)'
      BY <2>1 DEF Carries
    <2>3. Intact(m, disk')
      BY <2>1 DEF Kept
    <2> QED
      BY <2>1, <2>2, <2>3
  <1>2. ASSUME NEW i \in {0, 1}, Needed(i)'
        PROVE  Kept(metas[i])' /\ Intact(metas[i], disk)' /\ Accounted(metas[i])'
    <2>1. PICK m \in Metas : m = metas[i]
      BY Numbers
    <2>2. Kept(m)' /\ Intact(m, disk') /\ Accounted(m)
      BY <1>1, <1>2, <2>1
    <2>3. metas'[i] = m
      BY <2>1
    <2> QED
      BY <2>2, <2>3
  <1> QED
    BY <1>2 DEF MetasSafe

(* What is in memory stays as it is, or is forgotten. *)
LEMMA SameWork ==
    ASSUME WorkInv, UNCHANGED txnVars, UNCHANGED file
    PROVE  WorkInv'
  <1>1. /\ UNCHANGED <<wpc, begun, mt_txnid, mt_dbs, image, freedb, mt_next_pgno>>
        /\ UNCHANGED <<dirty_list, mt_free_pgs, mt_loose_pgs, me_pghead, me_pglast>>
    BY DEF txnVars, treeVars, pageVars
  <1>2. NewMeta' = NewMeta /\ \A k : LiveRec(k)' = LiveRec(k)
    BY <1>1 DEF NewMeta, MetaOf, LiveRec
  <1>3. \A x : (Stock(x)' <=> Stock(x)) /\ (StockOnce(x)' <=> StockOnce(x))
    BY <1>1, <1>2 DEF Stock, StockOnce
  <1>4. (WorkOnce' <=> WorkOnce) /\ (WorkCovers' <=> WorkCovers)
    BY <1>1, <1>3 DEF WorkOnce, WorkCovers
  <1>5. (ListsOK' <=> ListsOK) /\ (WrittenOK' <=> WrittenOK)
    BY <1>1 DEF ListsOK, WrittenOK
  <1> QED
    BY <1>1, <1>2, <1>4, <1>5 DEF WorkInv

LEMMA ForgottenWork ==
    ASSUME ForgetTxn
    PROVE  WorkInv'
  BY DEF ForgetTxn, WorkInv, ListsOK, WrittenOK, Before, Filling, Filled

LEMMA BeginPages ==
    ASSUME IndInv, OrderInv, LooksOK, PagesInv, NEW p \in Procs,
           BeginWrite(p)
    PROVE  PagesInv'
  <1>1. /\ wpc = "idle" /\ wpc' = "work" /\ mt_txnid' = Top.mm_txnid + 1
        /\ mt_dbs' = Top.mm_dbs /\ image' = Top.image /\ freedb' = Top.freedb
        /\ mt_next_pgno' = Top.mm_last_pg + 1
        /\ UNCHANGED <<dirty_list, mt_free_pgs, mt_loose_pgs>>
        /\ UNCHANGED <<me_pghead, me_pglast, file, disk, metas, diskMetas>>
        /\ mti_txnid' = Top.mm_txnid /\ SomeAlive
    BY BeginsWithTop
  <1>2. /\ dirty_list = {} /\ mt_free_pgs = {} /\ mt_loose_pgs = {}
        /\ me_pghead = {} /\ me_pglast = 0
    BY <1>1 DEF PagesInv, WorkInv, ListsOK
  <1>3. Needed(TopIdx) /\ metas[TopIdx] = Top /\ TopIdx \in {0, 1}
    BY Numbers DEF Needed, Top
  <1>4. Kept(Top) /\ Accounted(Top)
    BY <1>3 DEF PagesInv, MetasSafe
  <1>5. MetasSafe'
    <2>1. \A i \in {0, 1} : Needed(i)' => Needed(i)
      <3>1. TopIdx' = TopIdx
        BY <1>1 DEF TopIdx
      <3>2. mti_txnid' % 2 = TopIdx
        BY <1>1 DEF OrderInv, MetasOrdered
      <3> QED
        BY <1>1, <3>1, <3>2 DEF Needed
    <2>2. Carries
      BY BeginCarries DEF PagesInv
    <2> QED
      BY <1>1, <2>1, <2>2, CarriesMetas DEF PagesInv
  <1>6. /\ Top.mm_txnid \in Nat /\ Top.mm_last_pg \in Nat /\ Txnids \subseteq Nat
        /\ Pgnos \subseteq Nat
    BY Numbers DEF Metas, Txnids, Pgnos
  <1>7. RecsOf(Top.freedb, Top.mm_txnid)
    BY <1>4 DEF Accounted
  <1>8. \A k \in Txnids : LiveRec(k)' = Top.freedb[k]
    <2> TAKE k \in Txnids
    <2>1. k = 0 \/ k > Top.mm_txnid => Top.freedb[k] = {}
      BY <1>7 DEF RecsOf
    <2>2. LiveRec(k)' = IF k <= 0 \/ k = Top.mm_txnid + 1 THEN {} ELSE Top.freedb[k]
      BY <1>1, <1>2 DEF LiveRec
    <2>3. k <= 0 \/ k = Top.mm_txnid + 1 => k = 0 \/ k > Top.mm_txnid
      BY <1>6
    <2> QED
      BY <2>1, <2>2, <2>3
  <1>9. ASSUME NEW x \in Pgnos
        PROVE  /\ InTree(x, mt_dbs') => x \notin mt_free_pgs' /\ ~Stock(x)'
               /\ x \in mt_free_pgs' => ~Stock(x)'
               /\ StockOnce(x)'
               /\ x < mt_next_pgno' <=>
                     InTree(x, mt_dbs') \/ x \in mt_free_pgs' \/ Stock(x)'
    <2>1. /\ \A k \in Txnids : x \in Top.freedb[k] =>
                /\ ~InTree(x, Top.mm_dbs)
                /\ \A j \in Txnids : x \in Top.freedb[j] => j = k
          /\ x <= Top.mm_last_pg <=>
                InTree(x, Top.mm_dbs) \/ \E k \in Txnids : x \in Top.freedb[k]
      BY <1>4 DEF Accounted
    <2>2. x < mt_next_pgno' <=> x <= Top.mm_last_pg
      BY <1>1, <1>6
    <2>3. Stock(x)' <=> \E k \in Txnids : x \in Top.freedb[k]
      BY <1>1, <1>2, <1>8 DEF Stock
    <2>4. StockOnce(x)'
      BY <1>1, <1>2, <1>8, <2>1 DEF StockOnce
    <2> QED
      BY <1>1, <1>2, <2>1, <2>2, <2>3, <2>4
  <1>10. WorkOnce' /\ WorkCovers'
    <2>1. TreeOnce(mt_dbs')
      BY <1>1, <1>4 DEF Accounted
    <2> QED
      BY <1>9, <2>1 DEF WorkOnce, WorkCovers
  <1>11. ListsOK'
    <2>1. RecsOf(freedb', mt_txnid') /\ 0 < mt_txnid'
      <3>1. \A k \in Txnids : k > Top.mm_txnid + 1 => k > Top.mm_txnid
        BY <1>6
      <3>2. \A k \in Txnids : k = 0 \/ k > Top.mm_txnid + 1 => Top.freedb[k] = {}
        BY <1>7, <3>1 DEF RecsOf
      <3> QED
        BY <1>1, <1>6, <3>2 DEF RecsOf
    <2> QED
      BY <1>1, <1>2, <2>1 DEF ListsOK, Filled
  <1>12. WrittenOK'
    BY <1>1, <1>2, <1>4 DEF WrittenOK, Kept, Intact
  <1> QED
    BY <1>1, <1>5, <1>10, <1>11, <1>12 DEF PagesInv, WorkInv, Filled

LEMMA MemoryPages ==
    ASSUME IndInv, OrderInv, LooksOK, PagesInv,
           NEW p \in Procs, Work(p) \/ Commit(p) \/ Save(p), ~Abort(p)
    PROVE  PagesInv' /\ Carries
  <1>1. UNCHANGED <<metas, diskMetas, alive, mti_txnid, disk>>
    BY MemorySteps DEF InMemory, fileVars, diskVars, lockVars
  <1>2. WorkInv' /\ Carries
    BY MemoryWork, MemoryCarries DEF PagesInv
  <1>3. MetasSafe'
    BY <1>1, <1>2, SameNeeds, CarriesMetas DEF PagesInv
  <1> QED
    BY <1>2, <1>3 DEF PagesInv

LEMMA EndsPages ==
    ASSUME IndInv, OrderInv, LooksOK, PagesInv,
           NEW p \in Procs, Abort(p) \/ CommitNothing(p) \/ Unlock(p)
    PROVE  PagesInv' /\ Carries
  <1>1. EndTxn(p) /\ UNCHANGED <<fileVars, procVars, ghostVars>>
    BY DEF Abort, CommitNothing, Unlock
  <1>2. /\ ForgetTxn /\ wpc' = "idle"
        /\ UNCHANGED <<file, metas, disk, diskMetas, alive, mti_txnid>>
    BY <1>1 DEF EndTxn, ForgetTxn, fileVars, diskVars, procVars
  <1>3. Carries
    BY <1>2, StillCarries DEF Before, Filling, Filled
  <1>4. MetasSafe'
    BY <1>2, <1>3, SameNeeds, CarriesMetas DEF PagesInv
  <1> QED
    BY <1>2, <1>3, <1>4, ForgottenWork DEF PagesInv

LEMMA FlushWork ==
    ASSUME IndInv, WorkInv, NEW p \in Procs, FlushPage(p)
    PROVE  WorkInv'
  <1>1. PICK pg \in dirty_list :
            /\ dirty_list' = dirty_list \ {pg}
            /\ \E c \in Contents :
                  /\ IF Written(pg) = {} THEN c = <<begun, FreeDB>> ELSE c \in Written(pg)
                  /\ file' = [file EXCEPT ![pg] = c]
    BY DEF FlushPage
  <1>2. PICK c \in Contents :
            /\ Written(pg) # {} => c \in Written(pg)
            /\ file' = [file EXCEPT ![pg] = c]
    BY <1>1
  <1>3. /\ wpc = "flush" /\ wpc' = "flush" /\ file \in [Pgnos -> Contents]
        /\ UNCHANGED <<begun, mt_txnid, mt_dbs, image, freedb, mt_next_pgno>>
        /\ UNCHANGED <<mt_loose_pgs, me_pghead>>
    BY DEF FlushPage, CommitStep, Owner, treeVars, IndInv, TypeOK, FileTypeOK
  <1>4. pg \in Pgnos /\ TreeTypeOK
    <2>1. PageTypeOK /\ TreeTypeOK
      BY <1>3, WorkingTypes
    <2> QED
      BY <1>1, <2>1 DEF PageTypeOK
  <1>5. NewMeta' = NewMeta /\ Accounted(NewMeta)
    BY <1>3 DEF NewMeta, MetaOf, WorkInv, Filled
  <1>6. TreeOnce(mt_dbs)
    BY <1>5, NewMetaFields DEF Accounted
  <1>7. ListsOK'
    BY <1>3 DEF WorkInv, ListsOK, Filling, Filled
  <1>8. ASSUME NEW a \in AllNodes, mt_dbs[a] # P_INVALID
        PROVE  IF mt_dbs[a] \in dirty_list' THEN image[a] = <<begun, a>>
                                            ELSE file'[mt_dbs[a]] = image[a]
    <2>1. IF mt_dbs[a] \in dirty_list THEN image[a] = <<begun, a>>
                                      ELSE file[mt_dbs[a]] = image[a]
      BY <1>3, <1>8 DEF WorkInv, WrittenOK, Before, Filled
    <2>2. CASE mt_dbs[a] = pg
      <3>1. <<begun, a>> \in Written(pg)
        BY <2>2 DEF Written
      <3>2. PICK n \in AllNodes : mt_dbs[n] = pg /\ c = <<begun, n>>
        BY <1>2, <3>1 DEF Written
      <3>3. n = a
        BY <1>6, <1>8, <2>2, <3>2 DEF TreeOnce
      <3>4. file'[pg] = <<begun, a>>
        BY <1>2, <1>3, <1>4, <3>2, <3>3
      <3> QED
        BY <1>1, <2>1, <2>2, <3>4
    <2>3. CASE mt_dbs[a] # pg
      <3>1. mt_dbs[a] \in Pgnos
        BY <1>4, <1>8, PageOf
      <3>2. file'[mt_dbs[a]] = file[mt_dbs[a]]
        BY <1>2, <1>3, <2>3, <3>1
      <3> QED
        BY <1>1, <2>1, <2>3, <3>2
    <2> QED
      BY <2>2, <2>3
  <1>9. WrittenOK'
    BY <1>3, <1>8 DEF WrittenOK
  <1> QED
    BY <1>3, <1>5, <1>7, <1>9 DEF WorkInv, Filling, Filled

LEMMA FlushPages ==
    ASSUME IndInv, OrderInv, LooksOK, PagesInv, NEW p \in Procs, FlushPage(p)
    PROVE  PagesInv' /\ Carries
  <1>1. UNCHANGED <<metas, diskMetas, alive, mti_txnid, disk>>
    BY DEF FlushPage, CommitStep, diskVars, procVars
  <1>2. WorkInv' /\ Carries
    BY FlushWork, FlushCarries DEF PagesInv
  <1>3. MetasSafe'
    BY <1>1, <1>2, SameNeeds, CarriesMetas DEF PagesInv
  <1> QED
    BY <1>2, <1>3 DEF PagesInv

(* Steps of others, and those that end the transaction of a dead process. *)
LEMMA QuietPages ==
    ASSUME IndInv, OrderInv, LooksOK, PagesInv, UNCHANGED <<file, metas>>,
           disk' = disk \/ disk' = file,
           \A i \in {0, 1} : Needed(i)' => Needed(i),
           ForgetTxn \/ UNCHANGED txnVars
    PROVE  PagesInv' /\ Carries
  <1>1. CASE ForgetTxn
    <2>1. wpc' \notin Before
      BY <1>1 DEF ForgetTxn, Before, Filling, Filled
    <2>2. Carries
      BY <2>1, StillCarries
    <2> QED
      BY <1>1, <2>2, CarriesMetas, ForgottenWork DEF PagesInv
  <1>2. CASE UNCHANGED txnVars
    <2>1. UNCHANGED <<wpc, mt_txnid, treeVars, pageVars>>
      BY <1>2 DEF txnVars
    <2>2. Carries
      BY <2>1, StillCarries
    <2> QED
      BY <1>2, <2>2, CarriesMetas, SameWork DEF PagesInv
  <1> QED
    BY <1>1, <1>2

LEMMA FlushedPages ==
    ASSUME IndInv, OrderInv, LooksOK, PagesInv,
           NEW p \in Procs, Flushed(p) \/ Sync(p)
    PROVE  PagesInv' /\ Carries
  <1>1. /\ UNCHANGED <<file, metas, alive, mti_txnid, mt_txnid, begun>>
        /\ UNCHANGED <<treeVars, pageVars>>
        /\ \/ UNCHANGED <<disk, diskMetas>>
           \/ disk' = file /\ diskMetas' = metas
        /\ \/ wpc = "flush" /\ wpc' = "sync" /\ dirty_list = {}
           \/ wpc = "sync" /\ wpc' = "meta"
    BY DEF Flushed, Sync, CommitStep, Owner, fileVars, diskVars, procVars,
       treeVars, pageVars
  <1>2. /\ UNCHANGED <<mt_dbs, image, freedb, mt_next_pgno>>
        /\ UNCHANGED <<dirty_list, mt_free_pgs, mt_loose_pgs, me_pghead, me_pglast>>
    BY <1>1 DEF treeVars, pageVars
  <1>3. wpc \in Before /\ wpc \in Filled
    BY <1>1 DEF Before, Filled
  <1>4. Carries
    BY <1>1, <1>3, StillCarries
  <1>5. \A i \in {0, 1} : Needed(i)' => Needed(i)
    BY <1>1 DEF Needed, TopIdx, SomeAlive
  <1>6. MetasSafe'
    BY <1>1, <1>4, <1>5, CarriesMetas DEF PagesInv
  <1>7. NewMeta' = NewMeta /\ Accounted(NewMeta)
    BY <1>1, <1>2, <1>3 DEF NewMeta, MetaOf, PagesInv, WorkInv
  <1>8. ListsOK' /\ WrittenOK'
    BY <1>1, <1>2, <1>3 DEF PagesInv, WorkInv, ListsOK, WrittenOK, Filling, Filled
  <1> QED
    BY <1>1, <1>4, <1>6, <1>7, <1>8 DEF PagesInv, WorkInv, Filling

(* The commit is over for the pages when its meta page is written. *)
LEMMA AfterWork ==
    ASSUME wpc' \in After
    PROVE  WorkInv' /\ wpc' \notin Before
  BY DEF WorkInv, ListsOK, WrittenOK, After, Before, Filling, Filled

LEMMA PublishPages ==
    ASSUME IndInv, OrderInv, LooksOK, PagesInv,
           NEW p \in Procs, SyncMeta(p) \/ PublishTxnid(p)
    PROVE  PagesInv' /\ Carries
  <1>1. UNCHANGED <<file, metas, disk, alive>> /\ wpc' \in After
    BY DEF SyncMeta, PublishTxnid, CommitStep, fileVars, diskVars, procVars, After
  <1>2. WorkInv' /\ wpc' \notin Before
    BY <1>1, AfterWork
  <1>3. Carries
    BY <1>1, <1>2, StillCarries
  <1>4. \A i \in {0, 1} : Needed(i)' => Needed(i)
    <2>1. TopIdx' = TopIdx /\ SomeAlive' = SomeAlive
      BY <1>1 DEF TopIdx, SomeAlive
    <2>2. CASE SyncMeta(p)
      <3>1. mti_txnid' = mti_txnid /\ diskMetas' = [diskMetas EXCEPT ![Toggle] = metas[Toggle]]
            /\ diskMetas \in [{0, 1} -> Metas]
        BY <2>2 DEF SyncMeta, IndInv, TypeOK, FileTypeOK
      <3>2. \A i \in {0, 1} : diskMetas'[i] = metas[i] \/ diskMetas'[i] = diskMetas[i]
        BY <3>1
      <3> QED
        BY <1>1, <2>1, <3>1, <3>2 DEF Needed
    <2>3. CASE PublishTxnid(p)
      <3>1. mti_txnid' = Top.mm_txnid /\ diskMetas' = diskMetas
        BY <2>3, PublishOrder DEF PublishTxnid, diskVars
      <3>2. mti_txnid' % 2 = TopIdx
        BY <3>1 DEF OrderInv, MetasOrdered
      <3> QED
        BY <1>1, <2>1, <3>1, <3>2 DEF Needed
    <2> QED
      BY <2>2, <2>3
  <1> QED
    BY <1>1, <1>2, <1>3, <1>4, CarriesMetas DEF PagesInv

(* A new meta page refers to pages that are all on disk. *)
LEMMA NewMetaWhole ==
    ASSUME IndInv, OrderInv, PagesInv, wpc = "meta", NEW m \in Metas, m = NewMeta
    PROVE  Intact(m, file) /\ Intact(m, disk)
  <1>1. dirty_list = {} /\ disk = file
    BY DEF PagesInv, WorkInv, ListsOK, OrderInv, PublishedOrdered
  <1>2. Intact(m, file)
    BY <1>1, NewMetaFields DEF PagesInv, WorkInv, WrittenOK, Intact, Before, Filled
  <1> QED
    BY <1>1, <1>2

LEMMA NewMetaKept ==
    ASSUME IndInv, OrderInv, LooksOK, PagesInv,
           NEW p \in Procs, WriteMeta(p), NEW m \in Metas, m = NewMeta
    PROVE  Kept(m)' /\ Intact(m, disk') /\ Accounted(m)
  <1>1. /\ wpc = "meta" /\ wpc' \in {"publish", "metasync"}
        /\ file' = file /\ disk' = disk /\ Top' = m
    BY WriteMetaOrder DEF WriteMeta, CommitStep, Owner, diskVars
  <1>2. Accounted(m)
    BY <1>1 DEF PagesInv, WorkInv, Filled
  <1>3. Intact(m, file) /\ Intact(m, disk)
    BY <1>1, NewMetaWhole
  <1>4. Spares(m, m)
    BY <1>2, MetaPages DEF Accounted, Spares
  <1>5. m.mm_txnid <= Top'.mm_txnid /\ wpc' \notin Before
    BY <1>1, MetaPages DEF Before, Filling, Filled
  <1> QED
    BY <1>1, <1>2, <1>3, <1>4, <1>5 DEF Kept

LEMMA WriteMetaPages ==
    ASSUME IndInv, OrderInv, LooksOK, PagesInv, NEW p \in Procs, WriteMeta(p)
    PROVE  PagesInv' /\ Carries
  <1>1. /\ wpc = "meta" /\ wpc' \in After
        /\ metas' = [metas EXCEPT ![Toggle] = NewMeta] /\ UNCHANGED <<file, disk>>
    BY DEF WriteMeta, CommitStep, Owner, After, diskVars
  <1>2. Toggle = 1 - TopIdx /\ Toggle \in {0, 1} /\ TopIdx \in {0, 1}
    BY <1>1, ToggleIsOther DEF Before, Filled
  <1>3. metas' \in [{0, 1} -> Metas] /\ metas \in [{0, 1} -> Metas]
    BY NextInd DEF IndInv, TypeOK, FileTypeOK, Next, Write
  <1>4. /\ metas'[Toggle] = NewMeta /\ NewMeta \in Metas
        /\ metas'[TopIdx] = Top /\ Top \in Metas
    BY <1>1, <1>2, <1>3 DEF Top
  <1>5. Carries
    BY WriteMetaCarries
  <1>6. Kept(metas[Toggle])' /\ Intact(metas[Toggle], disk)' /\ Accounted(metas[Toggle])'
    <2>1. PICK m \in Metas : m = NewMeta
      BY <1>4
    <2>2. Kept(m)' /\ Intact(m, disk') /\ Accounted(m)
      BY <2>1, NewMetaKept
    <2>3. metas'[Toggle'] = m
      <3>1. Toggle' = Toggle
        BY DEF Toggle, WriteMeta, CommitStep
      <3> QED
        BY <1>4, <2>1, <3>1
    <2> QED
      BY <2>2, <2>3
  <1>7. ASSUME NEW i \in {0, 1}, i = TopIdx
        PROVE  Kept(metas[i])' /\ Intact(metas[i], disk)' /\ Accounted(metas[i])'
    <2>1. PICK m \in Metas : m = Top
      BY <1>4
    <2>2. metas'[i] = m /\ metas[i] = m
      BY <1>4, <1>7, <2>1 DEF Top
    <2>3. Kept(m) /\ Intact(m, disk) /\ Accounted(m)
      BY <1>7, <2>2 DEF PagesInv, MetasSafe, Needed
    <2>4. Held(m)
      BY <2>2, MetasHeld
    <2>5. Kept(m)'
      BY <1>5, <2>3, <2>4 DEF Carries
    <2> QED
      BY <1>1, <2>2, <2>3, <2>5
  <1>8. MetasSafe'
    <2>1. Toggle' = Toggle
      BY DEF Toggle, WriteMeta, CommitStep
    <2>2. ASSUME NEW i \in {0, 1}
          PROVE  Kept(metas[i])' /\ Intact(metas[i], disk)' /\ Accounted(metas[i])'
      <3>1. i = TopIdx \/ i = Toggle
        BY <1>2
      <3>2. CASE i = Toggle
        BY <1>6, <2>1, <3>2
      <3> QED
        BY <1>7, <3>1, <3>2
    <2> QED
      BY <2>2 DEF MetasSafe
  <1> QED
    BY <1>1, <1>5, <1>8, AfterWork DEF PagesInv

LEMMA OthersPages ==
    ASSUME IndInv, OrderInv, LooksOK, PagesInv, NEW p \in Procs,
           \/ BeginPanics(p) \/ Read(p) \/ EnvSync(p) \/ ReaderCheck(p)
           \/ Crash(p) \/ Open(p)
    PROVE  PagesInv' /\ Carries
  <1>1. /\ UNCHANGED <<file, metas>>
        /\ \/ UNCHANGED <<disk, diskMetas>>
           \/ EnvSync(p) /\ disk' = file /\ diskMetas' = metas
        /\ ForgetTxn \/ UNCHANGED txnVars
    BY DEF BeginPanics, Read, LoadTxnid, StoreTxnid, CheckTxnid, CopyDbs,
       CopyLastPg, EndRead, ReadStep, EnvSync, ReaderCheck, Crash, Open,
       fileVars, diskVars, txnVars
  <1>2. TopIdx' = TopIdx /\ Top.mm_txnid % 2 = TopIdx
    BY <1>1 DEF TopIdx, OrderInv, MetasOrdered
  <1>3. \/ mti_txnid' = mti_txnid /\ (SomeAlive' => SomeAlive)
        \/ mti_txnid' = Top.mm_txnid
    <2>1. CASE BeginPanics(p)
      BY <2>1, RecoveredIsTop DEF BeginPanics
    <2>2. CASE Read(p)
      BY <2>2 DEF Read, LoadTxnid, StoreTxnid, CheckTxnid, CopyDbs, CopyLastPg,
         EndRead, ReadStep, procVars, lockVars, SomeAlive
    <2>3. CASE EnvSync(p) \/ ReaderCheck(p)
      BY <2>3 DEF EnvSync, ReaderCheck, procVars, lockVars, SomeAlive
    <2>4. CASE Crash(p)
      BY <2>4 DEF Crash, SomeAlive
    <2>5. CASE Open(p)
      <3>1. SomeAlive => mti_txnid' = mti_txnid
        BY <2>5 DEF Open, SomeAlive
      <3> QED
        BY <2>5, <3>1, OpenOrder
    <2> QED
      BY <2>1, <2>2, <2>3, <2>4, <2>5
  <1>4. \A i \in {0, 1} : Needed(i)' => Needed(i)
    <2>1. diskMetas' = diskMetas \/ diskMetas' = metas
      BY <1>1
    <2> QED
      BY <1>1, <1>2, <1>3, <2>1 DEF Needed
  <1> QED
    BY <1>1, <1>4, QuietPages

(* What is left when the machine has died. *)
LEMMA SystemCrashPages ==
    ASSUME IndInv, OrderInv, PagesInv, SystemCrash
    PROVE  PagesInv'
  <1>1. /\ \A x \in Pgnos : file'[x] = file[x] \/ file'[x] = disk[x]
        /\ disk' = file' /\ diskMetas' = metas'
        /\ \A p \in Procs : alive'[p] = FALSE
        /\ ForgetTxn
    BY DEF SystemCrash
  <1>2. /\ TopIdx' \in {0, 1} /\ Top' = metas[TopIdx'] /\ Needed(TopIdx')
        /\ metas'[TopIdx'] = Top'
    BY SystemCrashOrder DEF Top
  <1>3. \A i \in {0, 1} : Needed(i)' => i = TopIdx'
    BY <1>1 DEF Needed, SomeAlive
  <1>4. PICK m \in Metas : m = metas[TopIdx']
    BY <1>2, Numbers
  <1>5. Kept(m) /\ Intact(m, disk) /\ Accounted(m)
    BY <1>2, <1>4 DEF PagesInv, MetasSafe
  <1>6. Intact(m, file')
    <2>1. Intact(m, file)
      BY <1>5 DEF Kept
    <2> QED
      BY <1>1, <1>5, <2>1, MetaPages DEF Intact
  <1>7. Spares(m, m) /\ m.mm_txnid <= m.mm_txnid
    BY <1>5, MetaPages DEF Accounted, Spares
  <1>8. wpc' \notin Before
    BY <1>1 DEF ForgetTxn, Before, Filling, Filled
  <1>9. Kept(m)'
    BY <1>2, <1>4, <1>6, <1>7, <1>8 DEF Kept
  <1>10. MetasSafe'
    BY <1>1, <1>2, <1>3, <1>4, <1>5, <1>6, <1>9 DEF MetasSafe
  <1> QED
    BY <1>1, <1>10, ForgottenWork DEF PagesInv

LEMMA NextPages ==
    ASSUME IndInv, OrderInv, LooksOK, PagesInv, [Next]_vars, doubt' = "none"
    PROVE  PagesInv'
  <1>1. CASE UNCHANGED vars
    <2>1. UNCHANGED <<file, metas, disk, diskMetas, alive, mti_txnid>> /\ UNCHANGED txnVars
      BY <1>1 DEF vars, fileVars, diskVars, procVars, lockVars
    <2> QED
      BY <2>1, SameNeeds, QuietPages
  <1>2. ASSUME NEW p \in Procs, Write(p)
        PROVE  PagesInv'
    BY <1>2, BeginPages, OthersPages, MemoryPages, EndsPages, FlushPages,
       FlushedPages, WriteMetaPages, PublishPages, NoFailure
    DEF Write
  <1>3. ASSUME NEW p \in Procs,
               Read(p) \/ EnvSync(p) \/ ReaderCheck(p) \/ Crash(p) \/ Open(p)
        PROVE  PagesInv'
    BY <1>3, OthersPages
  <1> QED
    BY <1>1, <1>2, <1>3, SystemCrashPages DEF Next

(* All of it holds as long as no write of a meta page has failed.  After   *)
(* that, until somebody begins to write, the meta page at t is whole and   *)
(* on disk, and what the other holds is whole too, or not the newest.      *)
SureInv == OrderInv /\ LooksOK /\ PagesInv

Sound(m) == Intact(m, file) /\ Intact(m, disk)

Loses(txnid, t) ==
    txnid < metas[t].mm_txnid \/ (t = 0 /\ txnid = metas[t].mm_txnid)

FrozenAt(t) ==
    /\ diskMetas[t] = metas[t] /\ Sound(metas[t])
    /\ \A m \in {metas[1 - t], diskMetas[1 - t]} : Sound(m) \/ Loses(m.mm_txnid, t)
    /\ wpc = "rollback" => Toggle = 1 - t /\ Loses(metab.mm_txnid, t)

Frozen ==
    doubt = "failed" =>
        wpc \in {"rollback", "error", "idle"} /\ \E t \in {0, 1} : FrozenAt(t)

KnownInv == IndInv /\ (doubt = "none" => SureInv) /\ Frozen

LEMMA KeepFrozen ==
    ASSUME Frozen, doubt = "failed", UNCHANGED <<file, disk, metas, diskMetas>>,
           \/ wpc' = wpc /\ UNCHANGED <<metab, mt_txnid>>
           \/ wpc' = "idle"
    PROVE  Frozen'
  <1>1. PICK t \in {0, 1} : FrozenAt(t)
    BY DEF Frozen
  <1>2. \A m : Sound(m)' <=> Sound(m)
    BY DEF Sound, Intact
  <1>3. \A n : Loses(n, t)' <=> Loses(n, t)
    BY DEF Loses
  <1>4. FrozenAt(t)'
    BY <1>1, <1>2, <1>3 DEF FrozenAt, Toggle, Sound, Intact, Loses
  <1> QED
    BY <1>4 DEF Frozen

(* The write fails: the new page is whole, and so is the newest of the     *)
(* others.                                                                 *)
LEMMA FailsFrozen ==
    ASSUME IndInv, SureInv, NEW p \in Procs, WriteMetaFails(p)
    PROVE  Frozen'
  <1>1. /\ wpc = "meta" /\ wpc' = "rollback"
        /\ metab'.mm_txnid = metas[Toggle].mm_txnid
        /\ metas' \in {metas, [metas EXCEPT ![Toggle] = NewMeta]}
        /\ diskMetas' \in {diskMetas, [diskMetas EXCEPT ![Toggle] = metas'[Toggle]]}
        /\ UNCHANGED <<file, disk, mt_txnid>>
    BY DEF WriteMetaFails, Owner
  <1>2. Toggle = 1 - TopIdx /\ Toggle \in {0, 1} /\ TopIdx \in {0, 1}
    BY <1>1, ToggleIsOther DEF SureInv, Before, Filled
  <1>3. /\ metas \in [{0, 1} -> Metas] /\ diskMetas \in [{0, 1} -> Metas]
        /\ diskMetas = metas /\ disk = file
    BY <1>1 DEF SureInv, OrderInv, PublishedOrdered, IndInv, TypeOK, FileTypeOK
  <1>4. PICK m \in Metas : m = NewMeta
    BY <1>1, NewMetaType
  <1>5. Sound(m)
    BY <1>1, <1>3, <1>4, NewMetaWhole DEF Sound, SureInv
  <1>6. Sound(metas[TopIdx])
    BY <1>2 DEF SureInv, PagesInv, MetasSafe, Needed, Kept, Sound
  <1>7. \A x : Sound(x)' <=> Sound(x)
    BY <1>1 DEF Sound, Intact
  <1>8. /\ metas'[TopIdx] = metas[TopIdx] /\ diskMetas'[TopIdx] = metas[TopIdx]
        /\ metas'[Toggle] \in {metas[Toggle], m}
        /\ diskMetas'[Toggle] \in {metas[Toggle], m}
    BY <1>1, <1>2, <1>3, <1>4
  <1>9. Loses(metas[Toggle].mm_txnid, TopIdx)
    <2>1. /\ metas[Toggle].mm_txnid \in Nat /\ metas[TopIdx].mm_txnid \in Nat
          /\ metas[Toggle].mm_txnid = Old.mm_txnid
          /\ metas[TopIdx].mm_txnid = Top.mm_txnid
      BY <1>2, Numbers DEF Top, Old
    <2>2. /\ Top.mm_txnid % 2 = TopIdx
          /\ Old.mm_txnid = IF Top.mm_txnid = 0 THEN 0 ELSE Top.mm_txnid - 1
      BY DEF SureInv, OrderInv, MetasOrdered
    <2>3. CASE Top.mm_txnid = 0
      BY <2>1, <2>2, <2>3 DEF Loses
    <2>4. CASE Top.mm_txnid # 0
      BY <2>1, <2>2, <2>4 DEF Loses
    <2> QED
      BY <2>3, <2>4
  <1>10. Toggle' = Toggle
    BY <1>1 DEF Toggle
  <1>11. PICK t \in {0, 1} : t = TopIdx
    BY <1>2
  <1>12. \A n : Loses(n, t) => Loses(n, t)'
    BY <1>8, <1>11 DEF Loses
  <1>13. FrozenAt(t)'
    <2>1. diskMetas'[t] = metas'[t] /\ Sound(metas[t])'
      BY <1>6, <1>7, <1>8, <1>11
    <2>2. ASSUME NEW x, x = metas'[1 - t] \/ x = diskMetas'[1 - t]
          PROVE  Sound(x)' \/ Loses(x.mm_txnid, t)'
      BY <1>2, <1>5, <1>7, <1>8, <1>9, <1>11, <1>12, <2>2
    <2> QED
      BY <1>1, <1>2, <1>9, <1>10, <1>11, <1>12, <2>1, <2>2 DEF FrozenAt
  <1> QED
    BY <1>1, <1>13 DEF Frozen

(* Old data is written back over it, or not. *)
LEMMA RollBackFrozen ==
    ASSUME IndInv, Frozen, doubt = "failed", NEW p \in Procs, RollBack(p)
    PROVE  Frozen'
  <1>1. /\ wpc = "rollback" /\ wpc' = "error"
        /\ metas' \in {metas, [metas EXCEPT ![Toggle] = RolledBack]}
        /\ UNCHANGED <<file, disk, diskMetas>>
    BY DEF RollBack, Owner, diskVars
  <1>2. PICK t \in {0, 1} : FrozenAt(t)
    BY DEF Frozen
  <1>3. /\ Toggle = 1 - t /\ Loses(metab.mm_txnid, t)
        /\ metas \in [{0, 1} -> Metas]
    BY <1>1, <1>2 DEF FrozenAt, IndInv, TypeOK, FileTypeOK
  <1>4. PICK b : b = RolledBack
    OBVIOUS
  <1>5. b.mm_txnid = metab.mm_txnid
    BY <1>1, <1>4, NewMetaType
  <1>6. metas'[t] = metas[t] /\ metas'[1 - t] \in {metas[1 - t], b}
    BY <1>1, <1>3, <1>4
  <1>7. \A x : Sound(x)' <=> Sound(x)
    BY <1>1 DEF Sound, Intact
  <1>8. \A n : Loses(n, t) => Loses(n, t)'
    BY <1>6 DEF Loses
  <1>9. FrozenAt(t)'
    <2>1. diskMetas'[t] = metas'[t] /\ Sound(metas[t])'
      BY <1>1, <1>2, <1>6, <1>7 DEF FrozenAt
    <2>2. ASSUME NEW x, x = metas'[1 - t] \/ x = diskMetas'[1 - t]
          PROVE  Sound(x)' \/ Loses(x.mm_txnid, t)'
      BY <1>1, <1>2, <1>3, <1>5, <1>6, <1>7, <1>8, <2>2 DEF FrozenAt
    <2> QED
      BY <1>1, <2>1, <2>2 DEF FrozenAt
  <1> QED
    BY <1>1, <1>9 DEF Frozen

(* The disk takes what the map has, all of it or some. *)
LEMMA EnvSyncFrozen ==
    ASSUME IndInv, Frozen, doubt = "failed", NEW p \in Procs, EnvSync(p)
    PROVE  Frozen'
  <1>1. /\ disk' = file /\ diskMetas' = metas
        /\ UNCHANGED <<file, metas, wpc, metab, mt_txnid>>
    BY DEF EnvSync, fileVars, txnVars
  <1>2. PICK t \in {0, 1} : FrozenAt(t)
    BY DEF Frozen
  <1>3. \A x : Sound(x) => Sound(x)'
    BY <1>1 DEF Sound, Intact
  <1>4. \A n : Loses(n, t) => Loses(n, t)'
    BY <1>1 DEF Loses
  <1>5. FrozenAt(t)'
    <2>1. diskMetas'[t] = metas'[t] /\ Sound(metas[t])'
      BY <1>1, <1>2, <1>3 DEF FrozenAt
    <2>2. ASSUME NEW x, x = metas'[1 - t] \/ x = diskMetas'[1 - t]
          PROVE  Sound(x)' \/ Loses(x.mm_txnid, t)'
      BY <1>1, <1>2, <1>3, <1>4, <2>2 DEF FrozenAt
    <2>3. Toggle' = Toggle
      BY <1>1 DEF Toggle
    <2> QED
      BY <1>1, <1>2, <1>4, <2>1, <2>2, <2>3 DEF FrozenAt
  <1> QED
    BY <1>1, <1>5 DEF Frozen

LEMMA SystemCrashFrozen ==
    ASSUME IndInv, Frozen, doubt = "failed", SystemCrash
    PROVE  Frozen'
  <1>1. /\ \A x \in Pgnos : file'[x] = file[x] \/ file'[x] = disk[x]
        /\ disk' = file' /\ diskMetas' = metas' /\ wpc' = "idle"
        /\ \A i \in {0, 1} : metas'[i] \in {metas[i], diskMetas[i]}
    BY DEF SystemCrash, ForgetTxn
  <1>2. PICK t \in {0, 1} : FrozenAt(t)
    BY DEF Frozen
  <1>3. ASSUME NEW m \in Metas, Sound(m)
        PROVE  Sound(m)'
    BY <1>1, <1>3, MetaPages DEF Sound, Intact
  <1>4. metas'[t] = metas[t] /\ metas[t] \in Metas
    BY <1>1, <1>2, Numbers DEF FrozenAt
  <1>5. \A n : Loses(n, t) => Loses(n, t)'
    BY <1>4 DEF Loses
  <1>6. Sound(metas[t])'
    BY <1>2, <1>3, <1>4 DEF FrozenAt
  <1>7. PICK x \in Metas : x = metas'[1 - t] /\ x \in {metas[1 - t], diskMetas[1 - t]}
    BY <1>1, Numbers
  <1>8. Sound(x)' \/ Loses(x.mm_txnid, t)'
    BY <1>2, <1>3, <1>5, <1>7 DEF FrozenAt
  <1>9. FrozenAt(t)'
    BY <1>1, <1>6, <1>7, <1>8 DEF FrozenAt
  <1> QED
    BY <1>1, <1>9 DEF Frozen

LEMMA NextFrozen ==
    ASSUME KnownInv, [Next]_vars, doubt' = "failed"
    PROVE  Frozen'
  <1> USE DEF KnownInv
  <1>1. CASE doubt # "failed"
    <2>1. PICK p \in Procs : WriteMetaFails(p) /\ doubt = "none"
      BY <1>1, DoubtSteps DEF WriteMetaFails
    <2> QED
      BY <2>1, FailsFrozen
  <1>2. CASE doubt = "failed"
    <2>1. wpc \in {"rollback", "error", "idle"}
      BY <1>2 DEF Frozen
    <2>2. CASE UNCHANGED vars
      BY <1>2, <2>2, KeepFrozen DEF vars, fileVars, diskVars, txnVars
    <2>3. CASE SystemCrash
      BY <1>2, <2>3, SystemCrashFrozen
    <2>4. ASSUME NEW p \in Procs, Write(p)
          PROVE  Frozen'
      <3>1. CASE RollBack(p)
        BY <1>2, <3>1, RollBackFrozen
      <3>2. CASE Abort(p) \/ CommitNothing(p) \/ Unlock(p)
        BY <1>2, <3>2, KeepFrozen
        DEF Abort, CommitNothing, Unlock, EndTxn, ForgetTxn, fileVars, diskVars
      <3>3. CASE BeginPanics(p)
        BY <1>2, <3>3, KeepFrozen DEF BeginPanics, fileVars, diskVars, txnVars
      <3>4. ~BeginWrite(p)
        BY <1>2 DEF BeginWrite
      <3>5. (Work(p) \/ Commit(p) \/ Save(p)) => Abort(p)
        <4>1. Work(p) => Abort(p)
          BY <2>1 DEF Work, WriteNode, LoosePage, FreeOverflow, EmptyRoot, Drop,
             WriteFails, MapFull, RemoveStep, Owner
        <4>2. ~Commit(p)
          BY <2>1 DEF Commit, Owner
        <4>3. ~Save(p)
          BY <2>1 DEF Save, SaveTouches, SaveLoose, SaveDeletes, SaveReserves,
             SavePuts, SaveReturns, SaveFails, SaveStep, MapFull, Owner
        <4> QED
          BY <4>1, <4>2, <4>3
      <3>6. /\ ~FlushPage(p) /\ ~Flushed(p) /\ ~Sync(p) /\ ~WriteMeta(p)
            /\ ~SyncMeta(p) /\ ~PublishTxnid(p) /\ ~WriteMetaFails(p)
        BY <2>1 DEF FlushPage, Flushed, Sync, WriteMeta, SyncMeta, PublishTxnid,
           WriteMetaFails, CommitStep, Owner
      <3> QED
        BY <2>4, <3>1, <3>2, <3>3, <3>4, <3>5, <3>6 DEF Write
    <2>5. ASSUME NEW p \in Procs, EnvSync(p)
          PROVE  Frozen'
      BY <1>2, <2>5, EnvSyncFrozen
    <2>6. ASSUME NEW p \in Procs, Read(p)
          PROVE  Frozen'
      BY <1>2, <2>6, KeepFrozen DEF Read, LoadTxnid, StoreTxnid, CheckTxnid,
         CopyDbs, CopyLastPg, EndRead, ReadStep, fileVars, diskVars, txnVars
    <2>7. ASSUME NEW p \in Procs, ReaderCheck(p) \/ Crash(p) \/ Open(p)
          PROVE  Frozen'
      BY <1>2, <2>7, KeepFrozen DEF ReaderCheck, Crash, Open, ForgetTxn,
         fileVars, diskVars, txnVars
    <2> QED
      BY <2>2, <2>3, <2>4, <2>5, <2>6, <2>7 DEF Next
  <1> QED
    BY <1>1, <1>2

LEMMA SpecKnown == Spec => []KnownInv
  <1>1. Init => KnownInv
    BY InitInd, InitOrder, InitPages DEF KnownInv, SureInv, PagesInv, Frozen, Init
  <1>2. ASSUME KnownInv, [Next]_vars
        PROVE  KnownInv'
    <2>1. IndInv'
      BY <1>2, NextInd DEF KnownInv
    <2>2. ASSUME doubt' = "none"
          PROVE  SureInv'
      <3>1. doubt = "none"
        BY <1>2, <2>2, DoubtOnce DEF KnownInv
      <3> QED
        BY <1>2, <2>2, <3>1, NextOrder, NextLooks, NextPages DEF KnownInv, SureInv
    <2>3. Frozen'
      BY <1>2, NextFrozen DEF Frozen
    <2> QED
      BY <2>1, <2>2, <2>3 DEF KnownInv
  <1> QED
    BY <1>1, <1>2, PTL DEF Spec

(* Where no write of a meta page fails, it holds for good. *)
SafeInv == IndInv /\ doubt = "none" /\ OrderInv /\ LooksOK /\ PagesInv

LEMMA SpecSafe ==
    ASSUME "meta" \notin Faults
    PROVE  Spec => []SafeInv
  <1>1. KnownInv /\ doubt = "none" => SafeInv
    BY DEF KnownInv, SureInv, SafeInv
  <1> QED
    BY <1>1, SpecKnown, SpecNoDoubt, PTL

(* Whatever part of the unsynced writes reaches the disk, the meta page    *)
(* that mdb_env_pick_meta finds after a restart, or after the death of a   *)
(* writer, refers to pages that are all there, in the file and on disk: in *)
(* any mode and whoever dies, and also after the write of a meta page has  *)
(* failed, and the roll-back with it, until somebody writes again.         *)
THEOREM AlwaysRecoverable == Spec => []Recoverable
  <1>1. ASSUME IndInv, OrderInv, MetasSafe,
               NEW m0 \in {metas[0], diskMetas[0]},
               NEW m1 \in {metas[1], diskMetas[1]}
        PROVE  LET m == Newest([i \in {0, 1} |-> IF i = 0 THEN m0 ELSE m1])
               IN  Intact(m, file) /\ Intact(m, disk)
    <2> DEFINE ms == [i \in {0, 1} |-> IF i = 0 THEN m0 ELSE m1]
               j == IF ms[0].mm_txnid < ms[1].mm_txnid THEN 1 ELSE 0
    <2>1. /\ ms \in [{0, 1} -> Metas]
          /\ \A i \in {0, 1} : ms[i] \in {metas[i], diskMetas[i]}
      BY <1>1, Numbers
    <2>2. j \in {0, 1} /\ ms[j] = metas[j] /\ Needed(j)
      <3> HIDE DEF ms
      <3> QED
        BY <1>1, <2>1, PickIsNeeded
    <2>3. Kept(metas[j]) /\ Intact(metas[j], disk)
      <3> HIDE DEF j
      <3> QED
        BY <1>1, <2>2 DEF MetasSafe
    <2>4. Newest(ms) = ms[j]
      BY DEF Newest
    <2> HIDE DEF ms, j
    <2> QED
      BY <2>2, <2>3, <2>4 DEF Kept, ms
  <1>2. ASSUME NEW t \in {0, 1}, FrozenAt(t), IndInv,
               NEW m0 \in {metas[0], diskMetas[0]},
               NEW m1 \in {metas[1], diskMetas[1]}
        PROVE  LET m == Newest([i \in {0, 1} |-> IF i = 0 THEN m0 ELSE m1])
               IN  Intact(m, file) /\ Intact(m, disk)
    <2> DEFINE ms == [i \in {0, 1} |-> IF i = 0 THEN m0 ELSE m1]
    <2>1. ms[0] = m0 /\ ms[1] = m1
      OBVIOUS
    <2>2. /\ m0 \in Metas /\ m1 \in Metas
          /\ m0.mm_txnid \in Nat /\ m1.mm_txnid \in Nat
      BY <1>2, Numbers
    <2>3. Newest(ms) = IF m0.mm_txnid < m1.mm_txnid THEN m1 ELSE m0
      BY <2>1 DEF Newest
    <2> HIDE DEF ms
    <2>4. CASE t = 0
      <3>1. m0 = metas[0] /\ Sound(m0) /\ (Sound(m1) \/ Loses(m1.mm_txnid, 0))
        BY <1>2, <2>4 DEF FrozenAt
      <3> QED
        BY <2>2, <2>3, <3>1 DEF Sound, Loses, ms
    <2>5. CASE t = 1
      <3>1. m1 = metas[1] /\ Sound(m1) /\ (Sound(m0) \/ Loses(m0.mm_txnid, 1))
        BY <1>2, <2>5 DEF FrozenAt
      <3> QED
        BY <2>2, <2>3, <3>1 DEF Sound, Loses, ms
    <2> QED
      BY <2>4, <2>5
  <1>3. KnownInv => Recoverable
    <2>1. KnownInv /\ doubt = "none" => Whole
      BY <1>1 DEF KnownInv, SureInv, PagesInv, Whole
    <2>2. KnownInv /\ doubt = "failed" => Whole
      BY <1>2 DEF KnownInv, Frozen, Whole
    <2>3. KnownInv => doubt \in DOUBT
      BY DEF KnownInv, IndInv, TypeOK, GhostTypeOK
    <2> QED
      BY <2>1, <2>2, <2>3 DEF Recoverable, DOUBT
  <1> QED
    BY SpecKnown, <1>3, PTL

LEMMA NoPlace ==
    \A S : (\A x : x \notin S) => Cardinality(S) = 0
  <1> SUFFICES ASSUME NEW S, \A x : x \notin S PROVE Cardinality(S) = 0
    OBVIOUS
  <1>1. S = {}
    OBVIOUS
  <1> QED
    BY <1>1, FS_EmptySet

LEMMA InPlaces ==
    ASSUME NEW pg, NEW dbs, NEW recs, NEW x
    PROVE  x \in Places(pg, dbs, recs) <=>
               \/ \E n \in AllNodes : dbs[n] = pg /\ x = <<"tree", n>>
               \/ \E k \in Txnids : pg \in recs[k] /\ x = <<"record", k>>
  BY DEF Places

LEMMA AccountedOnce ==
    ASSUME NEW m \in Metas, Accounted(m)
    PROVE  \A pg \in Pgnos :
              Cardinality(Places(pg, m.mm_dbs, m.freedb)) =
                  IF pg <= m.mm_last_pg THEN 1 ELSE 0
  <1> TAKE pg \in Pgnos
  <1>a. PICK S : S = Places(pg, m.mm_dbs, m.freedb)
    OBVIOUS
  <1>0. \A x : x \in S <=>
            \/ \E n \in AllNodes : m.mm_dbs[n] = pg /\ x = <<"tree", n>>
            \/ \E k \in Txnids : pg \in m.freedb[k] /\ x = <<"record", k>>
    BY <1>a, InPlaces
  <1>1. /\ TreeOnce(m.mm_dbs) /\ pg # P_INVALID
        /\ \A k \in Txnids : pg \in m.freedb[k] =>
              /\ ~InTree(pg, m.mm_dbs)
              /\ \A j \in Txnids : pg \in m.freedb[j] => j = k
        /\ pg <= m.mm_last_pg <=>
              InTree(pg, m.mm_dbs) \/ \E k \in Txnids : pg \in m.freedb[k]
    BY ConstantTypes DEF Accounted
  <1>2. CASE InTree(pg, m.mm_dbs)
    <2>1. PICK n \in AllNodes : m.mm_dbs[n] = pg
      BY <1>2 DEF InTree
    <2>2. \A x : x \in S <=> x = <<"tree", n>>
      BY <1>1, <1>2, <2>1, <1>0 DEF TreeOnce
    <2>3. S = {<<"tree", n>>}
      BY <2>2
    <2> QED
      BY <1>1, <1>2, <1>a, <2>3, FS_Singleton
  <1>3. CASE \E k \in Txnids : pg \in m.freedb[k]
    <2>1. PICK k \in Txnids : pg \in m.freedb[k]
      BY <1>3
    <2>2. \A x : x \in S <=> x = <<"record", k>>
      BY <1>1, <2>1, <1>0 DEF InTree
    <2>3. S = {<<"record", k>>}
      BY <2>2
    <2> QED
      BY <1>1, <1>3, <1>a, <2>3, FS_Singleton
  <1>4. CASE ~InTree(pg, m.mm_dbs) /\ ~\E k \in Txnids : pg \in m.freedb[k]
    <2>1. \A x : x \notin S
      BY <1>4, <1>0 DEF InTree
    <2> QED
      BY <1>1, <1>4, <2>1, NoPlace, <1>a
  <1> QED
    BY <1>2, <1>3, <1>4

LEMMA WorkOnceEach ==
    ASSUME WorkOnce, WorkCovers
    PROVE  \A pg \in Pgnos :
              Cardinality(Places(pg, mt_dbs, [k \in Txnids |->
                IF k <= me_pglast \/ k = mt_txnid THEN {} ELSE freedb[k]])
              \cup {<<list[1], 0>> : list \in
                {l \in {<<"freed", mt_free_pgs>>, <<"head", me_pghead>>,
                        <<"loose", mt_loose_pgs>>} : pg \in l[2]}}) =
                IF pg < mt_next_pgno THEN 1 ELSE 0
  <1> TAKE pg \in Pgnos
  <1> DEFINE recs == [k \in Txnids |->
                IF k <= me_pglast \/ k = mt_txnid THEN {} ELSE freedb[k]]
             lists == {<<list[1], 0>> : list \in
                {l \in {<<"freed", mt_free_pgs>>, <<"head", me_pghead>>,
                        <<"loose", mt_loose_pgs>>} : pg \in l[2]}}
             S == Places(pg, mt_dbs, recs) \cup lists
  <1>1. \A x : x \in lists <=> \/ pg \in mt_free_pgs /\ x = <<"freed", 0>>
                               \/ pg \in me_pghead /\ x = <<"head", 0>>
                               \/ pg \in mt_loose_pgs /\ x = <<"loose", 0>>
    <2> DEFINE L == {l \in {<<"freed", mt_free_pgs>>, <<"head", me_pghead>>,
                            <<"loose", mt_loose_pgs>>} : pg \in l[2]}
    <2>1. \A l : l \in L <=>
              \/ pg \in mt_free_pgs /\ l = <<"freed", mt_free_pgs>>
              \/ pg \in me_pghead /\ l = <<"head", me_pghead>>
              \/ pg \in mt_loose_pgs /\ l = <<"loose", mt_loose_pgs>>
      OBVIOUS
    <2>2. \A x : x \in lists <=> \E l \in L : x = <<l[1], 0>>
      OBVIOUS
    <2>3. /\ <<"freed", mt_free_pgs>>[1] = "freed"
          /\ <<"head", me_pghead>>[1] = "head"
          /\ <<"loose", mt_loose_pgs>>[1] = "loose"
      OBVIOUS
    <2> HIDE DEF L, lists
    <2> QED
      BY <2>1, <2>2, <2>3, Zenon
  <1>2. \A k \in Txnids : recs[k] = LiveRec(k)
    BY DEF LiveRec
  <1>3. \A x : x \in S <=>
            \/ \E n \in AllNodes : mt_dbs[n] = pg /\ x = <<"tree", n>>
            \/ \E k \in Txnids : pg \in LiveRec(k) /\ x = <<"record", k>>
            \/ pg \in mt_free_pgs /\ x = <<"freed", 0>>
            \/ pg \in me_pghead /\ x = <<"head", 0>>
            \/ pg \in mt_loose_pgs /\ x = <<"loose", 0>>
    <2> HIDE DEF lists, recs
    <2> QED
      BY <1>1, <1>2, InPlaces
  <1>4. /\ TreeOnce(mt_dbs) /\ pg # P_INVALID
        /\ InTree(pg, mt_dbs) => pg \notin mt_free_pgs /\ ~Stock(pg)
        /\ pg \in mt_free_pgs => ~Stock(pg)
        /\ StockOnce(pg)
        /\ pg < mt_next_pgno <=> InTree(pg, mt_dbs) \/ pg \in mt_free_pgs \/ Stock(pg)
    BY ConstantTypes DEF WorkOnce, WorkCovers
  <1> HIDE DEF S, LiveRec
  <1>5. CASE InTree(pg, mt_dbs)
    <2>1. PICK n \in AllNodes : mt_dbs[n] = pg
      BY <1>5 DEF InTree
    <2>2. \A x : x \in S <=> x = <<"tree", n>>
      BY <1>3, <1>4, <1>5, <2>1 DEF TreeOnce, Stock
    <2>3. S = {<<"tree", n>>}
      BY <2>2
    <2> QED
      BY <1>4, <1>5, <2>3, FS_Singleton DEF S
  <1>6. CASE pg \in mt_free_pgs
    <2>1. \A x : x \in S <=> x = <<"freed", 0>>
      BY <1>3, <1>4, <1>6 DEF InTree, Stock
    <2>2. S = {<<"freed", 0>>}
      BY <2>1
    <2> QED
      BY <1>4, <1>6, <2>2, FS_Singleton DEF S
  <1>7. CASE pg \in me_pghead
    <2>1. \A x : x \in S <=> x = <<"head", 0>>
      BY <1>3, <1>4, <1>7 DEF InTree, Stock, StockOnce
    <2>2. S = {<<"head", 0>>}
      BY <2>1
    <2> QED
      BY <1>4, <1>7, <2>2, FS_Singleton DEF S, Stock
  <1>8. CASE pg \in mt_loose_pgs
    <2>1. \A x : x \in S <=> x = <<"loose", 0>>
      BY <1>3, <1>4, <1>8 DEF InTree, Stock, StockOnce
    <2>2. S = {<<"loose", 0>>}
      BY <2>1
    <2> QED
      BY <1>4, <1>8, <2>2, FS_Singleton DEF S, Stock
  <1>9. CASE \E k \in Txnids : pg \in LiveRec(k)
    <2>1. PICK k \in Txnids : pg \in LiveRec(k)
      BY <1>9
    <2>2. \A x : x \in S <=> x = <<"record", k>>
      BY <1>3, <1>4, <2>1 DEF InTree, Stock, StockOnce
    <2>3. S = {<<"record", k>>}
      BY <2>2
    <2> QED
      BY <1>4, <2>1, <2>3, FS_Singleton DEF S, Stock
  <1>10. CASE ~InTree(pg, mt_dbs) /\ pg \notin mt_free_pgs /\ ~Stock(pg)
    <2>1. \A x : x \notin S
      BY <1>3, <1>10 DEF InTree, Stock
    <2> QED
      BY <1>4, <1>10, <2>1, NoPlace DEF S
  <1> QED
    BY <1>5, <1>6, <1>7, <1>8, <1>9, <1>10 DEF Stock

(* Of every page up to the last there is exactly one use, in the newest    *)
(* meta page (the tree, or one freeDB record) and at every moment of a     *)
(* transaction that allocates, frees and saves its freeDB                  *)
(* (mdb_page_alloc, mdb_page_loose, mdb_ovpage_free, mdb_freelist_save):   *)
(* no page leaks and none is given out twice.                              *)
THEOREM PagesUsedOnce ==
    "meta" \notin Faults => (Spec => []PagesAccounted)
  <1> SUFFICES ASSUME "meta" \notin Faults PROVE Spec => []PagesAccounted
    OBVIOUS
  <1>1. ASSUME SafeInv
        PROVE  CommitAccounted
    <2>1. Newest(metas) = Top /\ Top \in Metas
      BY <1>1, NewestIsTop, Numbers DEF SafeInv
    <2>2. Accounted(Top)
      <3>1. TopIdx \in {0, 1} /\ Needed(TopIdx)
        BY DEF Needed, TopIdx
      <3> QED
        BY <1>1, <3>1 DEF SafeInv, PagesInv, MetasSafe, Top
    <2> QED
      BY <2>1, <2>2, AccountedOnce DEF CommitAccounted
  <1>2. ASSUME SafeInv, wpc \in {"work", "save", "loop", "put"}
        PROVE  WorkOnce /\ WorkCovers
    BY <1>2 DEF SafeInv, PagesInv, WorkInv, Filling
  <1>3. SafeInv => PagesAccounted
    BY <1>1, <1>2, WorkOnceEach DEF PagesAccounted, WorkAccounted
  <1> QED
    BY SpecSafe, <1>3, PTL

-----------------------------------------------------------------------------
(* Snapshots of readers, in an environment where no write of a meta page   *)
(* fails: such a page has the trees of the transaction that failed, under  *)
(* its number or, written back over, that of the one two commits before.   *)
LEMMA SlotOf ==
    ASSUME IndInv, LooksOK, NEW q \in Procs, rpc[q] \in Holding
    PROVE  mr_txnid[q] \in Nat /\ mr_txnid[q] % 2 \in {0, 1}
  <1>1. mr_txnid[q] \in Txnids \cup {IDLE} /\ mr_txnid[q] # IDLE
    BY DEF IndInv, TypeOK, LockTypeOK, LooksOK
  <1>2. mr_txnid[q] \in Nat
    BY <1>1 DEF Txnids
  <1> QED
    BY <1>2, Parity

(* A step that carries snapshots, and leaves a reader and its meta page    *)
(* alone.                                                                  *)
LEMMA CarriesReader ==
    ASSUME IndInv, OrderInv, LooksOK, Carries, NEW q \in Procs, ReaderSafe(q),
           UNCHANGED metas,
           rpc'[q] = rpc[q], mr_txnid'[q] = mr_txnid[q], snap'[q] = snap[q],
           rnext'[q] = rnext[q]
    PROVE  ReaderSafe(q)'
  <1>1. CASE rpc[q] \notin Holding
    BY <1>1 DEF ReaderSafe, Holding
  <1>2. CASE rpc[q] = "dbs"
    <2>1. mr_txnid[q] % 2 \in {0, 1}
      BY <1>2, SlotOf DEF Holding
    <2>2. PICK m \in Metas : m = metas[mr_txnid[q] % 2]
      BY <2>1, Numbers
    <2>3. Kept(m) /\ mr_txnid[q] <= m.mm_txnid /\ PagesUpTo(m, m.mm_last_pg)
      BY <1>2, <2>2 DEF ReaderSafe
    <2>4. Kept(m)'
      BY <1>2, <2>3, ReaderHeld DEF Carries, Holding
    <2>5. metas'[mr_txnid'[q] % 2] = m
      BY <2>2
    <2> QED
      BY <1>2, <2>3, <2>4, <2>5 DEF ReaderSafe
  <1>3. CASE rpc[q] \in {"last", "open"}
    <2>1. PICK m \in Metas : m = snap[q]
      BY DEF IndInv, TypeOK, ReadTypeOK
    <2>2. Kept(m) /\ mr_txnid[q] <= m.mm_txnid
      BY <1>3, <2>1 DEF ReaderSafe
    <2>3. Kept(m)'
      BY <1>3, <2>2, ReaderHeld DEF Carries, Holding
    <2>4. snap'[q] = m
      BY <2>1
    <2> QED
      BY <1>3, <2>1, <2>2, <2>3, <2>4 DEF ReaderSafe
  <1> QED
    BY <1>1, <1>2, <1>3 DEF Holding

LEMMA CarriesReaders ==
    ASSUME IndInv, OrderInv, LooksOK, Carries, ReadersSafe,
           UNCHANGED <<metas, readVars, mr_txnid>>
    PROVE  ReadersSafe'
  <1> SUFFICES ASSUME NEW q \in Procs PROVE ReaderSafe(q)'
    BY DEF ReadersSafe
  <1>1. ReaderSafe(q) /\ UNCHANGED <<rpc, mr_txnid, snap, rnext>>
    BY DEF ReadersSafe, readVars
  <1> QED
    BY <1>1, CarriesReader

(* The meta page that a reader is copying may be written under its hands:  *)
(* the new one has all the pages of the old, and more.                     *)
LEMMA WriteMetaReaders ==
    ASSUME IndInv, OrderInv, LooksOK, PagesInv, ReadersSafe,
           NEW p \in Procs, WriteMeta(p)
    PROVE  ReadersSafe'
  <1> SUFFICES ASSUME NEW q \in Procs PROVE ReaderSafe(q)'
    BY DEF ReadersSafe
  <1>1. /\ wpc = "meta" /\ metas' = [metas EXCEPT ![Toggle] = NewMeta]
        /\ UNCHANGED <<rpc, mr_txnid, snap, rnext>>
    BY DEF WriteMeta, CommitStep, Owner, readVars
  <1>2. Toggle = 1 - TopIdx /\ Toggle \in {0, 1} /\ TopIdx \in {0, 1}
    BY <1>1, ToggleIsOther DEF Before, Filled
  <1>3. metas' \in [{0, 1} -> Metas] /\ metas \in [{0, 1} -> Metas]
    BY NextInd DEF IndInv, TypeOK, FileTypeOK, Next, Write
  <1>4. PICK m \in Metas : m = NewMeta
    BY <1>1, <1>2, <1>3
  <1>5. \A i \in {0, 1} : metas'[i] = IF i = Toggle THEN m ELSE metas[i]
    BY <1>1, <1>2, <1>3, <1>4
  <1>6. Carries /\ Kept(m)' /\ Accounted(m) /\ Top' = m
    BY <1>4, NewMetaKept, WriteMetaPages, WriteMetaOrder
  <1>7. ReaderSafe(q)
    BY DEF ReadersSafe
  <1>8. CASE rpc[q] \notin Holding
    BY <1>1, <1>8 DEF ReaderSafe, Holding
  <1>9. CASE rpc[q] = "dbs"
    <2>1. mr_txnid[q] % 2 \in {0, 1} /\ mr_txnid[q] \in Nat
      BY <1>9, SlotOf DEF Holding
    <2>2. PICK o \in Metas : o = metas[mr_txnid[q] % 2]
      BY <2>1, Numbers
    <2>3. Kept(o) /\ mr_txnid[q] <= o.mm_txnid /\ PagesUpTo(o, o.mm_last_pg)
      BY <1>7, <1>9, <2>2 DEF ReaderSafe
    <2>4. CASE mr_txnid[q] % 2 = Toggle
      <3>1. metas'[mr_txnid'[q] % 2] = m
        BY <1>1, <1>5, <2>1, <2>4
      <3>2. PagesUpTo(m, m.mm_last_pg)
        BY <1>6, MetaPages DEF Accounted, PagesUpTo
      <3>3. mr_txnid[q] <= m.mm_txnid
        <4>1. o.mm_txnid <= Top.mm_txnid /\ m.mm_txnid = Top.mm_txnid + 1
          BY <1>1, <1>4, <2>3, NewMetaFields
          DEF Kept, OrderInv, PublishedOrdered, Before, Filled
        <4> QED
          BY <2>1, <2>3, <4>1, MetaPages, Numbers
      <3> QED
        BY <1>1, <1>6, <1>9, <3>1, <3>2, <3>3 DEF ReaderSafe
    <2>5. CASE mr_txnid[q] % 2 # Toggle
      <3>1. metas'[mr_txnid'[q] % 2] = o
        BY <1>1, <1>5, <2>1, <2>2, <2>5
      <3>2. Kept(o)'
        BY <1>6, <1>9, <2>3, ReaderHeld DEF Carries, Holding
      <3> QED
        BY <1>1, <1>9, <2>3, <3>1, <3>2 DEF ReaderSafe
    <2> QED
      BY <2>4, <2>5
  <1>10. CASE rpc[q] \in {"last", "open"}
    <2>1. mr_txnid[q] % 2 \in {0, 1}
      BY <1>10, SlotOf DEF Holding
    <2>2. PICK o \in Metas : o = snap[q]
      BY DEF IndInv, TypeOK, ReadTypeOK
    <2>3. Kept(o) /\ mr_txnid[q] <= o.mm_txnid
      BY <1>7, <1>10, <2>2 DEF ReaderSafe
    <2>4. Kept(o)'
      BY <1>6, <1>10, <2>3, ReaderHeld DEF Carries, Holding
    <2>5. ASSUME rpc[q] = "last"
          PROVE  PagesUpTo(o, metas'[mr_txnid[q] % 2].mm_last_pg)
      <3>1. PagesUpTo(o, metas[mr_txnid[q] % 2].mm_last_pg)
        BY <1>7, <2>2, <2>5 DEF ReaderSafe
      <3>2. PagesUpTo(o, m.mm_last_pg)
        BY <1>6, <2>4 DEF Kept, Spares, PagesUpTo
      <3> QED
        BY <1>5, <2>1, <3>1, <3>2
    <2> QED
      BY <1>1, <1>7, <1>10, <2>2, <2>3, <2>4, <2>5 DEF ReaderSafe
  <1> QED
    BY <1>8, <1>9, <1>10 DEF Holding

(* What a reader finds in its slot when it is still the newest.            *)
LEMMA PublishedMeta ==
    ASSUME IndInv, OrderInv, SomeAlive
    PROVE  /\ mti_txnid % 2 \in {0, 1} /\ Needed(mti_txnid % 2)
           /\ mti_txnid <= metas[mti_txnid % 2].mm_txnid
  <1>1. /\ mti_txnid \in {Top.mm_txnid, Top.mm_txnid - 1} /\ mti_txnid \in Nat
        /\ Top.mm_txnid % 2 = TopIdx /\ Top.mm_txnid \in Nat
        /\ TopIdx \in {0, 1}
        /\ Old.mm_txnid = IF Top.mm_txnid = 0 THEN 0 ELSE Top.mm_txnid - 1
    BY Numbers DEF OrderInv, PublishedOrdered, MetasOrdered
  <1>2. mti_txnid % 2 \in {0, 1} /\ Needed(mti_txnid % 2)
    BY <1>1, Parity DEF Needed
  <1>3. CASE mti_txnid = Top.mm_txnid
    BY <1>1, <1>2, <1>3 DEF Top
  <1>4. CASE mti_txnid = Top.mm_txnid - 1
    <2>1. Old.mm_txnid = mti_txnid
      BY <1>1, <1>4
    <2>2. Top.mm_txnid = mti_txnid + 1
      BY <1>1, <1>4
    <2>3. TopIdx = 1 - (mti_txnid % 2)
      BY <1>1, <2>2, Parity
    <2>4. 1 - TopIdx = mti_txnid % 2
      BY <1>2, <2>3
    <2>5. metas[mti_txnid % 2].mm_txnid = mti_txnid
      BY <2>1, <2>4 DEF Old
    <2> QED
      BY <1>1, <1>2, <2>5
  <1> QED
    BY <1>1, <1>3, <1>4

LEMMA ReadReaders ==
    ASSUME IndInv, OrderInv, LooksOK, PagesInv, ReadersSafe,
           NEW p \in Procs, Read(p)
    PROVE  ReadersSafe'
  <1> SUFFICES ASSUME NEW q \in Procs PROVE ReaderSafe(q)'
    BY DEF ReadersSafe
  <1>1. Carries /\ ReaderSafe(q) /\ ReaderSafe(p) /\ ReadTypeOK /\ LockTypeOK
    BY OthersPages DEF ReadersSafe, IndInv, TypeOK
  <1>2. alive[p] /\ UNCHANGED <<metas, mti_txnid>> /\ SomeAlive
    BY DEF Read, LoadTxnid, StoreTxnid, CheckTxnid, CopyDbs, CopyLastPg, EndRead,
       ReadStep, fileVars, lockVars, SomeAlive
  <1>3. CASE q # p
    <2>1. /\ rpc'[q] = rpc[q] /\ mr_txnid'[q] = mr_txnid[q]
          /\ snap'[q] = snap[q] /\ rnext'[q] = rnext[q]
      BY <1>1, <1>3 DEF Read, LoadTxnid, StoreTxnid, CheckTxnid, CopyDbs,
         CopyLastPg, EndRead, ReadStep, lockVars, ReadTypeOK, LockTypeOK
    <2> QED
      BY <1>1, <1>2, <2>1, CarriesReader
  <1>4. CASE q = p
    <2>1. CASE LoadTxnid(p) \/ StoreTxnid(p) \/ EndRead(p)
      <3>1. rpc'[p] \notin Holding
        BY <1>1, <2>1 DEF LoadTxnid, StoreTxnid, EndRead, ReadStep, ReadTypeOK, Holding
      <3> QED
        BY <1>4, <3>1 DEF ReaderSafe, Holding
    <2>2. CASE CheckTxnid(p)
      <3>1. rpc'[p] = "dbs" /\ mr_txnid' = mr_txnid /\ mr_txnid[p] = mti_txnid
        BY <1>1, <2>2 DEF CheckTxnid, ReadStep, lockVars, ReadTypeOK
      <3>2. /\ mti_txnid % 2 \in {0, 1} /\ Needed(mti_txnid % 2)
            /\ mti_txnid <= metas[mti_txnid % 2].mm_txnid
        BY <1>2, PublishedMeta
      <3>3. PICK m \in Metas : m = metas[mti_txnid % 2]
        BY <3>2, Numbers
      <3>4. Kept(m) /\ Accounted(m) /\ Held(m)
        BY <3>2, <3>3, MetasHeld DEF PagesInv, MetasSafe
      <3>5. Kept(m)' /\ PagesUpTo(m, m.mm_last_pg)
        BY <1>1, <3>4, MetaPages DEF Carries, Accounted, PagesUpTo
      <3>6. metas'[mr_txnid'[p] % 2] = m /\ mr_txnid'[p] <= m.mm_txnid
        BY <1>2, <3>1, <3>2, <3>3
      <3> QED
        BY <1>4, <3>1, <3>5, <3>6 DEF ReaderSafe
    <2>3. CASE CopyDbs(p)
      <3>1. /\ rpc[p] = "dbs" /\ rpc'[p] = "last" /\ mr_txnid' = mr_txnid
            /\ snap'[p] = metas[mr_txnid[p] % 2]
        BY <1>1, <2>3 DEF CopyDbs, ReadStep, ReadMeta, lockVars, ReadTypeOK
      <3>2. PICK m \in Metas : m = metas[mr_txnid[p] % 2]
        BY <3>1, SlotOf, Numbers DEF Holding
      <3>3. Kept(m) /\ mr_txnid[p] <= m.mm_txnid /\ PagesUpTo(m, m.mm_last_pg)
        BY <1>1, <3>1, <3>2 DEF ReaderSafe
      <3>4. Kept(m)'
        BY <1>1, <3>1, <3>3, ReaderHeld DEF Carries, Holding
      <3>5. snap'[p] = m /\ metas'[mr_txnid'[p] % 2] = m
        BY <1>2, <3>1, <3>2
      <3> QED
        BY <1>4, <3>1, <3>3, <3>4, <3>5 DEF ReaderSafe
    <2>4. CASE CopyLastPg(p)
      <3>1. /\ rpc[p] = "last" /\ rpc'[p] = "open"
            /\ UNCHANGED <<mr_txnid, snap>>
            /\ rnext'[p] = metas[mr_txnid[p] % 2].mm_last_pg + 1
        BY <1>1, <2>4 DEF CopyLastPg, ReadStep, ReadMeta, lockVars, ReadTypeOK
      <3>2. PICK m \in Metas : m = snap[p]
        BY <1>1 DEF ReadTypeOK
      <3>3. Kept(m) /\ mr_txnid[p] <= m.mm_txnid
        BY <1>1, <3>1, <3>2 DEF ReaderSafe
      <3>4. Kept(m)'
        BY <1>1, <3>1, <3>3, ReaderHeld DEF Carries, Holding
      <3>5. metas[mr_txnid[p] % 2].mm_last_pg \in Nat
        BY <3>1, SlotOf, Numbers DEF Holding, Metas
      <3>6. \A x \in Pages(m.mm_dbs) : x \in Nat /\ x <= metas[mr_txnid[p] % 2].mm_last_pg
        <4>1. Pages(m.mm_dbs) \subseteq Pgnos /\ Pgnos \subseteq Nat
          BY MetaPages DEF Pgnos
        <4>2. PagesUpTo(m, metas[mr_txnid[p] % 2].mm_last_pg)
          BY <1>1, <3>1, <3>2 DEF ReaderSafe
        <4> QED
          BY <4>1, <4>2 DEF PagesUpTo
      <3>7. \A x \in Pages(m.mm_dbs) : x < rnext'[p]
        BY <3>1, <3>5, <3>6
      <3> QED
        BY <1>4, <3>1, <3>2, <3>3, <3>4, <3>7 DEF ReaderSafe
    <2> QED
      BY <2>1, <2>2, <2>3, <2>4 DEF Read
  <1> QED
    BY <1>3, <1>4

LEMMA WriteReaders ==
    ASSUME SafeInv, ReadersSafe, "meta" \notin Faults, NEW p \in Procs, Write(p)
    PROVE  ReadersSafe'
  <1> USE DEF SafeInv
  <1>1. CASE WriteMeta(p)
    BY <1>1, WriteMetaReaders
  <1>2. ~WriteMetaFails(p) /\ ~RollBack(p)
    BY NothingFails
  <1>3. CASE ~WriteMeta(p)
    <2>1. Carries
      BY <1>2, <1>3, BeginCarries, OthersPages, MemoryPages, EndsPages, FlushPages,
         FlushedPages, PublishPages DEF Write, PagesInv
    <2>2. UNCHANGED <<metas, readVars, mr_txnid>>
      <3>1. CASE (Work(p) \/ Commit(p) \/ Save(p)) /\ ~Abort(p)
        BY <3>1, MemorySteps DEF InMemory, fileVars, lockVars
      <3>2. CASE Abort(p) \/ CommitNothing(p) \/ Unlock(p)
        BY <3>2 DEF Abort, CommitNothing, Unlock, EndTxn, fileVars
      <3>3. CASE BeginWrite(p) \/ BeginPanics(p)
        BY <3>3 DEF BeginWrite, BeginPanics, fileVars
      <3>4. CASE FlushPage(p) \/ Flushed(p) \/ Sync(p) \/ SyncMeta(p) \/ PublishTxnid(p)
        BY <3>4 DEF FlushPage, Flushed, Sync, SyncMeta, PublishTxnid, CommitStep,
           fileVars
      <3> QED
        BY <1>2, <1>3, <3>1, <3>2, <3>3, <3>4 DEF Write
    <2> QED
      BY <2>1, <2>2, CarriesReaders
  <1> QED
    BY <1>1, <1>3

LEMMA NextReaders ==
    ASSUME SafeInv, ReadersSafe, "meta" \notin Faults, [Next]_vars
    PROVE  ReadersSafe'
  <1> USE DEF SafeInv
  <1>1. CASE UNCHANGED vars
    <2>1. /\ UNCHANGED <<file, metas, mr_txnid, readVars, txnVars, disk>>
          /\ UNCHANGED <<diskMetas, alive, mti_txnid>>
      BY <1>1 DEF vars, fileVars, diskVars, lockVars, procVars
    <2>2. Carries
      BY <2>1, SameNeeds, QuietPages
    <2> QED
      BY <2>1, <2>2, CarriesReaders
  <1>2. CASE SystemCrash
    BY <1>2 DEF SystemCrash, ReadersSafe, ReaderSafe
  <1>3. ASSUME NEW p \in Procs, EnvSync(p) \/ ReaderCheck(p) \/ Open(p)
        PROVE  ReadersSafe'
    <2>1. UNCHANGED <<metas, readVars, mr_txnid>>
      BY <1>3 DEF EnvSync, ReaderCheck, Open, fileVars, lockVars
    <2> QED
      BY <1>3, <2>1, OthersPages, CarriesReaders
  <1>4. ASSUME NEW p \in Procs, Crash(p)
        PROVE  ReadersSafe'
    <2> SUFFICES ASSUME NEW q \in Procs PROVE ReaderSafe(q)'
      BY DEF ReadersSafe
    <2>1. Carries /\ ReaderSafe(q) /\ ReadTypeOK /\ LockTypeOK
      BY <1>4, OthersPages DEF ReadersSafe, IndInv, TypeOK
    <2>2. /\ UNCHANGED metas
          /\ rpc' = [rpc EXCEPT ![p] = "idle"]
          /\ snap' = [snap EXCEPT ![p] = EmptyMeta]
          /\ rnext' = [rnext EXCEPT ![p] = 0]
          /\ mr_txnid' = [mr_txnid EXCEPT ![p] = IDLE]
      BY <1>4 DEF Crash, fileVars
    <2>3. CASE q = p
      BY <2>1, <2>2, <2>3 DEF ReaderSafe, ReadTypeOK
    <2>4. CASE q # p
      <3>1. /\ rpc'[q] = rpc[q] /\ mr_txnid'[q] = mr_txnid[q]
            /\ snap'[q] = snap[q] /\ rnext'[q] = rnext[q]
        BY <2>1, <2>2, <2>4 DEF ReadTypeOK, LockTypeOK
      <3> QED
        BY <2>1, <2>2, <3>1, CarriesReader
    <2> QED
      BY <2>3, <2>4
  <1> QED
    BY <1>1, <1>2, <1>3, <1>4, ReadReaders, WriteReaders DEF Next

LEMMA SpecReaders ==
    ASSUME "meta" \notin Faults
    PROVE  Spec => [](SafeInv /\ ReadersSafe)
  <1>1. Init => ReadersSafe
    BY InitPages
  <1>2. SafeInv /\ ReadersSafe /\ [Next]_vars => ReadersSafe'
    BY NextReaders
  <1> QED
    BY <1>1, <1>2, SpecSafe, PTL DEF Spec

(* The snapshot of an open read transaction never changes under it,        *)
(* however many writers commit and reuse pages: the oldest transaction     *)
(* that mdb_find_oldest takes from the reader table is never newer than    *)
(* one a reader has checked its slot for, though readers publish their     *)
(* slots without a lock and processes die with theirs.  A meta page that   *)
(* could not be written is the exception: a reader may copy the new trees, *)
(* under the new number or under the old one that mdb_env_write_meta puts  *)
(* back.                                                                   *)
THEOREM SnapshotsStable ==
    "meta" \notin Faults => (Spec => []SnapshotStable)
  <1> SUFFICES ASSUME "meta" \notin Faults PROVE Spec => []SnapshotStable
    OBVIOUS
  <1>1. SafeInv /\ ReadersSafe => SnapshotStable
    BY DEF SafeInv, ReadersSafe, ReaderSafe, SnapshotStable, Reading, Kept
  <1> QED
    BY SpecReaders, <1>1, PTL

(* Every page of a reader's tree is below the mt_next_pgno it copied, even *)
(* when the meta page was rewritten between the two copies of              *)
(* mdb_txn_renew0 (the trees, then mm_last_pg), with the same exception.   *)
THEOREM ReadersInBounds ==
    "meta" \notin Faults => (Spec => []ReaderPagesInBounds)
  <1> SUFFICES ASSUME "meta" \notin Faults PROVE Spec => []ReaderPagesInBounds
    OBVIOUS
  <1>1. SafeInv /\ ReadersSafe => ReaderPagesInBounds
    BY DEF ReadersSafe, ReaderSafe, ReaderPagesInBounds, Reading
  <1> QED
    BY SpecReaders, <1>1, PTL

-----------------------------------------------------------------------------
(***************************************************************************)
(* MDBTxn implements SnapshotStore: what the users of the engine see of    *)
(* pages, meta pages, locks and deaths is a history of images.             *)
(*                                                                         *)
(* What this needs beyond the invariants above is the history: the number  *)
(* in a meta page, on disk, mapped or copied by a reader, is the place of  *)
(* its image in the log, and the transaction at work builds on the last of *)
(* them.                                                                   *)
(***************************************************************************)

(* A node without a page has no contents. *)
BlankTree(dbs, im) == \A n \in Nodes : dbs[n] = P_INVALID => im[n] = Blank

(* A meta page, or a copy of one, with its place in the history. *)
Imaged(m) ==
    /\ m.mm_txnid < Len(log)
    /\ log[m.mm_txnid + 1] = UserImage(m.image)
    /\ BlankTree(m.mm_dbs, m.image)

HistoryOK ==
    /\ Len(log) = Top.mm_txnid + 1
    /\ \A i \in {0, 1} : Imaged(metas[i]) /\ Imaged(diskMetas[i])
    /\ \A i \in 1..Len(log), n \in Nodes :
          /\ log[i][n][1] <= begun
          /\ wpc \in Before => log[i][n][1] < begun

(* What the transaction at work has not written or deleted is as it was. *)
BuildsOnTop ==
    wpc \in Before =>
        /\ BlankTree(mt_dbs, image)
        /\ \A n \in Nodes : image[n] \in {Top.image[n], Blank, <<begun, n>>}

Copied == {"last", "open"}

CopiesOK ==
    \A p \in Procs : IF rpc[p] \in Copied THEN Imaged(snap[p]) ELSE snap[p] = EmptyMeta

StoreInv == HistoryOK /\ BuildsOnTop /\ CopiesOK

-----------------------------------------------------------------------------
LEMMA LogTypes ==
    ASSUME IndInv
    PROVE  /\ log \in Seq([Nodes -> Contents]) /\ Len(log) \in Nat /\ begun \in Nat
           /\ \A i \in 1..Len(log), n \in Nodes : log[i][n][1] \in Nat
           /\ image \in Images /\ mt_dbs \in Dbs
  <1>1. /\ log \in Seq([Nodes -> Contents]) /\ begun \in Nat
        /\ image \in Images /\ mt_dbs \in Dbs
    BY DEF IndInv, TypeOK, GhostTypeOK, TxnTypeOK, TreeTypeOK, Txnids
  <1>2. \A c \in Contents : c[1] \in Nat
    BY DEF Contents, Txnids
  <1> QED
    BY <1>1, <1>2

LEMMA KeepTop ==
    ASSUME UNCHANGED metas
    PROVE  TopIdx' = TopIdx /\ Top' = Top
  BY DEF TopIdx, Top

LEMMA KeepHistory ==
    ASSUME HistoryOK, UNCHANGED <<log, metas, begun>>,
           \A i \in {0, 1} : diskMetas'[i] \in {metas[i], diskMetas[i]},
           wpc' \in Before => wpc \in Before
    PROVE  HistoryOK'
  <1>1. Len(log') = Top'.mm_txnid + 1
    BY KeepTop DEF HistoryOK
  <1>2. \A i \in {0, 1} : Imaged(metas[i])' /\ Imaged(diskMetas[i])'
    BY DEF HistoryOK, Imaged
  <1> QED
    BY <1>1, <1>2 DEF HistoryOK

LEMMA KeepCopies ==
    ASSUME CopiesOK, UNCHANGED <<log, rpc, snap>>
    PROVE  CopiesOK'
  BY DEF CopiesOK, Imaged

LEMMA KeepBuilds ==
    ASSUME BuildsOnTop, UNCHANGED <<metas, begun, mt_dbs, image>>,
           wpc' \in Before => wpc \in Before
    PROVE  BuildsOnTop'
  BY KeepTop DEF BuildsOnTop

LEMMA InitStore == Init => StoreInv
  <1> SUFFICES ASSUME Init PROVE StoreInv
    OBVIOUS
  <1>1. /\ log = <<UserImage(EmptyImage)>> /\ Len(log) = 1
        /\ \A n \in Nodes : log[1][n] = Blank /\ Blank[1] = 0
    BY DEF Init, UserImage, EmptyImage, AllNodes, Blank
  <1>2. Imaged(EmptyMeta) /\ EmptyMeta.mm_txnid = 0
    BY <1>1 DEF EmptyMeta, Imaged, BlankTree, EmptyImage, AllNodes
  <1>3. \A i \in {0, 1} : metas[i] = EmptyMeta /\ diskMetas[i] = EmptyMeta
    BY DEF Init
  <1>4. Top = EmptyMeta
    BY <1>3 DEF Top, TopIdx
  <1>5. HistoryOK
    BY <1>1, <1>2, <1>3, <1>4
    DEF Init, HistoryOK, Before, Filling, Filled
  <1> QED
    BY <1>5
    DEF Init, StoreInv, BuildsOnTop, CopiesOK, Copied, Before, Filling, Filled

(* Inside a transaction a node is written, or removed with its page.       *)
LEMMA TreeSteps ==
    ASSUME NEW p \in Procs, Work(p) \/ Commit(p) \/ Save(p), ~Abort(p)
    PROVE  \/ UNCHANGED <<mt_dbs, image>>
           \/ \E ns \in SUBSET AllNodes : Remove(ns)
           \/ \E n \in AllNodes : Touch(p, n)
  <1>1. FreeDB \in AllNodes /\ Nodes \subseteq AllNodes /\ Root \in Nodes
    BY NodesAssumption DEF AllNodes
  <1>2. ASSUME Work(p)
        PROVE  \/ UNCHANGED <<mt_dbs, image>>
               \/ \E ns \in SUBSET AllNodes : Remove(ns)
               \/ \E n \in AllNodes : Touch(p, n)
    <2>1. ASSUME NEW n \in Nodes, WriteNode(p, n)
          PROVE  \E m \in AllNodes : Touch(p, m)
      BY <1>1, <2>1 DEF WriteNode
    <2>2. ASSUME NEW n \in Nodes, LoosePage(p, n) \/ FreeOverflow(p, n)
          PROVE  \E ns \in SUBSET AllNodes : Remove(ns)
      <3>1. Remove({n}) /\ {n} \in SUBSET AllNodes
        BY <1>1, <2>2 DEF LoosePage, FreeOverflow, RemoveStep
      <3> QED
        BY <3>1
    <2>3. ASSUME EmptyRoot(p)
          PROVE  \E ns \in SUBSET AllNodes : Remove(ns)
      <3>1. Remove({Root}) /\ {Root} \in SUBSET AllNodes
        BY <1>1, <2>3 DEF EmptyRoot, RemoveStep
      <3> QED
        BY <3>1
    <2>4. ASSUME Drop(p)
          PROVE  \E ns \in SUBSET AllNodes : Remove(ns)
      <3>1. Remove(Nodes) /\ Nodes \in SUBSET AllNodes
        BY <1>1, <2>4 DEF Drop, RemoveStep
      <3> QED
        BY <3>1
    <2>5. WriteFails(p) => UNCHANGED <<mt_dbs, image>>
      BY DEF WriteFails, MapFull, treeVars
    <2> QED
      BY <1>2, <2>1, <2>2, <2>3, <2>4, <2>5 DEF Work
  <1>3. Commit(p) => UNCHANGED <<mt_dbs, image>>
    BY DEF Commit, treeVars
  <1>4. ASSUME Save(p)
        PROVE  \/ UNCHANGED <<mt_dbs, image>>
               \/ \E ns \in SUBSET AllNodes : Remove(ns)
               \/ \E n \in AllNodes : Touch(p, n)
    <2>1. SaveTouches(p) => \E n \in AllNodes : Touch(p, n)
      BY <1>1 DEF SaveTouches
    <2>2. SaveReserves(p) =>
              UNCHANGED <<mt_dbs, image>> \/ \E n \in AllNodes : Touch(p, n)
      BY <1>1 DEF SaveReserves, treeVars
    <2>3. SaveDeletes(p) =>
              \/ UNCHANGED <<mt_dbs, image>>
              \/ \E ns \in SUBSET AllNodes : Remove(ns)
      <3>1. {FreeDB} \in SUBSET AllNodes
        BY <1>1
      <3>2. SaveDeletes(p) => UNCHANGED <<mt_dbs, image>> \/ Remove({FreeDB})
        BY DEF SaveDeletes
      <3> QED
        BY <3>1, <3>2
    <2>4. SaveLoose(p) \/ SavePuts(p) \/ SaveReturns(p) \/ SaveFails(p) =>
              UNCHANGED <<mt_dbs, image>>
      BY DEF SaveLoose, SavePuts, SaveReturns, SaveFails, MapFull, treeVars
    <2> QED
      BY <1>4, <2>1, <2>2, <2>3, <2>4 DEF Save
  <1> QED
    BY <1>2, <1>3, <1>4

LEMMA MemoryStore ==
    ASSUME IndInv, StoreInv, NEW p \in Procs,
           Work(p) \/ Commit(p) \/ Save(p), ~Abort(p)
    PROVE  StoreInv'
  <1>1. /\ UNCHANGED <<log, metas, diskMetas, begun, rpc, snap>>
        /\ wpc \in Before
    BY MemorySteps DEF InMemory, fileVars, diskVars, readVars, ghostVars, Before
  <1>2. HistoryOK' /\ CopiesOK'
    BY <1>1, KeepHistory, KeepCopies DEF StoreInv
  <1>3. /\ BlankTree(mt_dbs, image)
        /\ \A n \in Nodes : image[n] \in {Top.image[n], Blank, <<begun, n>>}
    BY <1>1 DEF StoreInv, BuildsOnTop
  <1>4. Top' = Top /\ image \in Images /\ mt_dbs \in Dbs /\ Nodes \subseteq AllNodes
    BY <1>1, KeepTop, LogTypes DEF AllNodes
  <1>5. ASSUME UNCHANGED <<mt_dbs, image>> PROVE BuildsOnTop'
    BY <1>1, <1>3, <1>4, <1>5 DEF BuildsOnTop, BlankTree
  <1>6. ASSUME NEW ns \in SUBSET AllNodes, Remove(ns)
        PROVE  BuildsOnTop'
    BY <1>1, <1>3, <1>4, <1>6 DEF BuildsOnTop, BlankTree, Remove
  <1>7. ASSUME NEW n \in AllNodes, Touch(p, n)
        PROVE  BuildsOnTop'
    <2>1. PICK pg \in Pgnos : mt_dbs' = [mt_dbs EXCEPT ![n] = pg]
      BY <1>7 DEF Touch
    <2>2. image' = [image EXCEPT ![n] = <<begun, n>>] /\ pg # P_INVALID
      BY <1>7, ConstantTypes DEF Touch
    <2> QED
      BY <1>1, <1>3, <1>4, <2>1, <2>2 DEF BuildsOnTop, BlankTree, Images, Dbs
  <1> QED
    BY <1>2, <1>5, <1>6, <1>7, TreeSteps DEF StoreInv

LEMMA BeginStore ==
    ASSUME IndInv, OrderInv, StoreInv, NEW p \in Procs, BeginWrite(p)
    PROVE  StoreInv'
  <1>1. /\ wpc' = "work" /\ mt_dbs' = Top.mm_dbs /\ image' = Top.image
        /\ UNCHANGED <<metas, diskMetas>>
    BY BeginsWithTop
  <1>2. UNCHANGED <<log, rpc, snap>> /\ begun' = begun + 1
    BY DEF BeginWrite, readVars
  <1>3. TopIdx' = TopIdx /\ Top' = Top /\ Top = metas[TopIdx] /\ TopIdx \in {0, 1}
    BY <1>1, KeepTop, Numbers DEF Top
  <1>4. \A i \in 1..Len(log'), n \in Nodes :
            log'[i][n][1] <= begun' /\ log'[i][n][1] < begun'
    BY <1>2, LogTypes DEF StoreInv, HistoryOK
  <1>5. HistoryOK'
    <2>1. Len(log') = Top'.mm_txnid + 1
      BY <1>2, <1>3 DEF StoreInv, HistoryOK
    <2>2. \A i \in {0, 1} : Imaged(metas[i])' /\ Imaged(diskMetas[i])'
      BY <1>1, <1>2 DEF StoreInv, HistoryOK, Imaged
    <2> QED
      BY <1>4, <2>1, <2>2 DEF HistoryOK
  <1>6. BuildsOnTop'
    <2>1. BlankTree(Top.mm_dbs, Top.image)
      BY <1>3 DEF StoreInv, HistoryOK, Imaged
    <2> QED
      BY <1>1, <1>3, <2>1 DEF BuildsOnTop
  <1> QED
    BY <1>2, <1>5, <1>6, KeepCopies DEF StoreInv

LEMMA QuietStore ==
    ASSUME StoreInv, UNCHANGED <<log, metas, begun, rpc, snap>>,
           \A i \in {0, 1} : diskMetas'[i] \in {metas[i], diskMetas[i]},
           \/ wpc' \notin Before
           \/ wpc \in Before /\ UNCHANGED <<mt_dbs, image>>
    PROVE  StoreInv'
  <1>1. HistoryOK' /\ CopiesOK'
    BY KeepHistory, KeepCopies DEF StoreInv
  <1>2. BuildsOnTop'
    <2>1. CASE wpc' \notin Before
      BY <2>1 DEF BuildsOnTop
    <2>2. CASE wpc \in Before /\ UNCHANGED <<mt_dbs, image>>
      BY <2>2, KeepBuilds DEF StoreInv
    <2> QED
      BY <2>1, <2>2
  <1> QED
    BY <1>1, <1>2 DEF StoreInv

(* The steps that change neither the history nor what is built on it.      *)
LEMMA IdleStore ==
    ASSUME IndInv, StoreInv, NEW p \in Procs,
           \/ BeginPanics(p) \/ Abort(p) \/ CommitNothing(p) \/ Unlock(p)
           \/ FlushPage(p) \/ Flushed(p) \/ Sync(p) \/ SyncMeta(p)
           \/ PublishTxnid(p) \/ EnvSync(p) \/ ReaderCheck(p) \/ Open(p)
    PROVE  StoreInv'
  <1>1. DOMAIN diskMetas = {0, 1} /\ diskMetas \in [{0, 1} -> Metas]
    BY DEF IndInv, TypeOK, FileTypeOK
  <1>2. ASSUME Abort(p) \/ CommitNothing(p) \/ Unlock(p) PROVE StoreInv'
    <2>1. UNCHANGED <<log, metas, begun, rpc, snap, diskMetas>> /\ wpc' = "idle"
      BY <1>2 DEF Abort, CommitNothing, Unlock, EndTxn, ForgetTxn, fileVars,
                  diskVars, readVars, ghostVars
    <2> QED
      BY <2>1, QuietStore DEF Before, Filling, Filled
  <1>3. ASSUME BeginPanics(p) \/ EnvSync(p) \/ ReaderCheck(p) \/ Open(p)
        PROVE  StoreInv'
    <2>1. /\ UNCHANGED <<log, metas, begun, rpc, snap, wpc, mt_dbs, image>>
          /\ diskMetas' = diskMetas \/ diskMetas' = metas
      BY <1>3 DEF BeginPanics, EnvSync, ReaderCheck, Open, fileVars, diskVars,
                  readVars, ghostVars, txnVars, treeVars
    <2> QED
      BY <2>1, QuietStore
  <1>4. ASSUME FlushPage(p) \/ Flushed(p) \/ Sync(p) PROVE StoreInv'
    <2>1. /\ UNCHANGED <<log, metas, begun, rpc, snap, mt_dbs, image>>
          /\ diskMetas' = diskMetas \/ diskMetas' = metas
          /\ wpc \in {"flush", "sync"}
      BY <1>4 DEF FlushPage, Flushed, Sync, CommitStep, Owner, fileVars,
                  diskVars, readVars, ghostVars, treeVars
    <2> QED
      BY <2>1, QuietStore DEF Before, Filled
  <1>5. ASSUME SyncMeta(p) PROVE StoreInv'
    <2>1. /\ UNCHANGED <<log, metas, begun, rpc, snap>> /\ wpc' = "publish"
          /\ diskMetas' = [diskMetas EXCEPT ![Toggle] = metas[Toggle]]
      BY <1>5 DEF SyncMeta, CommitStep, fileVars, readVars, ghostVars
    <2> QED
      BY <1>1, <2>1, QuietStore DEF Before, Filling, Filled
  <1>6. ASSUME PublishTxnid(p) PROVE StoreInv'
    <2>1. /\ UNCHANGED <<log, metas, begun, rpc, snap, diskMetas>>
          /\ wpc' = "unlock"
      BY <1>6 DEF PublishTxnid, CommitStep, fileVars, diskVars, readVars
    <2> QED
      BY <2>1, QuietStore DEF Before, Filling, Filled
  <1> QED
    BY <1>2, <1>3, <1>4, <1>5, <1>6

LEMMA ReadStore ==
    ASSUME IndInv, OrderInv, LooksOK, StoreInv, NEW p \in Procs, Read(p)
    PROVE  StoreInv'
  <1>1. UNCHANGED <<log, metas, diskMetas, begun, wpc, mt_dbs, image>>
    BY DEF Read, LoadTxnid, StoreTxnid, CheckTxnid, CopyDbs, CopyLastPg,
       EndRead,
           ReadStep, fileVars, diskVars, txnVars, treeVars, ghostVars
  <1>2. HistoryOK' /\ BuildsOnTop'
    BY <1>1, KeepHistory, KeepBuilds DEF StoreInv
  <1>3. rpc \in [Procs -> RPC] /\ snap \in [Procs -> Metas] /\ CopiesOK
    BY DEF IndInv, TypeOK, ReadTypeOK, StoreInv
  <1>4. ASSUME LoadTxnid(p) \/ StoreTxnid(p) \/ CheckTxnid(p) PROVE CopiesOK'
    <2>1. /\ snap' = snap /\ rpc[p] \notin Copied
          /\ rpc' = [rpc EXCEPT ![p] = rpc'[p]] /\ rpc'[p] \notin Copied
      BY <1>3, <1>4 DEF LoadTxnid, StoreTxnid, CheckTxnid, ReadStep, Copied
    <2> QED
      BY <1>1, <1>3, <2>1 DEF CopiesOK, Imaged
  <1>5. ASSUME CopyDbs(p) PROVE CopiesOK'
    <2>1. mr_txnid[p] % 2 \in {0, 1}
      BY <1>5, SlotOf DEF CopyDbs, ReadStep, Holding
    <2>2. /\ rpc' = [rpc EXCEPT ![p] = "last"]
          /\ snap' = [snap EXCEPT ![p] = metas[mr_txnid[p] % 2]]
      BY <1>5 DEF CopyDbs, ReadStep, ReadMeta
    <2> QED
      BY <1>1, <1>3, <2>1, <2>2
      DEF CopiesOK, Imaged, StoreInv, HistoryOK, Copied
  <1>6. ASSUME CopyLastPg(p) PROVE CopiesOK'
    <2>1. rpc' = [rpc EXCEPT ![p] = "open"] /\ rpc[p] = "last" /\ snap' = snap
      BY <1>6 DEF CopyLastPg, ReadStep
    <2> QED
      BY <1>1, <1>3, <2>1 DEF CopiesOK, Imaged, Copied
  <1>7. ASSUME EndRead(p) PROVE CopiesOK'
    <2>1. /\ rpc' = [rpc EXCEPT ![p] = "idle"]
          /\ snap' = [snap EXCEPT ![p] = EmptyMeta]
      BY <1>7 DEF EndRead, ReadStep
    <2> QED
      BY <1>1, <1>3, <2>1 DEF CopiesOK, Imaged, Copied
  <1> QED
    BY <1>2, <1>4, <1>5, <1>6, <1>7 DEF Read, StoreInv

LEMMA WriteMetaStore ==
    ASSUME IndInv, OrderInv, StoreInv, NEW p \in Procs, WriteMeta(p)
    PROVE  StoreInv'
  <1>1. /\ wpc = "meta" /\ wpc' \in {"publish", "metasync"}
        /\ UNCHANGED <<diskMetas, begun, rpc, snap>>
        /\ metas' = [metas EXCEPT ![Toggle] = NewMeta]
        /\ log' = Append(log, UserImage(image))
    BY DEF WriteMeta, CommitStep, Owner, diskVars, readVars
  <1>2. wpc \in Before /\ wpc' \notin Before
    BY <1>1 DEF Before, Filling, Filled
  <1>3. /\ mt_txnid = Top.mm_txnid + 1 /\ Len(log) = mt_txnid /\ Top' = NewMeta
        /\ NewMeta.mm_txnid = mt_txnid /\ NewMeta.image = image
        /\ NewMeta.mm_dbs = mt_dbs
    BY <1>2, WriteMetaOrder, NewMetaFields
    DEF OrderInv, PublishedOrdered, StoreInv, HistoryOK
  <1>4. /\ Len(log') = Len(log) + 1 /\ log'[Len(log) + 1] = UserImage(image)
        /\ \A i \in 1..Len(log) : log'[i] = log[i]
    BY <1>1, LogTypes
  <1>5. /\ BlankTree(mt_dbs, image)
        /\ \A n \in Nodes : image[n] \in {Top.image[n], Blank, <<begun, n>>}
    BY <1>2 DEF StoreInv, BuildsOnTop
  <1>6. ASSUME NEW i \in {0, 1} PROVE Imaged(metas[i])' /\ Imaged(diskMetas[i])'
    <2>1. Imaged(metas[i]) /\ Imaged(diskMetas[i])
      BY DEF StoreInv, HistoryOK
    <2>2. ASSUME NEW m \in Metas, Imaged(m)
          PROVE  /\ m.mm_txnid < Len(log')
                 /\ log'[m.mm_txnid + 1] = UserImage(m.image)
                 /\ BlankTree(m.mm_dbs, m.image)
      <3>1. m.mm_txnid \in Nat /\ m.mm_txnid < Len(log) /\ Len(log) \in Nat
        BY <2>2, MetaPages, LogTypes DEF Imaged
      <3>2. m.mm_txnid + 1 \in 1..Len(log)
        BY <3>1
      <3> QED
        BY <1>4, <2>2, <3>1, <3>2 DEF Imaged
    <2>3. Imaged(diskMetas[i])'
      BY <1>1, <2>1, <2>2, Numbers DEF Imaged, BlankTree, UserImage
    <2>4. CASE metas'[i] = metas[i]
      <3>1. PICK m \in Metas : m = metas[i]
        BY Numbers
      <3>2. Imaged(m)
        BY <2>1, <3>1 DEF Imaged
      <3> QED
        BY <2>2, <2>3, <2>4, <3>1, <3>2 DEF Imaged, BlankTree, UserImage
    <2>5. CASE metas'[i] = NewMeta
      <3>1. /\ NewMeta.mm_txnid < Len(log') /\ Len(log) + 1 = NewMeta.mm_txnid + 1
            /\ log'[NewMeta.mm_txnid + 1] = UserImage(NewMeta.image)
            /\ BlankTree(NewMeta.mm_dbs, NewMeta.image)
        BY <1>3, <1>4, <1>5, LogTypes
      <3> QED
        BY <2>3, <2>5, <3>1 DEF Imaged, BlankTree, UserImage
    <2>6. metas'[i] = metas[i] \/ metas'[i] = NewMeta
      BY <1>1 DEF IndInv, TypeOK, FileTypeOK
    <2> QED
      BY <2>4, <2>5, <2>6
  <1>7. ASSUME NEW i \in 1..Len(log'), NEW n \in Nodes
        PROVE  log'[i][n][1] <= begun'
    <2>1. \A j \in 1..Len(log) : log[j][n][1] <= begun /\ log[j][n][1] \in Nat
      BY LogTypes DEF StoreInv, HistoryOK
    <2>2. Top.image[n][1] <= begun
      <3>1. Imaged(Top) /\ Top.mm_txnid \in Nat
        BY Numbers DEF StoreInv, HistoryOK, Top
      <3>2. log[Top.mm_txnid + 1][n] = Top.image[n] /\ Top.mm_txnid + 1 \in 1..Len(log)
        BY <3>1, LogTypes DEF Imaged, UserImage
      <3> QED
        BY <2>1, <3>2
    <2>3. image[n][1] <= begun
      BY <1>5, <2>2, LogTypes DEF Blank
    <2>4. UserImage(image)[n] = image[n]
      BY DEF UserImage
    <2> QED
      BY <1>1, <1>4, <2>1, <2>3, <2>4, LogTypes
  <1>8. HistoryOK'
    BY <1>1, <1>2, <1>3, <1>4, <1>6, <1>7 DEF HistoryOK
  <1>9. CopiesOK'
    <2>1. snap \in [Procs -> Metas] /\ \A q \in Procs : snap[q].mm_txnid \in Nat
      BY DEF IndInv, TypeOK, ReadTypeOK, Metas, Txnids
    <2> QED
      BY <1>1, <1>4, <2>1, LogTypes DEF StoreInv, CopiesOK, Imaged
  <1> QED
    BY <1>2, <1>8, <1>9 DEF StoreInv, BuildsOnTop

LEMMA CrashStore ==
    ASSUME IndInv, StoreInv, NEW p \in Procs, Crash(p)
    PROVE  StoreInv'
  <1>1. /\ UNCHANGED <<log, metas, diskMetas>>
        /\ rpc' = [rpc EXCEPT ![p] = "idle"]
        /\ snap' = [snap EXCEPT ![p] = EmptyMeta]
    BY DEF Crash, fileVars, diskVars, ghostVars
  <1>2. begun' = begun /\ (wpc' = "idle" \/ UNCHANGED <<wpc, mt_dbs, image>>)
    BY DEF Crash, ForgetTxn, txnVars, treeVars
  <1>3. rpc \in [Procs -> RPC] /\ snap \in [Procs -> Metas]
    BY DEF IndInv, TypeOK, ReadTypeOK
  <1>4. CopiesOK'
    BY <1>1, <1>3 DEF StoreInv, CopiesOK, Imaged, Copied
  <1>5. wpc' \in Before => wpc \in Before /\ UNCHANGED <<mt_dbs, image>>
    BY <1>2 DEF Before, Filling, Filled
  <1>6. HistoryOK'
    BY <1>1, <1>2, <1>5, KeepHistory DEF StoreInv
  <1>7. BuildsOnTop'
    <2>1. CASE wpc' \notin Before
      BY <2>1 DEF BuildsOnTop
    <2>2. CASE wpc' \in Before
      BY <1>1, <1>2, <1>5, <2>2, KeepBuilds DEF StoreInv
    <2> QED
      BY <2>1, <2>2
  <1> QED
    BY <1>4, <1>6, <1>7 DEF StoreInv

LEMMA SystemCrashStore ==
    ASSUME IndInv, OrderInv, StoreInv, SystemCrash
    PROVE  /\ StoreInv'
           /\ Len(log') = Top'.mm_txnid + 1 /\ Len(log') <= Len(log)
           /\ log' = SubSeq(log, 1, Len(log'))
  <1>1. /\ wpc' = "idle" /\ begun' = begun /\ diskMetas' = metas'
        /\ log' = LogUpTo(Newest(metas').mm_txnid)
        /\ rpc' = [q \in Procs |-> "idle"]
        /\ snap' = [q \in Procs |-> EmptyMeta]
    BY DEF SystemCrash, ForgetTxn
  <1>2. \A i \in {0, 1} : metas'[i] \in {metas[i], diskMetas[i]}
    BY DEF SystemCrash
  <1>3. \A i \in {0, 1} : Imaged(metas[i]) /\ Imaged(diskMetas[i])
    BY DEF StoreInv, HistoryOK
  <1>4. /\ OrderInv' /\ TopIdx' \in {0, 1} /\ Top' = metas[TopIdx']
        /\ Newest(metas') = Top' /\ Top'.mm_txnid \in Nat
    BY SystemCrashOrder, Numbers DEF Newest, Top, TopIdx
  <1>5. /\ Len(log') = Top'.mm_txnid + 1 /\ Len(log') <= Len(log)
        /\ \A i \in 1..Len(log') : i \in 1..Len(log) /\ log'[i] = log[i]
        /\ log' = SubSeq(log, 1, Len(log'))
    <2>1. Top'.mm_txnid < Len(log) /\ Len(log) \in Nat
      BY <1>3, <1>4, LogTypes DEF Imaged
    <2>2. PICK l, n, h : l = log /\ n = Top'.mm_txnid + 1 /\ h = SubSeq(l, 1, n)
      OBVIOUS
    <2>3. n \in 1..Len(l) /\ Len(l) \in Nat /\ log' = h
      <3>1. log' = SubSeq(log, 1, Top'.mm_txnid + 1)
        BY <1>1, <1>4, <2>1 DEF LogUpTo
      <3>2. Top'.mm_txnid \in Nat
        BY <1>4
      <3>3. n \in 1..Len(l)
        BY <2>1, <2>2, <3>2
      <3> QED
        BY <2>1, <2>2, <3>1, <3>3, Zenon
    <2>4. Len(h) = n /\ \A i \in 1..n : h[i] = l[i]
      BY <2>2, <2>3, LogTypes
    <2> QED
      BY <2>2, <2>3, <2>4
  <1>6. \A i \in {0, 1} : metas'[i].mm_txnid \in Nat /\ metas'[i].mm_txnid < Len(log')
    <2>1. \A i \in {0, 1} : metas'[i].mm_txnid \in Nat
      BY <1>2, Numbers
    <2>2. Old'.mm_txnid = IF Top'.mm_txnid = 0 THEN 0 ELSE Top'.mm_txnid - 1
      BY <1>4 DEF OrderInv, MetasOrdered
    <2>3. \A i \in {0, 1} : metas'[i] = Top' \/ metas'[i] = Old'
      BY <1>4 DEF Top, Old, TopIdx
    <2>4. Old'.mm_txnid < Len(log') /\ Top'.mm_txnid < Len(log')
      <3>1. Top'.mm_txnid \in Nat /\ Len(log') = Top'.mm_txnid + 1
        BY <1>4, <1>5
      <3>2. Old'.mm_txnid \in {0, Top'.mm_txnid - 1}
        BY <2>2
      <3> QED
        BY <3>1, <3>2
    <2>5. ASSUME NEW i \in {0, 1} PROVE metas'[i].mm_txnid < Len(log')
      <3>1. CASE metas'[i] = Top'
        BY <2>4, <3>1
      <3>2. CASE metas'[i] = Old'
        BY <2>4, <3>2
      <3> QED
        BY <2>3, <3>1, <3>2
    <2> QED
      BY <2>1, <2>5
  <1>7. \A i \in {0, 1} : Imaged(metas[i])' /\ Imaged(diskMetas[i])'
    <2>1. ASSUME NEW m \in Metas, Imaged(m), m.mm_txnid < Len(log')
          PROVE  /\ log'[m.mm_txnid + 1] = UserImage(m.image)
                 /\ BlankTree(m.mm_dbs, m.image)
      <3>1. m.mm_txnid + 1 \in 1..Len(log')
        BY <1>4, <1>5, <2>1, MetaPages
      <3> QED
        BY <1>5, <2>1, <3>1 DEF Imaged
    <2>2. ASSUME NEW i \in {0, 1} PROVE Imaged(metas[i])' /\ Imaged(diskMetas[i])'
      <3>1. metas'[i] \in Metas /\ metas'[i].mm_txnid < Len(log')
        BY <1>2, <1>6, Numbers
      <3>2. PICK m \in Metas : m = metas'[i]
        BY <3>1
      <3>3. Imaged(m)
        BY <1>2, <1>3, <3>2 DEF Imaged
      <3> QED
        BY <1>1, <2>1, <3>1, <3>2, <3>3 DEF Imaged, BlankTree, UserImage
    <2> QED
      BY <2>2
  <1>8. HistoryOK'
    BY <1>1, <1>5, <1>7 DEF StoreInv, HistoryOK, Before, Filling, Filled
  <1>9. CopiesOK' /\ BuildsOnTop'
    BY <1>1 DEF CopiesOK, BuildsOnTop, Copied, Before, Filling, Filled
  <1> QED
    BY <1>5, <1>8, <1>9 DEF StoreInv

AllInv == SafeInv /\ ReadersSafe /\ StoreInv

LEMMA NextStore ==
    ASSUME SafeInv, ReadersSafe, StoreInv, "meta" \notin Faults, [Next]_vars
    PROVE  StoreInv'
  <1> USE DEF SafeInv
  <1>1. ASSUME NEW p \in Procs, Write(p) PROVE StoreInv'
    BY <1>1, BeginStore, MemoryStore, IdleStore, WriteMetaStore, NothingFails
    DEF Write, Work
  <1>2. ASSUME NEW p \in Procs,
               \/ Read(p) \/ EnvSync(p) \/ ReaderCheck(p) \/ Crash(p) \/ Open(p)
        PROVE  StoreInv'
    BY <1>2, ReadStore, IdleStore, CrashStore
  <1>3. ASSUME UNCHANGED vars PROVE StoreInv'
    <2>1. UNCHANGED <<log, metas, begun, rpc, snap, diskMetas, wpc, mt_dbs, image>>
      BY <1>3
      DEF vars, fileVars, diskVars, readVars, txnVars, treeVars, ghostVars
    <2> QED
      BY <2>1, QuietStore
  <1> QED
    BY <1>1, <1>2, <1>3, SystemCrashStore DEF Next

LEMMA SpecStore ==
    ASSUME "meta" \notin Faults
    PROVE  Spec => []AllInv
  <1>1. Init => StoreInv
    BY InitStore
  <1>2. SafeInv /\ ReadersSafe /\ StoreInv /\ [Next]_vars => StoreInv'
    BY NextStore
  <1> QED
    BY <1>1, <1>2, SpecReaders, PTL DEF Spec, AllInv

-----------------------------------------------------------------------------
(* What the users see.  A view is read from pages, and is an image of the  *)
(* history.                                                                *)
Nothing == [n \in Nodes |-> Blank]

ViewsOK ==
    \A p \in Procs :
        ViewOf(p) = IF rpc[p] \in Copied THEN log[snap[p].mm_txnid + 1] ELSE Nothing

Phases == [p \in Procs |-> PhaseOf(p)]
Lows == [p \in Procs |-> LowOf(p)]
Views == [p \in Procs |-> ViewOf(p)]

SeenInv == AllInv /\ ViewsOK

LEMMA ViewsAreImages == AllInv => ViewsOK
  <1> SUFFICES ASSUME AllInv, NEW p \in Procs
               PROVE  ViewOf(p) = IF rpc[p] \in Copied
                                  THEN log[snap[p].mm_txnid + 1] ELSE Nothing
    BY DEF ViewsOK
  <1>1. Nodes \subseteq AllNodes
    BY DEF AllNodes
  <1>2. CASE rpc[p] \in Copied
    <2>1. Intact(snap[p], file) /\ Imaged(snap[p])
      BY <1>2
      DEF AllInv, StoreInv, CopiesOK, ReadersSafe, ReaderSafe, Copied, Kept
    <2>2. \A n \in Nodes : ViewOf(p)[n] = snap[p].image[n]
      BY <1>1, <2>1 DEF Intact, Imaged, BlankTree, ViewOf
    <2>3. ViewOf(p) = UserImage(snap[p].image)
      BY <2>2 DEF ViewOf, UserImage
    <2> QED
      BY <1>2, <2>1, <2>3 DEF Imaged
  <1>3. CASE rpc[p] \notin Copied
    <2>1. snap[p] = EmptyMeta
      BY <1>3 DEF AllInv, StoreInv, CopiesOK
    <2>2. \A n \in Nodes : snap[p].mm_dbs[n] = P_INVALID
      BY <1>1, <2>1 DEF EmptyMeta, EmptyDbs
    <2> QED
      BY <1>3, <2>2 DEF ViewOf, Nothing
  <1> QED
    BY <1>2, <1>3

LEMMA SpecSeen ==
    ASSUME "meta" \notin Faults
    PROVE  Spec => []SeenInv
  BY SpecStore, ViewsAreImages, PTL DEF SeenInv

LEMMA VisibleIs ==
    ASSUME AllInv
    PROVE  /\ Len(log) = Top.mm_txnid + 1 /\ Len(log) \in Nat /\ Top.mm_txnid \in Nat
           /\ SomeAlive => Visible = mti_txnid + 1
           /\ ~SomeAlive => Visible = Len(log)
           /\ acked \in Nat /\ mti_txnid \in Nat
  BY Numbers, LogTypes
  DEF AllInv, SafeInv, StoreInv, HistoryOK, Visible, SomeAlive

(* Nobody reads on.                                                        *)
LEMMA SameReaders ==
    ASSUME ViewsOK, ViewsOK', UNCHANGED <<rpc, rlocal, mr_txnid, snap>>,
           \A q \in Procs : rpc[q] \in Copied =>
               log'[snap[q].mm_txnid + 1] = log[snap[q].mm_txnid + 1]
    PROVE  UNCHANGED <<Phases, Lows, Views>>
  <1>1. \A q \in Procs : PhaseOf(q)' = PhaseOf(q) /\ LowOf(q)' = LowOf(q)
    BY DEF PhaseOf, LowOf
  <1>2. \A q \in Procs : ViewOf(q)' = ViewOf(q)
    BY DEF ViewsOK, Nothing
  <1> QED
    BY <1>1, <1>2 DEF Phases, Lows, Views

(* One reads on.                                                           *)
LEMMA OneReader ==
    ASSUME ViewsOK, ViewsOK', NEW p \in Procs, UNCHANGED log,
           \A q \in Procs \ {p} :
               /\ rpc'[q] = rpc[q] /\ rlocal'[q] = rlocal[q]
               /\ mr_txnid'[q] = mr_txnid[q] /\ snap'[q] = snap[q]
    PROVE  /\ Phases' = [Phases EXCEPT ![p] = PhaseOf(p)']
           /\ Lows' = [Lows EXCEPT ![p] = LowOf(p)']
           /\ Views' = [Views EXCEPT ![p] = ViewOf(p)']
  <1>1. \A q \in Procs \ {p} : PhaseOf(q)' = PhaseOf(q) /\ LowOf(q)' = LowOf(q)
    BY DEF PhaseOf, LowOf
  <1>2. \A q \in Procs \ {p} : ViewOf(q)' = ViewOf(q)
    BY DEF ViewsOK, Nothing
  <1> QED
    BY <1>1, <1>2 DEF Phases, Lows, Views

StoreVars == <<log, Visible, acked, Phases, Lows, Views>>

LEMMA StoreVarsIs == UNCHANGED StoreVars => UNCHANGED Store!vars
  BY DEF StoreVars, Phases, Lows, Views, Store!vars

LEMMA ReadSeen ==
    ASSUME SeenInv, SeenInv', NEW p \in Procs, Read(p)
    PROVE  Store!Look(p) \/ Store!Open(p) \/ Store!Close(p) \/ UNCHANGED StoreVars
  <1>1. /\ UNCHANGED <<log, acked, mti_txnid, alive>> /\ SomeAlive /\ alive[p]
        /\ rpc \in [Procs -> RPC] /\ rlocal \in [Procs -> Txnids]
        /\ snap \in [Procs -> Metas] /\ mr_txnid \in [Procs -> Txnids \cup {IDLE}]
    BY DEF Read, LoadTxnid, StoreTxnid, CheckTxnid, CopyDbs, CopyLastPg,
       EndRead,
           ReadStep, ghostVars, procVars, lockVars, SomeAlive,
           SeenInv, AllInv, SafeInv, IndInv, TypeOK, ReadTypeOK, LockTypeOK
  <1>2. Visible' = Visible /\ Visible = mti_txnid + 1
    BY <1>1, VisibleIs DEF Visible, SeenInv
  <1>3. \A q \in Procs \ {p} :
            /\ rpc'[q] = rpc[q] /\ rlocal'[q] = rlocal[q]
            /\ mr_txnid'[q] = mr_txnid[q] /\ snap'[q] = snap[q]
    BY <1>1 DEF Read, LoadTxnid, StoreTxnid, CheckTxnid, CopyDbs, CopyLastPg,
                EndRead, ReadStep, lockVars
  <1>4. /\ Phases' = [Phases EXCEPT ![p] = PhaseOf(p)']
        /\ Lows' = [Lows EXCEPT ![p] = LowOf(p)']
        /\ Views' = [Views EXCEPT ![p] = ViewOf(p)']
    BY <1>1, <1>3, OneReader DEF SeenInv
  <1>5. /\ ViewOf(p) = IF rpc[p] \in Copied THEN log[snap[p].mm_txnid + 1] ELSE Nothing
        /\ ViewOf(p)' = IF rpc'[p] \in Copied THEN log[snap'[p].mm_txnid + 1] ELSE Nothing
        /\ Phases[p] = PhaseOf(p) /\ Lows[p] = LowOf(p) /\ Views[p] = ViewOf(p)
    BY <1>1 DEF SeenInv, ViewsOK, Phases, Lows, Views, Nothing
  <1>6. /\ Phases \in [Procs -> {"idle", "begin", "open"}]
        /\ DOMAIN Lows = Procs /\ DOMAIN Views = Procs
        /\ Lows = [Lows EXCEPT ![p] = Lows[p]] /\ Views = [Views EXCEPT ![p] = Views[p]]
        /\ Phases = [Phases EXCEPT ![p] = Phases[p]]
    BY DEF Phases, Lows, Views, PhaseOf
  <1>7. ASSUME LoadTxnid(p) PROVE Store!Look(p)
    <2>1. /\ rpc[p] \in {"idle", "check"} /\ rpc'[p] = "store"
          /\ rlocal'[p] = mti_txnid
      BY <1>1, <1>7 DEF LoadTxnid, ReadStep
    <2>2. /\ PhaseOf(p) \in {"idle", "begin"} /\ PhaseOf(p)' = "begin"
          /\ LowOf(p)' = Visible /\ ViewOf(p)' = ViewOf(p)
      BY <1>2, <1>5, <2>1 DEF PhaseOf, LowOf, Copied
    <2>3. /\ Phases[p] \in {"idle", "begin"}
          /\ Phases' = [Phases EXCEPT ![p] = "begin"]
          /\ Lows' = [Lows EXCEPT ![p] = Visible] /\ Views' = Views
      BY <1>4, <1>5, <1>6, <2>2
    <2> QED
      BY <1>1, <1>2, <2>3 DEF Store!Look, Phases, Lows, Views
  <1>8. ASSUME StoreTxnid(p) \/ CheckTxnid(p) \/ CopyLastPg(p)
        PROVE  UNCHANGED StoreVars
    <2>1. /\ snap' = snap
          /\ \/ /\ rpc[p] = "store" /\ rpc'[p] = "check"
                /\ mr_txnid'[p] = rlocal[p]
             \/ /\ rpc[p] = "check" /\ rpc'[p] = "dbs"
                /\ mr_txnid'[p] = mr_txnid[p]
             \/ rpc[p] = "last" /\ rpc'[p] = "open"
      BY <1>1, <1>8 DEF StoreTxnid, CheckTxnid, CopyLastPg, ReadStep, lockVars
    <2>2. PhaseOf(p)' = PhaseOf(p) /\ LowOf(p)' = LowOf(p)
      BY <2>1 DEF PhaseOf, LowOf
    <2>3. ViewOf(p)' = ViewOf(p)
      BY <1>5, <2>1 DEF Copied
    <2>4. Phases' = Phases /\ Lows' = Lows /\ Views' = Views
      BY <1>4, <1>5, <1>6, <2>2, <2>3
    <2> QED
      BY <1>1, <1>2, <2>4 DEF StoreVars
  <1>9. ASSUME CopyDbs(p) PROVE Store!Open(p)
    <2>1. rpc[p] = "dbs" /\ rpc'[p] = "last" /\ snap'[p] = metas[mr_txnid[p] % 2]
      BY <1>1, <1>9 DEF CopyDbs, ReadStep, ReadMeta
    <2>2. /\ mr_txnid[p] \in Nat /\ mr_txnid[p] % 2 \in {0, 1}
          /\ mr_txnid[p] <= snap'[p].mm_txnid
      BY <2>1, SlotOf
      DEF SeenInv, AllInv, SafeInv, ReadersSafe, ReaderSafe, Holding
    <2>3. snap'[p].mm_txnid \in Nat /\ snap'[p].mm_txnid < Len(log) /\ Len(log) \in Nat
      BY <2>1, <2>2, Numbers, LogTypes
      DEF SeenInv, AllInv, SafeInv, StoreInv, HistoryOK, Imaged
    <2>4. /\ PhaseOf(p) = "begin" /\ PhaseOf(p)' = "open" /\ LowOf(p)' = 0
          /\ LowOf(p) = mr_txnid[p] + 1
      BY <2>1 DEF PhaseOf, LowOf
    <2>5. PICK i \in (mr_txnid[p] + 1)..Len(log) : i = snap'[p].mm_txnid + 1
      BY <2>2, <2>3
    <2>6. ViewOf(p)' = log[i]
      BY <1>5, <2>1, <2>5 DEF Copied
    <2>7. /\ Phases[p] = "begin" /\ Phases' = [Phases EXCEPT ![p] = "open"]
          /\ i \in Lows[p]..Len(log) /\ Views' = [Views EXCEPT ![p] = log[i]]
          /\ Lows' = [Lows EXCEPT ![p] = 0]
      BY <1>4, <1>5, <2>4, <2>5, <2>6
    <2> QED
      BY <1>1, <1>2, <2>7 DEF Store!Open, Phases, Lows, Views
  <1>10. ASSUME EndRead(p) PROVE Store!Close(p)
    <2>1. rpc'[p] = "idle"
      BY <1>1, <1>10 DEF EndRead, ReadStep
    <2>2. PhaseOf(p)' = "idle" /\ LowOf(p)' = 0 /\ ViewOf(p)' = Nothing
      BY <1>5, <2>1 DEF PhaseOf, LowOf, Copied
    <2>3. /\ Phases' = [Phases EXCEPT ![p] = "idle"]
          /\ Lows' = [Lows EXCEPT ![p] = 0]
          /\ Views' = [Views EXCEPT ![p] = Nothing]
      BY <1>4, <2>2
    <2> QED
      BY <1>1, <1>2, <2>3
      DEF Store!Close, Store!Nothing, Nothing, Phases, Lows, Views
  <1> QED
    BY <1>7, <1>8, <1>9, <1>10 DEF Read

(* The steps of the writer that users do not see.                          *)
LEMMA UnseenWrite ==
    ASSUME SeenInv, SeenInv', NEW p \in Procs,
           \/ Work(p) \/ CommitNothing(p) \/ Commit(p) \/ Save(p)
           \/ FlushPage(p) \/ Flushed(p) \/ Sync(p) \/ SyncMeta(p) \/ Unlock(p)
           \/ EnvSync(p) \/ ReaderCheck(p)
    PROVE  UNCHANGED StoreVars
  <1>1. UNCHANGED <<log, acked, mti_txnid, alive, rpc, rlocal, snap, mr_txnid>>
    <2>1. CASE (Work(p) \/ Commit(p) \/ Save(p)) /\ ~Abort(p)
      BY <2>1, MemorySteps DEF InMemory, ghostVars, lockVars, readVars
    <2>2. CASE Abort(p) \/ CommitNothing(p) \/ Unlock(p)
      BY <2>2
      DEF Abort, CommitNothing, Unlock, EndTxn, procVars, readVars, ghostVars
    <2>3. CASE FlushPage(p) \/ Flushed(p) \/ Sync(p) \/ SyncMeta(p)
      BY <2>3 DEF FlushPage, Flushed, Sync, SyncMeta, CommitStep, procVars,
                  readVars, ghostVars
    <2>4. CASE EnvSync(p) \/ ReaderCheck(p)
      BY <2>4 DEF EnvSync, ReaderCheck, lockVars, procVars, readVars, ghostVars
    <2> QED
      BY <2>1, <2>2, <2>3, <2>4
  <1>2. UNCHANGED <<Phases, Lows, Views>>
    BY <1>1, SameReaders DEF SeenInv
  <1>3. Visible' = Visible
    BY <1>1 DEF Visible
  <1> QED
    BY <1>1, <1>2, <1>3 DEF StoreVars

LEMMA PublishSeen ==
    ASSUME SeenInv, SeenInv', NEW p \in Procs,
           BeginWrite(p) \/ BeginPanics(p) \/ PublishTxnid(p)
    PROVE  Store!Publish
  <1>1. /\ UNCHANGED <<log, alive, rpc, rlocal, snap, mr_txnid>>
        /\ mti_txnid' = Top.mm_txnid /\ SomeAlive
        /\ acked' \in {acked, Top.mm_txnid}
    <2>1. CASE BeginWrite(p) \/ BeginPanics(p)
      <3>1. LockMutex(p)
        BY <2>1 DEF BeginWrite, BeginPanics
      <3>2. mti_txnid' = Top.mm_txnid /\ SomeAlive
        BY <3>1, RecoveredIsTop DEF SeenInv, AllInv, SafeInv
      <3> QED
        BY <2>1, <3>2 DEF BeginWrite, BeginPanics, procVars, readVars, ghostVars
    <2>2. CASE PublishTxnid(p)
      <3>1. /\ wpc = "publish" /\ wmutex = p /\ acked' = mt_txnid
            /\ mti_txnid' = mt_txnid
            /\ UNCHANGED <<log, alive, rpc, rlocal, snap, mr_txnid>>
        BY <2>2 DEF PublishTxnid, CommitStep, Owner, procVars, readVars
      <3>2. mt_txnid = Top.mm_txnid /\ alive[p]
        BY <3>1 DEF SeenInv, AllInv, SafeInv, OrderInv, PublishedOrdered, After
      <3> QED
        BY <3>1, <3>2 DEF SomeAlive
    <2> QED
      BY <2>1, <2>2
  <1>2. UNCHANGED <<Phases, Lows, Views>>
    BY <1>1, SameReaders DEF SeenInv
  <1>3. /\ Len(log) = Top.mm_txnid + 1 /\ Top.mm_txnid \in Nat /\ Len(log) \in Nat
        /\ acked \in Nat
    BY VisibleIs DEF SeenInv
  <1>4. Visible' = Len(log) /\ acked' + 1 \in {acked + 1, Len(log)}
    BY <1>1, <1>3 DEF Visible, SomeAlive
  <1> QED
    BY <1>1, <1>2, <1>4 DEF Store!Publish, Phases, Lows, Views

LEMMA CommitSeen ==
    ASSUME SeenInv, SeenInv', NEW p \in Procs, WriteMeta(p)
    PROVE  Store!Commit
  <1>1. /\ UNCHANGED <<acked, alive, mti_txnid, rpc, rlocal, snap, mr_txnid>>
        /\ wpc = "meta" /\ wmutex = p /\ log' = Append(log, UserImage(image))
    BY DEF WriteMeta, CommitStep, Owner, procVars, readVars
  <1>2. /\ log \in Seq([Nodes -> Contents]) /\ Len(log) \in Nat
        /\ begun \in Nat /\ image \in Images /\ Nodes \subseteq AllNodes
    BY LogTypes DEF SeenInv, AllInv, SafeInv, AllNodes
  <1>3. UserImage(image) \in [Nodes -> Contents]
    BY <1>2 DEF UserImage, Images
  <1>4. /\ Len(log') = Len(log) + 1 /\ log'[Len(log')] = UserImage(image)
        /\ \A i \in 1..Len(log) : log'[i] = log[i]
        /\ SubSeq(log', 1, Len(log)) = log
    <2>1. /\ Len(log') = Len(log) + 1 /\ log'[Len(log')] = UserImage(image)
          /\ \A i \in 1..Len(log) : log'[i] = log[i]
          /\ log' \in Seq([Nodes -> Contents])
      BY <1>1, <1>2, <1>3
    <2>2. SubSeq(log', 1, Len(log)) = log
      <3>1. SubSeq(log', 1, Len(log)) = [i \in 1..Len(log) |-> log'[i]]
        BY <1>2, <2>1, SubSeqProperties
      <3>2. log = [i \in 1..Len(log) |-> log[i]]
        BY <1>2
      <3> QED
        BY <2>1, <3>1, <3>2
    <2> QED
      BY <2>1, <2>2
  <1>5. wpc \in Before /\ Len(log) = Top.mm_txnid + 1 /\ SomeAlive
    BY <1>1, VisibleIs
    DEF SeenInv, AllInv, SafeInv, OrderInv, PublishedOrdered, SomeAlive,
        Before, Filled
  <1>6. log[Len(log)] = UserImage(Top.image)
    <2>1. Imaged(Top) /\ Top.mm_txnid \in Nat
      BY Numbers DEF SeenInv, AllInv, SafeInv, StoreInv, HistoryOK, Top
    <2> QED
      BY <1>5, <2>1 DEF Imaged
  <1>7. Store!BuildsOn(log[Len(log)], log'[Len(log')])
    <2> SUFFICES ASSUME NEW k \in Nodes
                 PROVE  \/ image[k] \in {Top.image[k], Blank}
                        \/ \A i \in 1..Len(log) : log[i][k] # image[k]
      BY <1>4, <1>6 DEF Store!BuildsOn, UserImage
    <2>1. image[k] \in {Top.image[k], Blank, <<begun, k>>}
      BY <1>5 DEF SeenInv, AllInv, StoreInv, BuildsOnTop
    <2>2. \A i \in 1..Len(log) : log[i][k][1] < begun /\ log[i][k][1] \in Nat
      BY <1>5, LogTypes DEF SeenInv, AllInv, SafeInv, StoreInv, HistoryOK
    <2>3. ASSUME image[k] = <<begun, k>>, NEW i \in 1..Len(log)
          PROVE  log[i][k] # image[k]
      <3>1. image[k][1] = begun
        BY <2>3
      <3>2. log[i][k][1] # begun
        BY <1>2, <2>2
      <3> QED
        BY <3>1, <3>2
    <2> QED
      BY <2>1, <2>3
  <1>8. UNCHANGED <<Phases, Lows, Views>>
    <2>1. \A q \in Procs : rpc[q] \in Copied => snap[q].mm_txnid + 1 \in 1..Len(log)
      <3>1. \A q \in Procs : snap[q].mm_txnid \in Nat
        BY DEF SeenInv, AllInv, SafeInv, IndInv, TypeOK, ReadTypeOK, Metas,
           Txnids
      <3>2. \A q \in Procs : rpc[q] \in Copied => snap[q].mm_txnid < Len(log)
        BY DEF SeenInv, AllInv, StoreInv, CopiesOK, Imaged
      <3> QED
        BY <1>2, <3>1, <3>2
    <2> QED
      BY <1>1, <1>4, <2>1, SameReaders DEF SeenInv
  <1>9. Visible' = Visible
    BY <1>1, <1>5 DEF Visible, SomeAlive
  <1> QED
    BY <1>1, <1>4, <1>7, <1>8, <1>9 DEF Store!Commit, Phases, Lows, Views

LEMMA CrashSeen ==
    ASSUME SeenInv, SeenInv', NEW p \in Procs, Crash(p)
    PROVE  Store!Close(p)
  <1>1. /\ UNCHANGED <<log, acked, mti_txnid>>
        /\ rpc' = [rpc EXCEPT ![p] = "idle"] /\ alive[p]
        /\ alive' = [alive EXCEPT ![p] = FALSE]
        /\ rlocal' = [rlocal EXCEPT ![p] = 0]
        /\ snap' = [snap EXCEPT ![p] = EmptyMeta]
        /\ mr_txnid' = [mr_txnid EXCEPT ![p] = IDLE]
    BY DEF Crash, ghostVars
  <1>2. /\ rpc \in [Procs -> RPC] /\ rlocal \in [Procs -> Txnids]
        /\ snap \in [Procs -> Metas] /\ mr_txnid \in [Procs -> Txnids \cup {IDLE}]
    BY DEF SeenInv, AllInv, SafeInv, IndInv, TypeOK, ReadTypeOK, LockTypeOK
  <1>3. \A q \in Procs \ {p} :
            /\ rpc'[q] = rpc[q] /\ rlocal'[q] = rlocal[q]
            /\ mr_txnid'[q] = mr_txnid[q] /\ snap'[q] = snap[q]
    BY <1>1, <1>2
  <1>4. /\ Phases' = [Phases EXCEPT ![p] = PhaseOf(p)']
        /\ Lows' = [Lows EXCEPT ![p] = LowOf(p)']
        /\ Views' = [Views EXCEPT ![p] = ViewOf(p)']
    BY <1>1, <1>3, OneReader DEF SeenInv
  <1>5. rpc'[p] = "idle"
    BY <1>1, <1>2
  <1>6. PhaseOf(p)' = "idle" /\ LowOf(p)' = 0 /\ ViewOf(p)' = Nothing
    BY <1>5 DEF PhaseOf, LowOf, Copied, SeenInv, ViewsOK, Nothing
  <1>7. /\ Phases' = [Phases EXCEPT ![p] = "idle"]
        /\ Lows' = [Lows EXCEPT ![p] = 0]
        /\ Views' = [Views EXCEPT ![p] = Nothing]
    BY <1>4, <1>6
  <1>8. Visible' \in {Visible, Len(log)}
    BY <1>1 DEF Visible
  <1> QED
    BY <1>1, <1>7, <1>8
    DEF Store!Close, Store!Nothing, Nothing, Phases, Lows, Views

LEMMA OpenSeen ==
    ASSUME SeenInv, SeenInv', NEW p \in Procs, Open(p)
    PROVE  UNCHANGED StoreVars
  <1>1. UNCHANGED <<log, acked, rpc, rlocal, snap, mr_txnid, metas>>
    BY DEF Open, readVars, ghostVars, fileVars
  <1>2. UNCHANGED <<Phases, Lows, Views>>
    BY <1>1, SameReaders DEF SeenInv
  <1>3. SomeAlive' /\ (SomeAlive => mti_txnid' = mti_txnid)
    <2>1. alive \in [Procs -> BOOLEAN]
      BY DEF SeenInv, AllInv, SafeInv, IndInv, TypeOK, ProcTypeOK
    <2> QED
      BY <2>1 DEF Open, SomeAlive
  <1>4. ~SomeAlive => mti_txnid' = Top.mm_txnid
    BY OpenOrder DEF SeenInv, AllInv, SafeInv
  <1>5. Visible' = Visible
    BY <1>1, <1>3, <1>4, VisibleIs DEF Visible, SomeAlive, SeenInv
  <1> QED
    BY <1>1, <1>2, <1>5 DEF StoreVars

(* What a machine that dies takes with it.                                 *)
LEMMA CrashLoss ==
    ASSUME IndInv, OrderInv, SystemCrash
    PROVE  Top'.mm_txnid \in Nat /\ acked - Loss <= Top'.mm_txnid
  <1>1. /\ \A i \in {0, 1} : metas'[i] \in {metas[i], diskMetas[i]}
        /\ \A i \in {0, 1} : diskMetas[i] = metas[i] => metas'[i] = metas[i]
    BY DEF SystemCrash
  <1>2. /\ OrderInv' /\ TopIdx' \in {0, 1} /\ Top' = metas[TopIdx']
        /\ Top'.mm_txnid \in Nat
    BY SystemCrashOrder, Numbers
  <1>3. \A i \in {0, 1} : metas'[i].mm_txnid <= Top'.mm_txnid
    <2>1. Old'.mm_txnid = IF Top'.mm_txnid = 0 THEN 0 ELSE Top'.mm_txnid - 1
      BY <1>2 DEF OrderInv, MetasOrdered
    <2>2. \A i \in {0, 1} : metas'[i] = Top' \/ metas'[i] = Old'
      BY <1>2 DEF Top, Old, TopIdx
    <2>3. Old'.mm_txnid \in {0, Top'.mm_txnid - 1}
      BY <2>1
    <2>4. Old'.mm_txnid <= Top'.mm_txnid
      BY <1>2, <2>3
    <2> QED
      BY <1>2, <2>2, <2>4
  <1>4. /\ Top.mm_txnid \in Nat /\ acked \in Nat /\ acked <= Top.mm_txnid
        /\ TopIdx \in {0, 1} /\ 1 - TopIdx \in {0, 1} /\ Top = metas[TopIdx]
    BY Numbers DEF OrderInv, AckedOrdered, Top
  <1>5. CASE diskMetas[TopIdx] = Top
    <2>1. metas'[TopIdx] = Top
      BY <1>1, <1>4, <1>5
    <2>2. Top.mm_txnid <= Top'.mm_txnid
      BY <1>3, <1>4, <2>1
    <2> QED
      BY <1>2, <1>4, <2>2, ModeAssumption DEF Loss
  <1>6. CASE diskMetas[TopIdx] # Top
    <2>1. /\ diskMetas[1 - TopIdx] = Old /\ Top.mm_txnid > 0
          /\ Old.mm_txnid = Top.mm_txnid - 1 /\ Old = metas[1 - TopIdx]
      BY <1>4, <1>6 DEF OrderInv, MetasOrdered, Old
    <2>2. metas'[1 - TopIdx] = Old
      BY <1>1, <1>4, <2>1
    <2>3. Top.mm_txnid - 1 <= Top'.mm_txnid
      BY <1>3, <1>4, <2>1, <2>2
    <2>4. CASE NoMetaSync
      BY <1>2, <1>4, <2>3, <2>4 DEF Loss
    <2>5. CASE ~NoMetaSync
      <3>1. acked < Top.mm_txnid
        BY <1>6, <2>5 DEF OrderInv, AckedOrdered
      <3> QED
        BY <1>2, <1>4, <2>3, <2>5, <3>1 DEF Loss
    <2> QED
      BY <2>4, <2>5
  <1> QED
    BY <1>5, <1>6

LEMMA SystemCrashSeen ==
    ASSUME SeenInv, SeenInv', SystemCrash
    PROVE  Store!SystemCrash
  <1>1. /\ acked' = Newest(metas').mm_txnid
        /\ alive' = [q \in Procs |-> FALSE]
        /\ rpc' = [q \in Procs |-> "idle"]
    BY DEF SystemCrash
  <1>2. /\ Len(log') = Top'.mm_txnid + 1 /\ Len(log') <= Len(log)
        /\ log' = SubSeq(log, 1, Len(log')) /\ Len(log) \in Nat
    BY SystemCrashStore, LogTypes DEF SeenInv, AllInv, SafeInv
  <1>3. Top'.mm_txnid \in Nat /\ acked - Loss <= Top'.mm_txnid /\ acked \in Nat
    BY CrashLoss, Numbers DEF SeenInv, AllInv, SafeInv
  <1>4. Loss \in {0, 1} /\ Newest(metas') = Top'
    BY ModeAssumption DEF Loss, Newest, Top, TopIdx
  <1>5. Len(log') \in ((acked + 1) - Loss)..Len(log) \ {0}
    BY <1>2, <1>3, <1>4
  <1>6. Visible' = Len(log') /\ acked' + 1 = Len(log')
    BY <1>1, <1>2, <1>4 DEF Visible
  <1>7. \A q \in Procs : /\ PhaseOf(q)' = "idle" /\ LowOf(q)' = 0
                         /\ ViewOf(q)' = Nothing
    BY <1>1 DEF PhaseOf, LowOf, SeenInv, ViewsOK, Copied, Nothing
  <1>8. /\ Phases' = [q \in Procs |-> "idle"] /\ Lows' = [q \in Procs |-> 0]
        /\ Views' = [q \in Procs |-> Nothing]
    BY <1>7 DEF Phases, Lows, Views
  <1> QED
    BY <1>2, <1>5, <1>6, <1>8
    DEF Store!SystemCrash, Store!Nothing, Nothing, Phases, Lows, Views

LEMMA InitSeen == Init => Store!Init
  <1> SUFFICES ASSUME Init PROVE Store!Init
    OBVIOUS
  <1>1. /\ log = <<UserImage(EmptyImage)>> /\ Len(log) = 1 /\ mti_txnid = 0
        /\ acked = 0
    BY DEF Init
  <1>2. UserImage(EmptyImage) = Nothing /\ Visible = 1
    BY <1>1 DEF UserImage, EmptyImage, AllNodes, Nothing, Visible
  <1>3. \A q \in Procs : /\ PhaseOf(q) = "idle" /\ LowOf(q) = 0
                         /\ ViewOf(q) = Nothing
    BY DEF Init, PhaseOf, LowOf, ViewOf, EmptyMeta, EmptyDbs, AllNodes, Nothing
  <1> QED
    BY <1>1, <1>2, <1>3 DEF Store!Init, Store!Nothing, Nothing

LEMMA NextSeen ==
    ASSUME SeenInv, SeenInv', "meta" \notin Faults, [Next]_vars
    PROVE  [Store!Next]_(Store!vars)
  <1>1. ASSUME NEW p \in Procs, Read(p) PROVE [Store!Next]_(Store!vars)
    BY <1>1, ReadSeen, StoreVarsIs DEF Store!Next
  <1>2. ASSUME NEW p \in Procs, Write(p) PROVE [Store!Next]_(Store!vars)
    <2>1. CASE BeginWrite(p) \/ BeginPanics(p) \/ PublishTxnid(p)
      BY <2>1, PublishSeen DEF Store!Next
    <2>2. CASE WriteMeta(p)
      BY <2>2, CommitSeen DEF Store!Next
    <2>3. CASE \/ Work(p) \/ CommitNothing(p) \/ Commit(p) \/ Save(p)
               \/ FlushPage(p) \/ Flushed(p) \/ Sync(p) \/ SyncMeta(p) \/ Unlock(p)
      BY <2>3, UnseenWrite, StoreVarsIs
    <2> QED
      BY <1>2, <2>1, <2>2, <2>3, NothingFails
      DEF Write, SeenInv, AllInv, SafeInv
  <1>3. ASSUME NEW p \in Procs, EnvSync(p) \/ ReaderCheck(p) \/ Open(p)
        PROVE  [Store!Next]_(Store!vars)
    BY <1>3, UnseenWrite, OpenSeen, StoreVarsIs
  <1>4. ASSUME NEW p \in Procs, Crash(p) PROVE [Store!Next]_(Store!vars)
    BY <1>4, CrashSeen DEF Store!Next
  <1>5. SystemCrash => [Store!Next]_(Store!vars)
    BY SystemCrashSeen DEF Store!Next
  <1>6. ASSUME UNCHANGED vars PROVE [Store!Next]_(Store!vars)
    <2>1. UNCHANGED <<log, acked, mti_txnid, alive, rpc, rlocal, snap, mr_txnid>>
      BY <1>6 DEF vars, lockVars, procVars, readVars, ghostVars
    <2>2. UNCHANGED <<Phases, Lows, Views>> /\ Visible' = Visible
      BY <2>1, SameReaders DEF SeenInv, Visible
    <2> QED
      BY <2>1, <2>2, StoreVarsIs DEF StoreVars
  <1> QED
    BY <1>1, <1>2, <1>3, <1>4, <1>5, <1>6 DEF Next

(* Transactions without pages (ImplementsStore): if no write of a meta page *)
(* fails, the engine is a history of committed images.  A reader sees one  *)
(* of them, fixed, and no older than what was published when it began; a   *)
(* commit builds on the last, keeps, deletes or rewrites each node of it,  *)
(* and undoes no other; a writer that dies anywhere in mdb_txn_commit      *)
(* leaves either nothing or its whole transaction, which the next owner of *)
(* the mutex publishes; and when the machine dies, the commits that        *)
(* returned are still there, but for the last one with MDB_NOMETASYNC.     *)
THEOREM EngineImplementsStore ==
    "meta" \notin Faults => (Spec => ImplementsStore)
  <1> SUFFICES ASSUME "meta" \notin Faults PROVE Spec => ImplementsStore
    OBVIOUS
  <1>1. Init => Store!Init
    BY InitSeen
  <1>2. SeenInv /\ SeenInv' /\ [Next]_vars => [Store!Next]_(Store!vars)
    BY NextSeen
  <1> QED
    BY <1>1, <1>2, SpecSeen, PTL DEF Spec, ImplementsStore, Store!Spec
=============================================================================
