------------------------------- MODULE MDBTxn -------------------------------
(***************************************************************************)
(* Transactions of LMDB (src/libraries/lmdb-dll/mdb.c), the storage engine *)
(* under every server of this repository: copy-on-write pages, two meta    *)
(* pages written in turn, one writer at a time, and readers that take no   *)
(* lock but publish the snapshot they hold in a shared reader table.       *)
(*                                                                         *)
(* Several processes map one data file and share one lock region.  Each    *)
(* runs one thread that reads and one that writes.  A process may die at   *)
(* any step, leaving its reader slot and the writer mutex behind; the      *)
(* machine may die, leaving on disk some of the pages not yet synced.      *)
(*                                                                         *)
(* A B-tree is the set of its pages: mm_dbs maps each logical page (a node *)
(* of the main tree, or the single page of the freeDB) to the page number  *)
(* that holds it.  A page's content is the ghost pair <<transaction,       *)
(* node>> of what was written to it, and a meta page carries the contents  *)
(* its tree had when it was written (image): a snapshot is intact when the *)
(* file still holds its image.  The records of the freeDB, written in its  *)
(* page, travel with the tree (freedb; {} is a record that is not there).  *)
(***************************************************************************)
EXTENDS Integers, FiniteSets, Sequences

CONSTANTS
    Procs,      \* the processes that open the environment
    Readers,    \* those of them whose reading thread is busy
    Writers,    \* those of them whose writing thread is busy
    Ops,        \* workload: what the users call, among AllOps
    Nodes,      \* the logical pages of the main tree
    Root,       \* the one of them that is the root
    FreeDB,     \* the logical page of the freeDB
    Nobody,     \* wmutex: not locked
    Abandoned,  \* wmutex: its owner died
    MaxPg,      \* me_maxpg, the pages of the map
    MaxTxn,     \* bound: write transactions ever begun
    MaxCrash,   \* bound: deaths of a process or of the machine
    NoMetaSync, \* MDB_NOMETASYNC, the mode CLMDBWrapper opens with
    Faults      \* the writes that may fail, among {"pages", "meta"}

ASSUME ProcsAssumption == Nobody \notin Procs /\ Abandoned \notin Procs /\ Nobody # Abandoned
ASSUME UsersAssumption == Readers \subseteq Procs /\ Writers \subseteq Procs
ASSUME NodesAssumption == Root \in Nodes /\ FreeDB \notin Nodes
ASSUME BoundsAssumption ==
    /\ MaxPg \in Nat /\ MaxPg >= 2      \* a map holds the meta pages
    /\ MaxTxn \in Nat /\ MaxCrash \in Nat
ASSUME ModeAssumption == NoMetaSync \in BOOLEAN

AllOps == {"write", "loose", "overflow", "empty", "drop", "abort", "sync"}

P_INVALID == 0
AllNodes == Nodes \cup {FreeDB}
Pgnos == 2..(MaxPg - 1)         \* pages 0 and 1 are the meta pages
Txnids == 0..MaxTxn
Contents == Txnids \X AllNodes
Blank == <<0, FreeDB>>          \* what no transaction wrote
IDLE == -1                      \* mr_txnid of a slot that protects nothing

Dbs == [AllNodes -> Pgnos \cup {P_INVALID}]
Images == [AllNodes -> Contents]
FreeRecs == [Txnids -> SUBSET Pgnos]

Metas == [mm_txnid : Txnids, mm_dbs : Dbs, image : Images,
          freedb : FreeRecs, mm_last_pg : 1..(MaxPg - 1)]

EmptyDbs == [n \in AllNodes |-> P_INVALID]
EmptyImage == [n \in AllNodes |-> Blank]
NoRecs == [k \in Txnids |-> {}]
EmptyMeta == [mm_txnid |-> 0, mm_dbs |-> EmptyDbs, image |-> EmptyImage,
              freedb |-> NoRecs, mm_last_pg |-> 1]

VARIABLES
    file,           \* the data pages, as every process maps them
    metas,          \* the two meta pages, likewise
    disk,           \* the data pages that survive the machine
    diskMetas,      \* the meta pages that do
    mti_txnid,      \* lock region: the newest committed transaction
    mr_txnid,       \* lock region: the reader slot of each process
    stale,          \* lock region: what the slots of dead processes hold
    wmutex,         \* the writer mutex
    alive,          \* per process: it has the environment open
    fatal,          \* per process: MDB_FATAL_ERROR
    me_pgoldest,    \* per process: the last result of mdb_find_oldest
    crashes,        \* deaths so far
    rpc,            \* per process: where its reading thread stands
    rlocal,         \* per process: mti_txnid as that thread last loaded it
    snap,           \* per process: the meta page it copied
    rnext,          \* per process: mt_next_pgno of the read transaction
    wpc,            \* where the owner of the writer mutex stands
    begun,          \* write transactions so far: the author of contents
    mt_txnid,       \* write transaction: its number,
    mt_dbs,         \*   its trees,
    image,          \*   their contents,
    freedb,         \*   the records of its freeDB,
    mt_next_pgno,   \*   the first page number never used,
    dirty_list,     \*   the pages it has allocated,
    mt_dirty,       \*   MDB_TXN_DIRTY,
    mt_free_pgs,    \*   the pages it has freed,
    mt_loose_pgs,   \*   the pages it allocated and no longer needs,
    me_pghead,      \*   old pages taken from the freeDB,
    me_pglast,      \*   the last record they were taken from
    metab,          \*   what its meta page held before the write that failed
    log,            \* ghost: the image of every commit
    acked,          \* ghost: the last transaction whose commit succeeded
    doubt           \* ghost: a meta page may hold what no commit wrote

fileVars == <<file, metas>>
diskVars == <<disk, diskMetas>>
lockVars == <<mti_txnid, mr_txnid, stale, wmutex>>
procVars == <<alive, fatal, me_pgoldest, crashes>>
readVars == <<rpc, rlocal, snap, rnext>>
treeVars == <<mt_dbs, image, freedb>>
pageVars == <<mt_next_pgno, dirty_list, mt_free_pgs, mt_loose_pgs,
              me_pghead, me_pglast>>
ghostVars == <<log, acked, doubt>>
txnVars == <<wpc, begun, mt_txnid, mt_dirty, metab, treeVars, pageVars>>
vars == <<fileVars, diskVars, lockVars, procVars, readVars, txnVars, ghostVars>>

RPC == {"idle", "store", "check", "dbs", "last", "open"}
WPC == {"idle", "work", "error", "save", "loop", "put", "flush", "sync",
        "meta", "rollback", "metasync", "publish", "unlock"}

(* "none": no meta page write has failed.  "failed": one has, and no write *)
(* transaction has begun since.  "built": one has.                         *)
DOUBT == {"none", "failed", "built"}

Backups == [mm_txnid : Txnids, mm_last_pg : 1..(MaxPg - 1)]
NoBackup == [mm_txnid |-> 0, mm_last_pg |-> 1]

FileTypeOK ==
    /\ file \in [Pgnos -> Contents]
    /\ metas \in [{0, 1} -> Metas]
    /\ disk \in [Pgnos -> Contents]
    /\ diskMetas \in [{0, 1} -> Metas]

LockTypeOK ==
    /\ mti_txnid \in Txnids
    /\ mr_txnid \in [Procs -> Txnids \cup {IDLE}]
    /\ stale \subseteq Txnids
    /\ wmutex \in Procs \cup {Nobody, Abandoned}

ProcTypeOK ==
    /\ alive \in [Procs -> BOOLEAN]
    /\ fatal \in [Procs -> BOOLEAN]
    /\ me_pgoldest \in [Procs -> Txnids]
    /\ crashes \in 0..MaxCrash

ReadTypeOK ==
    /\ rpc \in [Procs -> RPC]
    /\ rlocal \in [Procs -> Txnids]
    /\ snap \in [Procs -> Metas]
    /\ rnext \in [Procs -> 0..MaxPg]

TreeTypeOK ==
    /\ mt_dbs \in Dbs
    /\ image \in Images
    /\ freedb \in FreeRecs

PageTypeOK ==
    /\ mt_next_pgno \in 2..MaxPg
    /\ dirty_list \subseteq Pgnos
    /\ mt_free_pgs \subseteq Pgnos
    /\ mt_loose_pgs \subseteq Pgnos
    /\ me_pghead \subseteq Pgnos
    /\ me_pglast \in Txnids

TxnTypeOK ==
    /\ wpc \in WPC
    /\ begun \in Txnids
    /\ mt_txnid \in Txnids
    /\ mt_dirty \in BOOLEAN
    /\ metab \in Backups
    /\ TreeTypeOK
    /\ PageTypeOK

GhostTypeOK ==
    /\ log \in Seq([Nodes -> Contents])
    /\ acked \in Txnids
    /\ doubt \in DOUBT

TypeOK ==
    /\ FileTypeOK /\ LockTypeOK /\ ProcTypeOK
    /\ ReadTypeOK /\ TxnTypeOK /\ GhostTypeOK

UserImage(im) == [n \in Nodes |-> im[n]]

(* A fresh environment: mdb_env_init_meta wrote both meta pages. *)
Init ==
    /\ file = [pg \in Pgnos |-> Blank]
    /\ disk = file
    /\ metas = [i \in {0, 1} |-> EmptyMeta]
    /\ diskMetas = metas
    /\ mti_txnid = 0
    /\ mr_txnid = [p \in Procs |-> IDLE]
    /\ stale = {}
    /\ wmutex = Nobody
    /\ alive = [p \in Procs |-> TRUE]
    /\ fatal = [p \in Procs |-> FALSE]
    /\ me_pgoldest = [p \in Procs |-> 0]
    /\ crashes = 0
    /\ rpc = [p \in Procs |-> "idle"]
    /\ rlocal = [p \in Procs |-> 0]
    /\ snap = [p \in Procs |-> EmptyMeta]
    /\ rnext = [p \in Procs |-> 0]
    /\ wpc = "idle"
    /\ begun = 0
    /\ mt_txnid = 0
    /\ mt_dbs = EmptyDbs
    /\ image = EmptyImage
    /\ freedb = NoRecs
    /\ mt_next_pgno = 2
    /\ dirty_list = {}
    /\ mt_dirty = FALSE
    /\ mt_free_pgs = {}
    /\ mt_loose_pgs = {}
    /\ me_pghead = {}
    /\ me_pglast = 0
    /\ metab = NoBackup
    /\ log = <<UserImage(EmptyImage)>>
    /\ acked = 0
    /\ doubt = "none"

Newest(ms) == ms[IF ms[0].mm_txnid < ms[1].mm_txnid THEN 1 ELSE 0]

-----------------------------------------------------------------------------
(* Read transactions: mdb_txn_renew0 with a slot the thread already owns.  *)

ReadStep(p, from, to) ==
    /\ alive[p]
    /\ rpc[p] = from
    /\ rpc' = [rpc EXCEPT ![p] = to]
    /\ UNCHANGED <<fileVars, diskVars, procVars, txnVars, ghostVars>>

(* The publishing loop: load mti_txnid, store it in the slot, look again. *)
LoadTxnid(p) ==
    /\ \/ p \in Readers /\ ReadStep(p, "idle", "store")
       \/ mr_txnid[p] # mti_txnid /\ ReadStep(p, "check", "store")
    /\ rlocal' = [rlocal EXCEPT ![p] = mti_txnid]
    /\ UNCHANGED <<lockVars, snap, rnext>>

StoreTxnid(p) ==
    /\ ReadStep(p, "store", "check")
    /\ mr_txnid' = [mr_txnid EXCEPT ![p] = rlocal[p]]
    /\ rlocal' = [rlocal EXCEPT ![p] = 0]
    /\ UNCHANGED <<mti_txnid, stale, wmutex, snap, rnext>>

CheckTxnid(p) ==
    /\ mr_txnid[p] = mti_txnid
    /\ ReadStep(p, "check", "dbs")
    /\ UNCHANGED <<lockVars, rlocal, snap, rnext>>

ReadMeta(p) == metas[mr_txnid[p] % 2]

CopyDbs(p) ==
    /\ ReadStep(p, "dbs", "last")
    /\ snap' = [snap EXCEPT ![p] = ReadMeta(p)]
    /\ UNCHANGED <<lockVars, rlocal, rnext>>

(* Mutant: the last page taken for the next one. *)
CopyLastPgOffByOne(p) ==
    /\ ~fatal[p]
    /\ ReadStep(p, "last", "open")
    /\ rnext' = [rnext EXCEPT ![p] = ReadMeta(p).mm_last_pg]
    /\ UNCHANGED <<lockVars, rlocal, snap>>

CopyLastPg(p) ==
    /\ ~fatal[p]
    /\ ReadStep(p, "last", "open")
    /\ rnext' = [rnext EXCEPT ![p] = ReadMeta(p).mm_last_pg + 1]
    /\ UNCHANGED <<lockVars, rlocal, snap>>

(* mdb_txn_end of a read transaction, or of one that found MDB_PANIC. *)
EndRead(p) ==
    /\ ReadStep(p, "open", "idle") \/ (fatal[p] /\ ReadStep(p, "last", "idle"))
    /\ mr_txnid' = [mr_txnid EXCEPT ![p] = IDLE]
    /\ snap' = [snap EXCEPT ![p] = EmptyMeta]
    /\ rnext' = [rnext EXCEPT ![p] = 0]
    /\ UNCHANGED <<mti_txnid, stale, wmutex, rlocal>>

Read(p) ==
    \/ LoadTxnid(p) \/ StoreTxnid(p) \/ CheckTxnid(p)
    \/ CopyDbs(p) \/ CopyLastPg(p) \/ EndRead(p)

-----------------------------------------------------------------------------
(* Beginning a write transaction. *)

(* Mutant: the new owner goes on from what its predecessor published. *)
RecoveredTxnidAsPublished == mti_txnid

(* Mutant: it counts the transaction of the owner that died. *)
RecoveredTxnidCountsDead ==
    IF wmutex = Abandoned /\ begun < MaxTxn THEN Newest(metas).mm_txnid + 1 ELSE mti_txnid

(* mdb_mutex_failed: what the owner of an abandoned mutex puts right. *)
RecoveredTxnid ==
    IF wmutex = Abandoned THEN Newest(metas).mm_txnid ELSE mti_txnid

RecoveredStale == IF wmutex = Abandoned THEN {} ELSE stale

LockMutex(p) ==
    /\ p \in Writers /\ alive[p]
    /\ wmutex \in {Nobody, Abandoned}
    /\ mti_txnid' = RecoveredTxnid
    /\ stale' = RecoveredStale

BeginWrite(p) ==
    /\ LockMutex(p)
    /\ ~fatal[p]
    /\ begun < MaxTxn
    /\ begun' = begun + 1
    /\ wmutex' = p
    /\ wpc' = "work"
    /\ mt_txnid' = RecoveredTxnid + 1
    /\ LET meta == metas[RecoveredTxnid % 2] IN
          /\ mt_dbs' = meta.mm_dbs
          /\ image' = meta.image
          /\ freedb' = meta.freedb
          /\ mt_next_pgno' = meta.mm_last_pg + 1
    /\ doubt' = IF doubt = "failed" THEN "built" ELSE doubt
    /\ UNCHANGED <<fileVars, diskVars, mr_txnid, procVars, readVars, mt_dirty,
                   dirty_list, mt_free_pgs, mt_loose_pgs, me_pghead,
                   me_pglast, metab, log, acked>>

(* An environment that met a fatal error gives the mutex back: MDB_PANIC. *)
BeginPanics(p) ==
    /\ LockMutex(p)
    /\ fatal[p]
    /\ wmutex' = Nobody
    /\ UNCHANGED <<fileVars, diskVars, mr_txnid, procVars, readVars, txnVars,
                   ghostVars>>

(* mdb_txn_end of a write transaction: its memory and the mutex are free. *)
ForgetTxn ==
    /\ wpc' = "idle"
    /\ mt_txnid' = 0
    /\ mt_dbs' = EmptyDbs
    /\ image' = EmptyImage
    /\ freedb' = NoRecs
    /\ mt_next_pgno' = 2
    /\ dirty_list' = {}
    /\ mt_dirty' = FALSE
    /\ mt_free_pgs' = {}
    /\ mt_loose_pgs' = {}
    /\ me_pghead' = {}
    /\ me_pglast' = 0
    /\ metab' = NoBackup
    /\ UNCHANGED begun

EndTxn(p) ==
    /\ ForgetTxn
    /\ wmutex' = Nobody
    /\ UNCHANGED <<diskVars, mti_txnid, mr_txnid, stale, readVars>>

-----------------------------------------------------------------------------
(* mdb_page_alloc, for one page. *)

InUse(slots) == {t \in slots : t # IDLE}

(* Mutant: the reader table is not consulted. *)
OldestIgnoresReaders == mt_txnid - 1

(* mdb_find_oldest: no reader and neither meta page needs an older one. *)
Oldest ==
    LET held == InUse({mr_txnid[p] : p \in Procs} \cup stale)
                   \cup {mt_txnid - 1}
    IN  CHOOSE t \in held : \A u \in held : t <= u

(* The first record of the freeDB not consumed yet, if there is one. *)
NextRecs ==
    {k \in Txnids : /\ k > me_pglast /\ freedb[k] # {}
                    /\ \A j \in (me_pglast + 1)..(k - 1) : freedb[j] = {}}

Wanted == NextRecs \cup {me_pglast + 1}

(* The readers are looked at again only if the last look is too old. *)
PgOldest(p) ==
    IF \E k \in Wanted : me_pgoldest[p] <= k THEN Oldest ELSE me_pgoldest[p]

(* Mutant: oldest < last for oldest <= last. *)
ReclaimableOffByOne(p) == {k \in NextRecs : k <= PgOldest(p)}

Reclaimable(p) == {k \in NextRecs : k < PgOldest(p)}

TakeLoose(pg) ==
    /\ pg \in mt_loose_pgs
    /\ mt_loose_pgs' = mt_loose_pgs \ {pg}
    /\ UNCHANGED <<me_pgoldest, mt_next_pgno, dirty_list, me_pghead, me_pglast>>

TakeHead(pg) ==
    /\ mt_loose_pgs = {}
    /\ pg \in me_pghead /\ \A q \in me_pghead : pg <= q
    /\ me_pghead' = me_pghead \ {pg}
    /\ dirty_list' = dirty_list \cup {pg}
    /\ UNCHANGED <<me_pgoldest, mt_next_pgno, mt_loose_pgs, me_pglast>>

NoPageLeft == mt_loose_pgs = {} /\ me_pghead = {}

Look(p) == me_pgoldest' = [me_pgoldest EXCEPT ![p] = PgOldest(p)]

TakeRecord(p, pg) ==
    /\ NoPageLeft
    /\ \E k \in Reclaimable(p) :
          /\ pg \in freedb[k] /\ \A q \in freedb[k] : pg <= q
          /\ me_pghead' = freedb[k] \ {pg}
          /\ me_pglast' = k
    /\ dirty_list' = dirty_list \cup {pg}
    /\ Look(p)
    /\ UNCHANGED <<mt_next_pgno, mt_loose_pgs>>

TakeNew(p, pg) ==
    /\ NoPageLeft
    /\ Reclaimable(p) = {}
    /\ pg = mt_next_pgno
    /\ pg + 1 < MaxPg
    /\ mt_next_pgno' = pg + 1
    /\ dirty_list' = dirty_list \cup {pg}
    /\ Look(p)
    /\ UNCHANGED <<mt_loose_pgs, me_pghead, me_pglast>>

PageAlloc(p, pg) ==
    TakeLoose(pg) \/ TakeHead(pg) \/ TakeRecord(p, pg) \/ TakeNew(p, pg)

Dirty(n) == mt_dbs[n] \in dirty_list

(* Mutant: a page that is not there is freed too. *)
FreedInvalid(pgs) == mt_free_pgs' = mt_free_pgs \cup pgs

Freed(pgs) == mt_free_pgs' = mt_free_pgs \cup (pgs \ {P_INVALID})

(* mdb_page_touch of a clean page, or mdb_page_new of one that is not      *)
(* there: the node moves to a page of this transaction.                    *)
Touch(p, n) ==
    /\ ~Dirty(n)
    /\ \E pg \in Pgnos :
          /\ PageAlloc(p, pg)
          /\ mt_dbs' = [mt_dbs EXCEPT ![n] = pg]
    /\ Freed({mt_dbs[n]})
    /\ image' = [image EXCEPT ![n] = <<begun, n>>]
    /\ UNCHANGED freedb

Remove(ns) ==
    /\ mt_dbs' = [n \in AllNodes |-> IF n \in ns THEN P_INVALID ELSE mt_dbs[n]]
    /\ image' = [n \in AllNodes |-> IF n \in ns THEN Blank ELSE image[n]]

-----------------------------------------------------------------------------
(* What a write transaction does to its tree. *)

Owner(p, at) == wmutex = p /\ wpc = at

(* These change the transaction's memory only. *)
InMemory ==
    UNCHANGED <<fileVars, diskVars, lockVars, alive, fatal, crashes, readVars,
                begun, mt_txnid, metab, ghostVars>>

(* mdb_cursor_touch goes down from the root: a page is written only below  *)
(* pages that are.                                                         *)
WriteNode(p, n) ==
    /\ Owner(p, "work")
    /\ "write" \in Ops
    /\ n = Root \/ Dirty(Root)
    /\ Touch(p, n)
    /\ InMemory
    /\ UNCHANGED <<wpc, mt_dirty>>

Below(n) == n # Root /\ Dirty(Root) /\ mt_dbs[n] # P_INVALID

RemoveStep(ns) ==
    /\ Remove(ns)
    /\ InMemory
    /\ UNCHANGED <<wpc, me_pgoldest, freedb, mt_next_pgno, me_pglast>>

(* mdb_page_loose, of a page merged into its sibling. *)
LoosePage(p, n) ==
    /\ Owner(p, "work")
    /\ "loose" \in Ops
    /\ Below(n)
    /\ RemoveStep({n})
    /\ IF Dirty(n)
       THEN mt_loose_pgs' = mt_loose_pgs \cup {mt_dbs[n]} /\ UNCHANGED mt_free_pgs
       ELSE Freed({mt_dbs[n]}) /\ UNCHANGED mt_loose_pgs
    /\ UNCHANGED <<dirty_list, mt_dirty, me_pghead>>

(* mdb_ovpage_free: a page of this transaction goes back to me_pghead, if  *)
(* there is one.                                                           *)
FreeOverflow(p, n) ==
    /\ Owner(p, "work")
    /\ "overflow" \in Ops
    /\ Below(n)
    /\ RemoveStep({n})
    /\ IF me_pglast > 0 /\ Dirty(n)
       THEN /\ me_pghead' = me_pghead \cup {mt_dbs[n]}
            /\ dirty_list' = dirty_list \ {mt_dbs[n]}
            /\ UNCHANGED mt_free_pgs
       ELSE Freed({mt_dbs[n]}) /\ UNCHANGED <<me_pghead, dirty_list>>
    /\ UNCHANGED <<mt_dirty, mt_loose_pgs>>

(* mdb_rebalance of a root without keys. *)
EmptyRoot(p) ==
    /\ Owner(p, "work")
    /\ "empty" \in Ops
    /\ Dirty(Root)
    /\ \A n \in Nodes \ {Root} : mt_dbs[n] = P_INVALID
    /\ RemoveStep({Root})
    /\ Freed({mt_dbs[Root]})
    /\ UNCHANGED <<dirty_list, mt_dirty, mt_loose_pgs, me_pghead>>

(* mdb_drop of the main tree. *)
Drop(p) ==
    /\ Owner(p, "work")
    /\ "drop" \in Ops
    /\ RemoveStep(Nodes)
    /\ Freed({mt_dbs[n] : n \in Nodes})
    /\ mt_dirty' = TRUE
    /\ UNCHANGED <<dirty_list, mt_loose_pgs, me_pghead>>

(* MDB_MAP_FULL: the transaction can only be aborted. *)
MapFull(p, wanted) ==
    /\ wanted
    /\ NoPageLeft
    /\ Reclaimable(p) = {}
    /\ mt_next_pgno + 1 >= MaxPg
    /\ wpc' = "error"
    /\ Look(p)
    /\ InMemory
    /\ UNCHANGED <<treeVars, pageVars, mt_dirty>>

WriteFails(p) ==
    \E n \in Nodes :
        MapFull(p, Owner(p, "work") /\ ~Dirty(n) /\ (n = Root \/ Dirty(Root)))

(* mdb_txn_abort, called by the user or by a commit that failed. *)
Abort(p) ==
    /\ \/ "abort" \in Ops /\ Owner(p, "work")
       \/ Owner(p, "error")
       \/ "pages" \in Faults /\ (Owner(p, "flush") \/ Owner(p, "sync"))
    /\ EndTxn(p)
    /\ UNCHANGED <<fileVars, procVars, ghostVars>>

Work(p) ==
    \/ \E n \in Nodes : WriteNode(p, n) \/ LoosePage(p, n) \/ FreeOverflow(p, n)
    \/ EmptyRoot(p) \/ Drop(p) \/ WriteFails(p) \/ Abort(p)

-----------------------------------------------------------------------------
(* mdb_txn_commit: nothing to write, or the freeDB first. *)

CommitNothing(p) ==
    /\ Owner(p, "work")
    /\ dirty_list = {} /\ ~mt_dirty
    /\ EndTxn(p)
    /\ UNCHANGED <<fileVars, procVars, ghostVars>>

Commit(p) ==
    /\ Owner(p, "work")
    /\ dirty_list # {} \/ mt_dirty
    /\ wpc' = "save"
    /\ InMemory
    /\ UNCHANGED <<me_pgoldest, treeVars, pageVars, mt_dirty>>

(* mdb_freelist_save.  The records consumed so far must be deleted, and    *)
(* writing the freeDB itself allocates and frees pages, until it settles.  *)

Consumed == \E k \in 1..me_pglast : freedb[k] # {}
Unsaved == freedb[mt_txnid] # mt_free_pgs

SaveStep(p, from, to) ==
    /\ Owner(p, from)
    /\ wpc' = to
    /\ InMemory
    /\ UNCHANGED mt_dirty

SaveTouches(p) ==
    /\ me_pglast > 0
    /\ SaveStep(p, "save", "loop")
    /\ Touch(p, FreeDB)

SaveLoose(p) ==
    /\ me_pglast = 0
    /\ SaveStep(p, "save", "loop")
    /\ Freed(mt_loose_pgs)
    /\ dirty_list' = dirty_list \ mt_loose_pgs    \* mdb_page_flush skips them
    /\ mt_loose_pgs' = {}
    /\ UNCHANGED <<me_pgoldest, treeVars, mt_next_pgno, me_pghead, me_pglast>>

(* The page of a freeDB left without records is freed: mdb_rebalance. *)
SaveDeletes(p) ==
    /\ Consumed
    /\ SaveStep(p, "loop", "loop")
    /\ freedb' = [k \in Txnids |-> IF k <= me_pglast THEN {} ELSE freedb[k]]
    /\ IF freedb' = NoRecs
       THEN Remove({FreeDB}) /\ Freed({mt_dbs[FreeDB]})
       ELSE UNCHANGED <<mt_dbs, image, mt_free_pgs>>
    /\ UNCHANGED <<me_pgoldest, mt_next_pgno, dirty_list, mt_loose_pgs,
                   me_pghead, me_pglast>>

SaveReserves(p) ==
    /\ ~Consumed /\ Unsaved
    /\ SaveStep(p, "loop", "put")
    /\ IF Dirty(FreeDB)
       THEN UNCHANGED <<me_pgoldest, treeVars, pageVars>>
       ELSE Touch(p, FreeDB)

SavePuts(p) ==
    /\ SaveStep(p, "put", "loop")
    /\ freedb' = [freedb EXCEPT ![mt_txnid] = mt_free_pgs]
    /\ UNCHANGED <<me_pgoldest, mt_dbs, image, pageVars>>

SaveFails(p) ==
    MapFull(p, \/ Owner(p, "save") /\ me_pglast > 0
               \/ Owner(p, "loop") /\ ~Consumed /\ Unsaved /\ ~Dirty(FreeDB))

(* Mutant: what is left of the old pages is forgotten. *)
SaveReturnsForgetsHead(p) ==
    /\ ~Consumed /\ ~Unsaved
    /\ SaveStep(p, "loop", "flush")
    /\ freedb' = [freedb EXCEPT ![me_pglast] = mt_loose_pgs]
    /\ me_pghead' = {}
    /\ mt_loose_pgs' = {}
    /\ dirty_list' = dirty_list \ mt_loose_pgs
    /\ UNCHANGED <<me_pgoldest, mt_dbs, image, mt_next_pgno, mt_free_pgs,
                   me_pglast>>

(* What was taken and not used goes back under the last key consumed. *)
SaveReturns(p) ==
    /\ ~Consumed /\ ~Unsaved
    /\ SaveStep(p, "loop", "flush")
    /\ freedb' = [freedb EXCEPT ![me_pglast] = me_pghead \cup mt_loose_pgs]
    /\ me_pghead' = {}
    /\ mt_loose_pgs' = {}
    /\ dirty_list' = dirty_list \ mt_loose_pgs    \* mdb_page_flush skips them
    /\ UNCHANGED <<me_pgoldest, mt_dbs, image, mt_next_pgno, mt_free_pgs,
                   me_pglast>>

Save(p) ==
    \/ SaveTouches(p) \/ SaveLoose(p) \/ SaveDeletes(p) \/ SaveReserves(p)
    \/ SavePuts(p) \/ SaveReturns(p) \/ SaveFails(p)

-----------------------------------------------------------------------------
(* mdb_txn_commit: pages, then sync, then the meta page, then mti_txnid.   *)

CommitStep(p, from, to) ==
    /\ Owner(p, from)
    /\ wpc' = to
    /\ UNCHANGED <<mr_txnid, stale, wmutex, procVars, readVars, begun,
                   mt_txnid, mt_dirty, metab, treeVars, mt_next_pgno,
                   mt_free_pgs, mt_loose_pgs, me_pghead, me_pglast>>

(* What this transaction wrote to one of its pages. *)
Written(pg) == {<<begun, n>> : n \in {m \in AllNodes : mt_dbs[m] = pg}}

(* A page freed after it was allocated is in no tree: it is written too.   *)
FlushPage(p) ==
    /\ \E pg \in dirty_list :
          /\ \A q \in dirty_list : pg <= q
          /\ dirty_list' = dirty_list \ {pg}
          /\ \E c \in Contents :
                /\ IF Written(pg) = {} THEN c = <<begun, FreeDB>> ELSE c \in Written(pg)
                /\ file' = [file EXCEPT ![pg] = c]
    /\ CommitStep(p, "flush", "flush")
    /\ UNCHANGED <<metas, diskVars, mti_txnid, ghostVars>>

Flushed(p) ==
    /\ dirty_list = {}
    /\ CommitStep(p, "flush", "sync")
    /\ UNCHANGED <<fileVars, diskVars, mti_txnid, dirty_list, ghostVars>>

Sync(p) ==
    /\ CommitStep(p, "sync", "meta")
    /\ disk' = file
    /\ diskMetas' = metas
    /\ UNCHANGED <<fileVars, mti_txnid, dirty_list, ghostVars>>

(* mdb_env_write_meta *)
Toggle == mt_txnid % 2

MetaOf(txnid, last_pg) ==
    [mm_txnid |-> txnid, mm_dbs |-> mt_dbs, image |-> image,
     freedb |-> freedb, mm_last_pg |-> last_pg]

NewMeta == MetaOf(mt_txnid, mt_next_pgno - 1)

WriteMeta(p) ==
    /\ CommitStep(p, "meta", IF NoMetaSync THEN "publish" ELSE "metasync")
    /\ metas' = [metas EXCEPT ![Toggle] = NewMeta]
    /\ log' = Append(log, UserImage(image))
    /\ UNCHANGED <<file, diskVars, mti_txnid, dirty_list, acked, doubt>>

(* Mutant: the meta page goes through the descriptor that does not sync. *)
SyncMetaSkipped(p) ==
    /\ CommitStep(p, "metasync", "publish")
    /\ UNCHANGED <<fileVars, diskVars, mti_txnid, dirty_list, ghostVars>>

SyncMeta(p) ==
    /\ CommitStep(p, "metasync", "publish")
    /\ diskMetas' = [diskMetas EXCEPT ![Toggle] = metas[Toggle]]
    /\ UNCHANGED <<fileVars, disk, mti_txnid, dirty_list, ghostVars>>

(* The write fails.  The new page may be in the map all the same, and even *)
(* on the disk: me_mfd writes through, and "the pagecache still contains   *)
(* the new data".                                                          *)
WriteMetaFails(p) ==
    /\ "meta" \in Faults
    /\ Owner(p, "meta")
    /\ wpc' = "rollback"
    /\ metab' = [mm_txnid |-> metas[Toggle].mm_txnid,
                 mm_last_pg |-> metas[Toggle].mm_last_pg]
    /\ metas' \in {metas, [metas EXCEPT ![Toggle] = NewMeta]}
    /\ diskMetas' \in {diskMetas, [diskMetas EXCEPT ![Toggle] = metas'[Toggle]]}
    /\ doubt' = IF doubt = "none" THEN "failed" ELSE doubt
    /\ UNCHANGED <<file, disk, lockVars, procVars, readVars, begun, mt_txnid,
                   mt_dirty, treeVars, pageVars, log, acked>>

RolledBack == MetaOf(metab.mm_txnid, metab.mm_last_pg)

(* "Some old data" is written over it, through the descriptor that does    *)
(* not sync, and nobody looks whether this write fails too.                *)
RollBack(p) ==
    /\ Owner(p, "rollback")
    /\ wpc' = "error"
    /\ metas' \in {metas, [metas EXCEPT ![Toggle] = RolledBack]}
    /\ fatal' = [fatal EXCEPT ![p] = TRUE]
    /\ UNCHANGED <<file, diskVars, lockVars, alive, me_pgoldest, crashes,
                   readVars, begun, mt_txnid, mt_dirty, metab, treeVars,
                   pageVars, ghostVars>>

PublishTxnid(p) ==
    /\ CommitStep(p, "publish", "unlock")
    /\ mti_txnid' = mt_txnid
    /\ acked' = mt_txnid
    /\ UNCHANGED <<fileVars, diskVars, dirty_list, log, doubt>>

Unlock(p) ==
    /\ Owner(p, "unlock")
    /\ EndTxn(p)
    /\ UNCHANGED <<fileVars, procVars, ghostVars>>

Write(p) ==
    \/ BeginWrite(p) \/ BeginPanics(p)
    \/ Work(p)
    \/ CommitNothing(p) \/ Commit(p) \/ Save(p)
    \/ FlushPage(p) \/ Flushed(p) \/ Sync(p)
    \/ WriteMeta(p) \/ SyncMeta(p) \/ WriteMetaFails(p) \/ RollBack(p)
    \/ PublishTxnid(p) \/ Unlock(p)

-----------------------------------------------------------------------------
(* The environment: mdb_env_sync, mdb_reader_check, death and restart.     *)

EnvSync(p) ==
    /\ "sync" \in Ops
    /\ alive[p]
    /\ disk' = file
    /\ diskMetas' = metas
    /\ UNCHANGED <<fileVars, lockVars, procVars, readVars, txnVars, ghostVars>>

ReaderCheck(p) ==
    /\ alive[p]
    /\ \E t \in stale : stale' = stale \ {t}
    /\ UNCHANGED <<fileVars, diskVars, mti_txnid, mr_txnid, wmutex, procVars,
                   readVars, txnVars, ghostVars>>

(* A process dies: its slot and its mutex stay, its memory does not. *)
Crash(p) ==
    /\ crashes < MaxCrash
    /\ crashes' = crashes + 1
    /\ alive[p]
    /\ alive' = [alive EXCEPT ![p] = FALSE]
    /\ fatal' = [fatal EXCEPT ![p] = FALSE]
    /\ me_pgoldest' = [me_pgoldest EXCEPT ![p] = 0]
    /\ rpc' = [rpc EXCEPT ![p] = "idle"]
    /\ rlocal' = [rlocal EXCEPT ![p] = 0]
    /\ snap' = [snap EXCEPT ![p] = EmptyMeta]
    /\ rnext' = [rnext EXCEPT ![p] = 0]
    /\ mr_txnid' = [mr_txnid EXCEPT ![p] = IDLE]
    /\ stale' = stale \cup InUse({mr_txnid[p]})
    /\ IF wmutex = p
       THEN ForgetTxn /\ wmutex' = Abandoned
       ELSE UNCHANGED <<txnVars, wmutex>>
    /\ UNCHANGED <<fileVars, diskVars, mti_txnid, ghostVars>>

(* mdb_env_open.  The first process to open the environment has the lock   *)
(* file for itself: it clears the reader table, and mdb_env_share_locks    *)
(* takes mti_txnid from the newest meta page.                              *)
Open(p) ==
    /\ ~alive[p]
    /\ alive' = [alive EXCEPT ![p] = TRUE]
    /\ IF \A q \in Procs : ~alive[q]
       THEN /\ mti_txnid' = Newest(metas).mm_txnid
            /\ stale' = {}
            /\ wmutex' = Nobody
       ELSE UNCHANGED <<mti_txnid, stale, wmutex>>
    /\ UNCHANGED <<fileVars, diskVars, mr_txnid, fatal, me_pgoldest, crashes,
                   readVars, txnVars, ghostVars>>

(* The history a restart finds: up to the number in the meta page it picks. *)
LogUpTo(t) == SubSeq(log, 1, IF t < Len(log) THEN t + 1 ELSE Len(log))

(* The machine dies: of what was not synced, any part may be on disk. *)
SystemCrash ==
    /\ crashes < MaxCrash
    /\ crashes' = crashes + 1
    /\ \E pgs \in SUBSET {pg \in Pgnos : disk[pg] # file[pg]},
          ms \in SUBSET {i \in {0, 1} : diskMetas[i] # metas[i]} :
          /\ file' = [pg \in Pgnos |-> IF pg \in pgs THEN file[pg] ELSE disk[pg]]
          /\ metas' = [i \in {0, 1} |-> IF i \in ms THEN metas[i] ELSE diskMetas[i]]
    /\ disk' = file'
    /\ diskMetas' = metas'
    /\ log' = LogUpTo(Newest(metas').mm_txnid)
    /\ acked' = Newest(metas').mm_txnid
    /\ UNCHANGED doubt
    /\ alive' = [p \in Procs |-> FALSE]
    /\ fatal' = [p \in Procs |-> FALSE]
    /\ me_pgoldest' = [p \in Procs |-> 0]
    /\ rpc' = [p \in Procs |-> "idle"]
    /\ rlocal' = [p \in Procs |-> 0]
    /\ snap' = [p \in Procs |-> EmptyMeta]
    /\ rnext' = [p \in Procs |-> 0]
    /\ mti_txnid' = 0
    /\ mr_txnid' = [p \in Procs |-> IDLE]
    /\ stale' = {}
    /\ wmutex' = Nobody
    /\ ForgetTxn

Next ==
    \/ \E p \in Procs : Read(p) \/ Write(p) \/ EnvSync(p) \/ ReaderCheck(p)
                        \/ Crash(p) \/ Open(p)
    \/ SystemCrash

Spec == Init /\ [][Next]_vars

-----------------------------------------------------------------------------
(* Properties *)

Pages(dbs) == {dbs[n] : n \in AllNodes} \ {P_INVALID}

(* The pages f still hold what the meta page m refers to. *)
Intact(m, f) ==
    \A n \in AllNodes : m.mm_dbs[n] # P_INVALID => f[m.mm_dbs[n]] = m.image[n]

Reading(p) == rpc[p] = "open"

(* The snapshot of an open read transaction never changes under it,        *)
(* however many writers commit and reuse pages: mdb_find_oldest, run while *)
(* readers come and go without a lock, never misses one that matters.      *)
SnapshotStable == \A p \in Procs : Reading(p) => Intact(snap[p], file)

(* Every page of a reader's tree is below the mt_next_pgno it copied, even *)
(* when the meta page is rewritten between the two copies: why the second  *)
(* copy was "moved to here to avoid a data race in read TXNs".             *)
ReaderPagesInBounds ==
    \A p \in Procs :
        Reading(p) => \A pg \in Pages(snap[p].mm_dbs) : pg < rnext[p]

(* Whatever part of the unsynced writes reaches the disk, the meta page    *)
(* that a restart picks refers to pages that are all there; so does the    *)
(* one picked after the death of processes only.                           *)
Whole ==
    \A m0 \in {metas[0], diskMetas[0]}, m1 \in {metas[1], diskMetas[1]} :
        LET m == Newest([i \in {0, 1} |-> IF i = 0 THEN m0 ELSE m1])
        IN  Intact(m, file) /\ Intact(m, disk)

(* So it is at every step and whoever dies, also when the write of a meta  *)
(* page fails, whatever is left of it and of the roll-back: until somebody *)
(* writes again, and reuses the pages of the transaction that failed.      *)
Recoverable == doubt # "built" => Whole

(* A commit that returned success is on disk: with MDB_NOMETASYNC, all but *)
(* the last.  (What a successor recovers from a dead writer may be visible *)
(* and not on disk yet: its commit never returned.)                        *)
Loss == IF NoMetaSync THEN 1 ELSE 0

Durable == Newest(diskMetas).mm_txnid >= acked - Loss

(* Every transaction number in a meta page, mapped or on disk, and in the  *)
(* lock region is that of a commit in the history: no begun or aborted     *)
(* transaction leaves its number where a restart would pick it; nor does a *)
(* failed one once old data is written back over its meta page, "to        *)
(* prevent it from being used".                                            *)
TxnidsCommitted ==
    /\ mti_txnid < Len(log)
    /\ wpc # "rollback" =>
          \A i \in {0, 1} : /\ metas[i].mm_txnid < Len(log)
                            /\ diskMetas[i].mm_txnid < Len(log)

(* "Each non-metapage up to mm_last_pg is reachable exactly once in the    *)
(* snapshot: Either used by a database or listed in a freeDB record."      *)
Places(pg, dbs, recs) ==
    {<<"tree", n>> : n \in {m \in AllNodes : dbs[m] = pg}}
    \cup {<<"record", k>> : k \in {j \in Txnids : pg \in recs[j]}}

CommitAccounted ==
    LET m == Newest(metas) IN
    \A pg \in Pgnos :
        Cardinality(Places(pg, m.mm_dbs, m.freedb)) =
            IF pg <= m.mm_last_pg THEN 1 ELSE 0

(* The same of a transaction at work: no page is lost and none is in two   *)
(* places while mdb_freelist_save chases its own allocations.              *)
WorkAccounted ==
    wpc \in {"work", "save", "loop", "put"} =>
        \A pg \in Pgnos :
            Cardinality(Places(pg, mt_dbs, [k \in Txnids |->
                IF k <= me_pglast \/ k = mt_txnid THEN {} ELSE freedb[k]])
              \cup {<<list[1], 0>> : list \in
                {l \in {<<"freed", mt_free_pgs>>, <<"head", me_pghead>>,
                        <<"loose", mt_loose_pgs>>} : pg \in l[2]}}) =
                IF pg < mt_next_pgno THEN 1 ELSE 0

(* Of every page there is exactly one use, before, during and after a      *)
(* transaction.                                                            *)
PagesAccounted == CommitAccounted /\ WorkAccounted

(* Transactions, seen without pages: the image a reader sees is what its   *)
(* pages hold now.                                                         *)
PhaseOf(p) ==
    CASE rpc[p] \in {"store", "check", "dbs"} -> "begin"
      [] rpc[p] \in {"last", "open"} -> "open"
      [] OTHER -> "idle"

LowOf(p) ==
    CASE rpc[p] = "store" -> rlocal[p] + 1
      [] rpc[p] \in {"check", "dbs"} -> mr_txnid[p] + 1
      [] OTHER -> 0

ViewOf(p) ==
    [n \in Nodes |-> IF snap[p].mm_dbs[n] = P_INVALID
                     THEN Blank ELSE file[snap[p].mm_dbs[n]]]

Visible == IF \E p \in Procs : alive[p] THEN mti_txnid + 1 ELSE Len(log)

Store == INSTANCE SnapshotStore
    WITH Readers <- Procs, Keys <- Nodes, Missing <- Blank, vis <- Visible,
         acked <- acked + 1,
         phase <- [p \in Procs |-> PhaseOf(p)],
         low <- [p \in Procs |-> LowOf(p)],
         view <- [p \in Procs |-> ViewOf(p)]

(* Every run of the engine is a run of SnapshotStore: readers see committed *)
(* images, fixed and fresh; no commit undoes another, whoever dies between  *)
(* its steps; a machine that dies loses no more than the mode allows.       *)
ImplementsStore == Store!Spec
=============================================================================
