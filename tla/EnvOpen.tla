------------------------------ MODULE EnvOpen ------------------------------
(***************************************************************************)
(* mdb_env_open and mdb_env_close of mdb.c, as several processes call them *)
(* at once on one directory (the _WIN32 build).  Who gets byte 0 of the    *)
(* lock file for itself initialises the lock region, the data file if that *)
(* is empty, and mti_txnid, and then shares the lock; who does not waits   *)
(* for the shared lock and joins: the region must be there and so must the *)
(* named mutexes, which Windows destroys with their last handle.           *)
(*                                                                         *)
(* Transactions are here as far as they meet an opening: the number they   *)
(* start from, the slot that protects a reader, the meta page a commit     *)
(* writes.  MDBTxn and ReaderTable have the rest, and take an opening to   *)
(* be one step.                                                            *)
(***************************************************************************)
EXTENDS Naturals, Integers, FiniteSets

CONSTANTS
    Procs,
    RDONLY,       \* the processes that open with MDB_RDONLY
    None, Abandoned,
    Fails,        \* calls of mdb_env_open may fail
    MaxDeaths,    \* bound on the processes that die
    MaxTxn        \* bound on the transaction numbers

ASSUME ProcsAssumption ==
    /\ RDONLY \subseteq Procs
    /\ None \notin Procs \cup Nat /\ Abandoned \notin Procs /\ None # Abandoned
ASSUME FaultsAssumption == Fails \in BOOLEAN /\ MaxDeaths \in Nat
ASSUME BoundsAssumption == MaxTxn \in Nat \ {0, 1}

VARIABLES
    file,       \* the data file: "none", "empty" or "valid"
    metas,      \* the mm_txnid of its two meta pages
    mti_magic,  \* the lock region carries MDB_MAGIC
    mti_txnid,
    counted,    \* the processes with a slot below mti_numreaders
    xlock,      \* who has byte 0 of the lock file exclusively
    slock,      \* who shares it
    handles,    \* who has handles of the named mutexes
    wmutex,     \* the owner of the writer mutex
    pc,         \* where a process is in opening or closing
    excl,       \* its variable of mdb_env_open
    reading,    \* the number its read transaction started from
    mt_txnid,   \* the number of the write transaction
    written,    \* that transaction has written its meta page
    committed,  \* ghost: the number of meta pages committed
    misled,     \* ghost: a process has joined whom only the handles that
                \* the dead still had told that somebody is inside
    deaths      \* bounded by MaxDeaths

fileVars == <<file, metas>>
regionVars == <<mti_magic, mti_txnid, counted>>
lockVars == <<xlock, slock, handles>>
openVars == <<pc, excl>>
writeVars == <<wmutex, mt_txnid, written>>
vars == <<fileVars, regionVars, lockVars, openVars, reading, writeVars,
          committed, misled, deaths>>

Txnids == 0..MaxTxn
Opening == {"lock", "wait", "init", "join", "file", "header", "meta", "map",
            "share", "downgrade", "txn0"}

TypeOK ==
    /\ file \in {"none", "empty", "valid"}
    /\ metas \in [0..1 -> Txnids]
    /\ mti_magic \in BOOLEAN
    /\ mti_txnid \in Txnids
    /\ xlock \in Procs \cup {None}
    /\ {counted, slock, handles} \subseteq SUBSET Procs
    /\ pc \in [Procs -> Opening \cup {"closed", "open", "close", "unlock", "dying"}]
    /\ excl \in [Procs -> -1..1]
    /\ reading \in [Procs -> Txnids \cup {None}]
    /\ wmutex \in Procs \cup {None, Abandoned}
    /\ mt_txnid \in Txnids
    /\ written \in BOOLEAN
    /\ committed \in Txnids
    /\ misled \in BOOLEAN
    /\ deaths \in 0..MaxDeaths

(* No file yet, or those of an earlier use: the lock file may be missing,  *)
(* for a copy has none, or hold what a writer that died left.              *)
Init ==
    /\ \/ file = "none" /\ committed = 0 /\ mti_magic = FALSE
       \/ file = "valid" /\ committed = 1 /\ mti_magic \in BOOLEAN
    /\ metas = [i \in 0..1 |-> IF i = 1 THEN committed ELSE 0]
    /\ mti_txnid \in IF mti_magic THEN {committed - 1, committed} ELSE {0}
    /\ counted = {} /\ slock = {} /\ handles = {}
    /\ xlock = None /\ wmutex = None
    /\ pc = [p \in Procs |-> "closed"]
    /\ excl = [p \in Procs |-> -1]
    /\ reading = [p \in Procs |-> None]
    /\ mt_txnid = 0
    /\ written = FALSE
    /\ misled = FALSE
    /\ deaths = 0

(* mdb_env_pick_meta *)
Newest == IF metas[0] < metas[1] THEN metas[1] ELSE metas[0]

(* The processes that may use the lock region. *)
Inside == {p \in handles : excl[p] = 0}

At(p, at) == pc[p] = at
Goto(p, to) == pc' = [pc EXCEPT ![p] = to]

-----------------------------------------------------------------------------
(* mdb_env_setup_locks *)

(* "For RDONLY, get lockfile after we know datafile exists". *)
StartOpen(p) ==
    /\ At(p, "closed")
    /\ p \in RDONLY => file # "none"
    /\ Goto(p, "lock")
    /\ UNCHANGED <<fileVars, regionVars, lockVars, excl, reading, writeVars, committed, misled, deaths>>

(* LockFile fails at once when somebody has the byte, in whatever way. *)
TryExclusive(p) ==
    /\ At(p, "lock")
    /\ IF xlock = None /\ slock = {}
       THEN xlock' = p /\ excl' = [excl EXCEPT ![p] = 1] /\ Goto(p, "init")
       ELSE Goto(p, "wait") /\ UNCHANGED <<xlock, excl>>
    /\ UNCHANGED <<fileVars, regionVars, slock, handles, reading, writeVars, committed, misled, deaths>>

(* LockFileEx waits until nobody has it exclusively. *)
WaitShared(p) ==
    /\ At(p, "wait")
    /\ xlock = None
    /\ slock' = slock \cup {p}
    /\ excl' = [excl EXCEPT ![p] = 0]
    /\ Goto(p, "join")
    /\ UNCHANGED <<fileVars, regionVars, xlock, handles, reading, writeVars, committed, misled, deaths>>

(* CreateMutexA opens the mutex if somebody has still a handle of it. *)
InitRegion(p) ==
    /\ At(p, "init")
    /\ handles' = handles \cup {p}
    /\ mti_magic' = TRUE
    /\ mti_txnid' = 0
    /\ counted' = {}
    /\ Goto(p, "file")
    /\ UNCHANGED <<fileVars, xlock, slock, excl, reading, writeVars, committed, misled, deaths>>

(* Mutant: the mutexes are created when they are not there. *)
JoinCreates(p) ==
    /\ At(p, "join")
    /\ IF mti_magic
       THEN /\ handles' = handles \cup {p} /\ Goto(p, "file")
            /\ misled' = (misled \/ (handles # {} /\ Inside = {}))
       ELSE Goto(p, "close") /\ UNCHANGED <<handles, misled>>
    /\ UNCHANGED <<fileVars, regionVars, xlock, slock, excl, reading, writeVars, committed, deaths>>

(* OpenMutexA fails when nobody has a handle of the mutex; it cannot tell  *)
(* whether those who have one are inside or dead.                          *)
Join(p) ==
    /\ At(p, "join")
    /\ IF mti_magic /\ handles # {}
       THEN /\ handles' = handles \cup {p} /\ Goto(p, "file")
            /\ misled' = (misled \/ Inside = {})
       ELSE Goto(p, "close") /\ UNCHANGED <<handles, misled>>
    /\ UNCHANGED <<fileVars, regionVars, xlock, slock, excl, reading, writeVars, committed, deaths>>

-----------------------------------------------------------------------------
(* mdb_env_open: the data file. *)

(* CreateFileW with OPEN_ALWAYS *)
OpenData(p) ==
    /\ At(p, "file")
    /\ file' = IF file = "none" THEN "empty" ELSE file
    /\ Goto(p, "header")
    /\ UNCHANGED <<metas, regionVars, lockVars, excl, reading, writeVars, committed, misled, deaths>>

ReadHeader(p) ==
    /\ At(p, "header")
    /\ Goto(p, IF file = "empty" THEN "meta" ELSE "map")
    /\ UNCHANGED <<fileVars, regionVars, lockVars, excl, reading, writeVars, committed, misled, deaths>>

(* The file of a MDB_RDONLY environment cannot be written. *)
InitMeta(p) ==
    /\ At(p, "meta")
    /\ IF p \in RDONLY
       THEN Goto(p, "close") /\ UNCHANGED fileVars
       ELSE /\ file' = "valid"
            /\ metas' = [i \in 0..1 |-> 0]
            /\ Goto(p, "map")
    /\ UNCHANGED <<regionVars, lockVars, excl, reading, writeVars, committed, misled, deaths>>

MapFile(p) ==
    /\ At(p, "map")
    /\ Goto(p, IF excl[p] > 0 THEN "share" ELSE "txn0")
    /\ UNCHANGED <<fileVars, regionVars, lockVars, excl, reading, writeVars, committed, misled, deaths>>

-----------------------------------------------------------------------------
(* mdb_env_share_locks *)

(* Mutant: mti_txnid is left at what mdb_env_setup_locks wrote. *)
ShareTxnidNot(p) ==
    /\ At(p, "share")
    /\ Goto(p, "downgrade")
    /\ UNCHANGED <<fileVars, regionVars, lockVars, excl, reading, writeVars, committed, misled, deaths>>

ShareTxnid(p) ==
    /\ At(p, "share")
    /\ mti_txnid' = Newest
    /\ Goto(p, "downgrade")
    /\ UNCHANGED <<fileVars, mti_magic, counted, lockVars, excl, reading, writeVars, committed, misled, deaths>>

(* "First acquire a shared lock. The Unlock will then release the existing *)
(* exclusive lock."                                                        *)
Downgrade(p) ==
    /\ At(p, "downgrade")
    /\ xlock' = None
    /\ slock' = slock \cup {p}
    /\ excl' = [excl EXCEPT ![p] = 0]
    /\ Goto(p, "txn0")
    /\ UNCHANGED <<fileVars, regionVars, handles, reading, writeVars, committed, misled, deaths>>

Opened(p) ==
    /\ At(p, "txn0")
    /\ Goto(p, "open")
    /\ UNCHANGED <<fileVars, regionVars, lockVars, excl, reading, writeVars, committed, misled, deaths>>

(* A call on the way fails: the file system, the memory map, memory. *)
Fail(p) ==
    /\ Fails
    /\ pc[p] \in Opening \ {"lock", "wait"}
    /\ Goto(p, "close")
    /\ UNCHANGED <<fileVars, regionVars, lockVars, excl, reading, writeVars, committed, misled, deaths>>

-----------------------------------------------------------------------------
(* mdb_env_close0, after a failure too.  A mutex nobody has a handle of is *)
(* gone, and with it that it was abandoned.                                *)

MutexWithout(p) ==
    IF handles \subseteq {p} /\ wmutex = Abandoned THEN None ELSE wmutex

AskClose(p) ==
    /\ At(p, "open")
    /\ reading[p] = None /\ wmutex # p
    /\ Goto(p, "close")
    /\ UNCHANGED <<fileVars, regionVars, lockVars, excl, reading, writeVars, committed, misled, deaths>>

Close(p) ==
    /\ At(p, "close")
    /\ counted' = counted \ {p}
    /\ wmutex' = MutexWithout(p)
    /\ handles' = handles \ {p}
    /\ Goto(p, "unlock")
    /\ UNCHANGED <<fileVars, mti_magic, mti_txnid, xlock, slock, excl, reading,
                   mt_txnid, written, committed, misled, deaths>>

Released(p) ==
    /\ xlock' = IF xlock = p THEN None ELSE xlock
    /\ slock' = slock \ {p}

(* Mutant: only a shared lock is given back. *)
UnlockShared(p) ==
    /\ At(p, "unlock")
    /\ slock' = slock \ {p}
    /\ excl' = [excl EXCEPT ![p] = -1]
    /\ Goto(p, "closed")
    /\ UNCHANGED <<fileVars, regionVars, xlock, handles, reading, writeVars, committed, misled, deaths>>

Unlock(p) ==
    /\ At(p, "unlock")
    /\ Released(p)
    /\ excl' = [excl EXCEPT ![p] = -1]
    /\ Goto(p, "closed")
    /\ UNCHANGED <<fileVars, regionVars, handles, reading, writeVars, committed, misled, deaths>>

-----------------------------------------------------------------------------
(* The death of a process: Windows closes its handles one by one, in no    *)
(* order that the code could rely on.                                      *)

Die(p) ==
    /\ deaths < MaxDeaths /\ ~At(p, "closed") /\ ~At(p, "dying")
    /\ deaths' = deaths + 1
    /\ Goto(p, "dying")
    /\ reading' = [reading EXCEPT ![p] = None]
    /\ counted' = counted \ {p}
    /\ IF wmutex = p
       THEN wmutex' = Abandoned /\ mt_txnid' = 0 /\ written' = FALSE
       ELSE UNCHANGED writeVars
    /\ UNCHANGED <<fileVars, mti_magic, mti_txnid, lockVars, excl, committed, misled>>

HandlesClosed(p) ==
    /\ At(p, "dying") /\ p \in handles
    /\ wmutex' = MutexWithout(p)
    /\ handles' = handles \ {p}
    /\ UNCHANGED <<fileVars, regionVars, xlock, slock, openVars, reading,
                   mt_txnid, written, committed, misled, deaths>>

FileClosed(p) ==
    /\ At(p, "dying") /\ (xlock = p \/ p \in slock)
    /\ Released(p)
    /\ excl' = [excl EXCEPT ![p] = -1]
    /\ UNCHANGED <<fileVars, regionVars, handles, pc, reading, writeVars, committed, misled, deaths>>

Gone(p) ==
    /\ At(p, "dying")
    /\ p \notin handles /\ xlock # p /\ p \notin slock
    /\ Goto(p, "closed")
    /\ UNCHANGED <<fileVars, regionVars, lockVars, excl, reading, writeVars, committed, misled, deaths>>

-----------------------------------------------------------------------------
(* Transactions of a process that has the environment open. *)

(* The slot is claimed the first time: mti_numreaders covers it. *)
BeginRead(p) ==
    /\ At(p, "open")
    /\ reading[p] = None
    /\ reading' = [reading EXCEPT ![p] = mti_txnid]
    /\ counted' = counted \cup {p}
    /\ UNCHANGED <<fileVars, mti_magic, mti_txnid, lockVars, openVars, writeVars,
                   committed, misled, deaths>>

EndRead(p) ==
    /\ reading[p] # None
    /\ reading' = [reading EXCEPT ![p] = None]
    /\ UNCHANGED <<fileVars, regionVars, lockVars, openVars, writeVars, committed, misled, deaths>>

(* LOCK_MUTEX repairs mti_txnid when the last owner died: mdb_mutex_failed. *)
BeginWrite(p) ==
    /\ At(p, "open") /\ p \notin RDONLY
    /\ wmutex \in {None, Abandoned}
    /\ mti_txnid' = IF wmutex = Abandoned THEN Newest ELSE mti_txnid
    /\ mti_txnid' < MaxTxn
    /\ wmutex' = p
    /\ mt_txnid' = mti_txnid' + 1
    /\ UNCHANGED <<fileVars, mti_magic, counted, lockVars, openVars, reading,
                   written, committed, misled, deaths>>

WriteMeta(p) ==
    /\ wmutex = p /\ ~written
    /\ committed < MaxTxn
    /\ metas' = [metas EXCEPT ![mt_txnid % 2] = mt_txnid]
    /\ committed' = committed + 1
    /\ written' = TRUE
    /\ UNCHANGED <<file, regionVars, lockVars, openVars, reading, wmutex, mt_txnid, misled, deaths>>

EndWrite(p) ==
    /\ wmutex = p
    /\ mti_txnid' = IF written THEN mt_txnid ELSE mti_txnid
    /\ wmutex' = None /\ mt_txnid' = 0 /\ written' = FALSE
    /\ UNCHANGED <<fileVars, mti_magic, counted, lockVars, openVars, reading,
                   committed, misled, deaths>>

-----------------------------------------------------------------------------
Open(p) ==
    \/ TryExclusive(p) \/ InitRegion(p) \/ Join(p)
    \/ OpenData(p) \/ ReadHeader(p) \/ InitMeta(p) \/ MapFile(p)
    \/ ShareTxnid(p) \/ Downgrade(p) \/ Opened(p)

Ends(p) == Close(p) \/ Unlock(p) \/ HandlesClosed(p) \/ FileClosed(p) \/ Gone(p)

Transact(p) ==
    BeginRead(p) \/ EndRead(p) \/ BeginWrite(p) \/ WriteMeta(p) \/ EndWrite(p)

Next ==
    \E p \in Procs :
        \/ StartOpen(p) \/ Open(p) \/ WaitShared(p) \/ Fail(p)
        \/ AskClose(p) \/ Ends(p) \/ Die(p)
        \/ Transact(p)

(* A process inside a call goes on, and so does the closing of handles; a  *)
(* lock that is free again and again is granted.                           *)
Fairness ==
    \A p \in Procs : /\ WF_vars(Open(p)) /\ WF_vars(Ends(p))
                     /\ SF_vars(WaitShared(p))

Spec == Init /\ [][Next]_vars /\ Fairness

-----------------------------------------------------------------------------
(* Properties *)

(* Whoever opens, fails or dies at whatever step, no commit is undone: the *)
(* meta pages are initialised once, before any commit, and no two writers  *)
(* start from the same number - unless the handles of the dead have let    *)
(* somebody into a lock region that nobody keeps.                          *)
NothingLost ==
    /\ TypeOK
    /\ misled \/ IF file = "valid" THEN Newest = committed ELSE committed = 0

Env == INSTANCE SharedEnv WITH
    Unpinned <- None,
    last <- committed,
    published <- IF Inside = {} THEN committed ELSE mti_txnid,
    reading <- {p \in Procs : reading[p] # None},
    pinned <- [p \in Procs |-> IF p \in counted THEN reading[p] ELSE None],
    broken <- misled

(* To the processes inside, an opening is one harmless step: it never      *)
(* empties the table under a reader ("If we succeed, then nobody is using  *)
(* the lock region"), and who joins starts from the last commit - until    *)
(* somebody joins the dead.                                                *)
ImplementsSharedEnv == Env!Spec

(* Who opens the environment gets in or is told why not, whatever becomes  *)
(* of the process whose lock it waits for.                                 *)
OpenEnds ==
    \A p \in Procs : pc[p] \in Opening ~> pc[p] \in {"open", "closed"}
=============================================================================
