----------------------------- MODULE ReaderTable -----------------------------
(***************************************************************************)
(* The reader table of LMDB (src/libraries/lmdb-dll/mdb.c), in the lock    *)
(* region that all processes map: a slot per reading thread, claimed under *)
(* the reader mutex, given back without it, cleared for dead processes by  *)
(* mdb_reader_check, and scanned by the writer without any lock, one load  *)
(* at a time, to learn which snapshots are still in use.                   *)
(*                                                                         *)
(* MDBTxn takes from here that the scan is as good as an atomic one and    *)
(* that a thread keeps its slot.  A process is known by its pid, which the *)
(* system may give to a new process after its death.  Stores are seen by   *)
(* all in program order.  mdb_reader_check looks for a process; whether    *)
(* one that has closed the environment counts as dead is of no account, as *)
(* it has left no slot of its own.                                         *)
(***************************************************************************)
EXTENDS Integers, FiniteSets

CONSTANTS
    Procs,          \* the pids
    Threads,        \* reading threads; with MDB_NOTLS, read transactions
    ProcOf,         \* the process of each
    Writers,        \* the processes that write
    Checkers,       \* and those that call mdb_reader_check
    None,           \* mr_pid = 0; no slot; no owner
    Abandoned,      \* rmutex: its owner died
    me_maxreaders,  \* the slots of the table
    NOTLS,          \* the processes that open it with MDB_NOTLS
    MaxTxn,         \* bound: commits
    MaxDeaths       \* bound: deaths of processes

ASSUME NamesAssumption ==
    /\ {None, Abandoned} \cap (Procs \cup Threads) = {} /\ None # Abandoned
    /\ Procs \cap Threads = {} /\ None \notin Nat
ASSUME ThreadsAssumption ==
    ProcOf \in [Threads -> Procs] /\ Writers \cup Checkers \cup NOTLS \subseteq Procs
ASSUME SizesAssumption ==
    me_maxreaders \in Nat \ {0} /\ MaxTxn \in Nat /\ MaxDeaths \in Nat

VARIABLES
    mti_txnid,          \* lock region: the newest committed transaction,
    mti_numreaders,     \*   the slots ever used since it was initialised,
    mr_pid,             \*   per slot: the process it belongs to,
    mr_txnid,           \*   the snapshot it protects,
    rmutex,             \*   and the reader mutex
    up,                 \* per process: it has the environment open
    me_close_readers,   \* per process: the slots its close looks at
    pc,                 \* per thread: where it stands
    reader,             \* per thread: its slot
    i,                  \* per thread: the slot it looks at
    mt_txnid,           \* per thread: the number it loaded, then read
    writer,             \* the process that holds the writer mutex
    wi,                 \* its scan: the slots still to be looked at,
    wpid,               \*   the slot whose mr_pid it found set,
    oldest,             \*   the result so far
    me_pgoldest,        \* the newest result of a scan: nobody's is newer
    check,              \* per process: where its mdb_reader_check stands
    deaths,             \* so far
    left                \* ghost: the slots that dead processes left behind

tableVars == <<mr_pid, mr_txnid>>
procVars == <<up, me_close_readers, deaths>>
threadVars == <<pc, reader, i, mt_txnid>>
writeVars == <<mti_txnid, writer, wi, wpid, oldest, me_pgoldest>>
vars == <<tableVars, mti_numreaders, rmutex, procVars, threadVars, writeVars,
          check, left>>

Slots == 0..(me_maxreaders - 1)
Txnids == 0..MaxTxn
IDLE == MaxTxn + 2      \* (txnid_t)-1, more than any other
NoScan == -1

NotChecking == [at |-> "idle", i |-> 0, rdrs |-> 0, pid |-> None, pids |-> {}]
Checks == [at : {"idle", "look", "lock", "recheck", "clear"},
           i : 0..me_maxreaders, rdrs : 0..me_maxreaders,
           pid : Procs \cup {None}, pids : SUBSET Procs]

TableTypeOK ==
    /\ mti_numreaders \in 0..me_maxreaders
    /\ mr_pid \in [Slots -> Procs \cup {None}]
    /\ mr_txnid \in [Slots -> Txnids \cup {IDLE}]
    /\ rmutex \in Threads \cup Procs \cup {None, Abandoned}
    /\ left \subseteq Slots

ProcTypeOK ==
    /\ up \in [Procs -> BOOLEAN]
    /\ me_close_readers \in [Procs -> 0..me_maxreaders]
    /\ check \in [Procs -> Checks]
    /\ deaths \in 0..MaxDeaths

ThreadTypeOK ==
    /\ pc \in [Threads -> {"idle", "seek", "publish", "take", "load",
                           "store", "check", "open", "free"}]
    /\ reader \in [Threads -> Slots \cup {None}]
    /\ i \in [Threads -> 0..me_maxreaders]
    /\ mt_txnid \in [Threads -> Txnids]

WriteTypeOK ==
    /\ mti_txnid \in Txnids
    /\ writer \in Procs \cup {None}
    /\ wi \in {NoScan} \cup 0..me_maxreaders
    /\ wpid \in Slots \cup {None}
    /\ oldest \in Txnids
    /\ me_pgoldest \in Txnids

TypeOK == TableTypeOK /\ ProcTypeOK /\ ThreadTypeOK /\ WriteTypeOK

(* Nobody has opened the environment yet. *)
Init ==
    /\ mti_txnid = 0
    /\ mti_numreaders = 0
    /\ mr_pid = [s \in Slots |-> None]
    /\ mr_txnid = [s \in Slots |-> 0]
    /\ rmutex = None
    /\ up = [p \in Procs |-> FALSE]
    /\ me_close_readers = [p \in Procs |-> 0]
    /\ pc = [t \in Threads |-> "idle"]
    /\ reader = [t \in Threads |-> None]
    /\ i = [t \in Threads |-> 0]
    /\ mt_txnid = [t \in Threads |-> 0]
    /\ writer = None
    /\ wi = NoScan
    /\ wpid = None
    /\ oldest = 0
    /\ me_pgoldest = 0
    /\ check = [p \in Procs |-> NotChecking]
    /\ deaths = 0
    /\ left = {}

-----------------------------------------------------------------------------
(* mdb_txn_renew0: a thread without a slot claims one. *)

Goto(t, from, to) ==
    /\ up[ProcOf[t]]
    /\ pc[t] = from
    /\ pc' = [pc EXCEPT ![t] = to]

ThreadOnly == UNCHANGED <<procVars, writeVars, check>>

Dead(s, p) == mr_pid[s] \notin {None, p} /\ ~up[mr_pid[s]]

(* Whoever finds the mutex abandoned clears the slots of the dead first:   *)
(* mdb_mutex_failed, mdb_reader_check0 with rlocked.  Nobody can claim a   *)
(* slot meanwhile, so this is one step.                                    *)
Lock(owner, p) ==
    LET cleared == {s \in 0..(mti_numreaders - 1) : rmutex = Abandoned /\ Dead(s, p)} IN
    /\ rmutex \in {None, Abandoned}
    /\ rmutex' = owner
    /\ mr_pid' = [s \in Slots |-> IF s \in cleared THEN None ELSE mr_pid[s]]
    /\ left' = left \ cleared

(* Mutant: the mutex is not waited for. *)
LockRmutexAnyway(t) ==
    /\ reader[t] = None
    /\ Goto(t, "idle", "seek")
    /\ rmutex' = t
    /\ i' = [i EXCEPT ![t] = 0]
    /\ UNCHANGED <<mr_pid, left>>
    /\ ThreadOnly
    /\ UNCHANGED <<mr_txnid, mti_numreaders, reader, mt_txnid>>

LockRmutex(t) ==
    /\ reader[t] = None
    /\ Goto(t, "idle", "seek")
    /\ Lock(t, ProcOf[t])
    /\ i' = [i EXCEPT ![t] = 0]
    /\ ThreadOnly
    /\ UNCHANGED <<mr_txnid, mti_numreaders, reader, mt_txnid>>

SeekSlot(t) ==
    /\ i[t] < mti_numreaders /\ mr_pid[i[t]] # None
    /\ Goto(t, "seek", "seek")
    /\ i' = [i EXCEPT ![t] = @ + 1]
    /\ ThreadOnly
    /\ UNCHANGED <<tableVars, mti_numreaders, rmutex, reader, mt_txnid, left>>

(* MDB_READERS_FULL *)
ReadersFull(t) ==
    /\ i[t] = me_maxreaders
    /\ Goto(t, "seek", "idle")
    /\ rmutex' = None
    /\ i' = [i EXCEPT ![t] = 0]
    /\ ThreadOnly
    /\ UNCHANGED <<tableVars, mti_numreaders, reader, mt_txnid, left>>

(* A slot the region held before it was initialised anew may name a pid:   *)
(* it is reset before anybody can see it, and taken last.                  *)
FoundSlot(t) ==
    /\ i[t] < me_maxreaders
    /\ i[t] < mti_numreaders => mr_pid[i[t]] = None
    /\ Goto(t, "seek", "publish")
    /\ mr_pid' = [mr_pid EXCEPT ![i[t]] = None]
    /\ mr_txnid' = [mr_txnid EXCEPT ![i[t]] = IDLE]
    /\ left' = left \ {i[t]}
    /\ ThreadOnly
    /\ UNCHANGED <<mti_numreaders, rmutex, reader, i, mt_txnid>>

(* Mutant: the close is told of slots only when the table grows. *)
CloseReadersIfGrown(t, nr) ==
    IF i[t] = mti_numreaders THEN nr ELSE me_close_readers[ProcOf[t]]

CloseReaders(t, nr) == nr

PublishSlot(t) ==
    LET nr == IF i[t] = mti_numreaders THEN mti_numreaders + 1 ELSE mti_numreaders IN
    /\ Goto(t, "publish", "take")
    /\ mti_numreaders' = nr
    /\ me_close_readers' = [me_close_readers EXCEPT ![ProcOf[t]] = CloseReaders(t, nr)]
    /\ UNCHANGED <<tableVars, rmutex, up, deaths, reader, i, mt_txnid,
                   writeVars, check, left>>

(* Mutant: the thread is noted in the place of its process. *)
OwnerIsThread(t) == t

Owner(t) == ProcOf[t]

TakeSlot(t) ==
    /\ Goto(t, "take", "load")
    /\ mr_pid' = [mr_pid EXCEPT ![i[t]] = Owner(t)]
    /\ reader' = [reader EXCEPT ![t] = i[t]]
    /\ i' = [i EXCEPT ![t] = 0]
    /\ rmutex' = None
    /\ ThreadOnly
    /\ UNCHANGED <<mr_txnid, mti_numreaders, mt_txnid, left>>

-----------------------------------------------------------------------------
(* The snapshot is published in the slot, until it is the newest. *)

(* A thread that has a slot starts here, unless the slot is not as it left *)
(* it (MDB_BAD_RSLOT, see SlotsOwned).                                     *)
Renew(t) ==
    /\ reader[t] # None
    /\ mr_pid[reader[t]] = ProcOf[t] /\ mr_txnid[reader[t]] = IDLE
    /\ Goto(t, "idle", "load")
    /\ ThreadOnly
    /\ UNCHANGED <<tableVars, mti_numreaders, rmutex, reader, i, mt_txnid, left>>

LoadTxnid(t) ==
    /\ Goto(t, "load", "store")
    /\ mt_txnid' = [mt_txnid EXCEPT ![t] = mti_txnid]
    /\ ThreadOnly
    /\ UNCHANGED <<tableVars, mti_numreaders, rmutex, reader, i, left>>

StoreTxnid(t) ==
    /\ Goto(t, "store", "check")
    /\ mr_txnid' = [mr_txnid EXCEPT ![reader[t]] = mt_txnid[t]]
    /\ ThreadOnly
    /\ UNCHANGED <<mr_pid, mti_numreaders, rmutex, reader, i, mt_txnid, left>>

(* Mutant: the number is not looked at again. *)
Settled(t) == TRUE

StillNewest(t) == mr_txnid[reader[t]] = mti_txnid

CheckTxnid(t) ==
    /\ Goto(t, "check", IF StillNewest(t) THEN "open" ELSE "load")
    /\ ThreadOnly
    /\ UNCHANGED <<tableVars, mti_numreaders, rmutex, reader, i, mt_txnid, left>>

(* mdb_txn_end of a read transaction: with MDB_NOTLS a reset one keeps its *)
(* slot.                                                                   *)
EndRead(t) ==
    /\ Goto(t, "open", "idle") \/ (ProcOf[t] \in NOTLS /\ Goto(t, "open", "free"))
    /\ mr_txnid' = [mr_txnid EXCEPT ![reader[t]] = IDLE]
    /\ mt_txnid' = [mt_txnid EXCEPT ![t] = 0]
    /\ ThreadOnly
    /\ UNCHANGED <<mr_pid, mti_numreaders, rmutex, reader, i, left>>

(* MDB_END_SLOT, at once or when a reset transaction is aborted;           *)
(* mdb_env_reader_dest when the thread exits.                              *)
FreeSlot(t) ==
    /\ Goto(t, "free", "idle") \/ (reader[t] # None /\ Goto(t, "idle", "idle"))
    /\ mr_pid' = [mr_pid EXCEPT ![reader[t]] = None]
    /\ reader' = [reader EXCEPT ![t] = None]
    /\ ThreadOnly
    /\ UNCHANGED <<mr_txnid, mti_numreaders, rmutex, i, mt_txnid, left>>

-----------------------------------------------------------------------------
(* The writer. *)

WriterOnly == UNCHANGED <<tableVars, mti_numreaders, rmutex, procVars,
                          threadVars, check, left>>

BeginWrite(p) ==
    /\ p \in Writers /\ up[p] /\ writer = None
    /\ mti_txnid < MaxTxn
    /\ writer' = p
    /\ WriterOnly
    /\ UNCHANGED <<mti_txnid, wi, wpid, oldest, me_pgoldest>>

(* mdb_find_oldest: oldest starts as mt_txnid - 1, i as mti_numreaders. *)
StartScan ==
    /\ writer # None /\ wi = NoScan
    /\ wi' = mti_numreaders
    /\ oldest' = mti_txnid
    /\ WriterOnly
    /\ UNCHANGED <<mti_txnid, writer, wpid, me_pgoldest>>

LookAtPid ==
    /\ wi > 0 /\ wpid = None
    /\ wi' = wi - 1
    /\ wpid' = IF mr_pid[wi - 1] # None THEN wi - 1 ELSE None
    /\ WriterOnly
    /\ UNCHANGED <<mti_txnid, writer, oldest, me_pgoldest>>

LookAtTxnid ==
    /\ wpid # None
    /\ oldest' = IF mr_txnid[wpid] < oldest THEN mr_txnid[wpid] ELSE oldest
    /\ wpid' = None
    /\ WriterOnly
    /\ UNCHANGED <<mti_txnid, writer, wi, me_pgoldest>>

(* Transactions older than the result give their pages back. *)
EndScan ==
    /\ wi = 0 /\ wpid = None
    /\ me_pgoldest' = IF oldest > me_pgoldest THEN oldest ELSE me_pgoldest
    /\ wi' = NoScan
    /\ oldest' = 0
    /\ WriterOnly
    /\ UNCHANGED <<mti_txnid, writer, wpid>>

Commit ==
    /\ writer # None /\ wi = NoScan
    /\ mti_txnid' = mti_txnid + 1
    /\ writer' = None
    /\ WriterOnly
    /\ UNCHANGED <<wi, wpid, oldest, me_pgoldest>>

-----------------------------------------------------------------------------
(* mdb_reader_check0 *)

CheckOnly == UNCHANGED <<mr_txnid, mti_numreaders, procVars,
                         threadVars, writeVars>>

StartCheck(p) ==
    /\ p \in Checkers /\ up[p] /\ check[p] = NotChecking
    /\ check' = [check EXCEPT ![p].at = "look", ![p].rdrs = mti_numreaders]
    /\ CheckOnly
    /\ UNCHANGED <<mr_pid, rmutex, left>>

LookForDead(p) ==
    LET c == check[p]
        new == mr_pid[c.i] \notin c.pids \cup {None, p} IN
    /\ c.at = "look" /\ c.i < c.rdrs
    /\ check' = [check EXCEPT ![p] =
           IF ~new THEN [c EXCEPT !.i = @ + 1]
           ELSE IF up[mr_pid[c.i]] THEN [c EXCEPT !.i = @ + 1, !.pids = @ \cup {mr_pid[c.i]}]
           ELSE [c EXCEPT !.at = "lock", !.pid = mr_pid[c.i], !.pids = @ \cup {mr_pid[c.i]}]]
    /\ CheckOnly
    /\ UNCHANGED <<mr_pid, rmutex, left>>

(* The recovery of an abandoned mutex has checked all readers. *)
LockForCheck(p) ==
    /\ check[p].at = "lock"
    /\ Lock(IF rmutex = Abandoned THEN None ELSE p, p)
    /\ check' = [check EXCEPT ![p] =
           IF rmutex = Abandoned THEN NotChecking ELSE [@ EXCEPT !.at = "recheck"]]
    /\ CheckOnly

(* Mutant: a new process with that pid is not looked for. *)
ReusedIgnored(p) == FALSE

(* "Recheck, a new process may have reused pid" *)
Reused(p) == up[check[p].pid]

NextSlot(c) == [c EXCEPT !.at = "look", !.i = @ + 1, !.pid = None]

Recheck(p) ==
    /\ check[p].at = "recheck"
    /\ IF Reused(p)
       THEN check' = [check EXCEPT ![p] = NextSlot(@)] /\ rmutex' = None
       ELSE check' = [check EXCEPT ![p].at = "clear"] /\ UNCHANGED rmutex
    /\ CheckOnly
    /\ UNCHANGED <<mr_pid, left>>

ClearDead(p) ==
    LET c == check[p]
        cleared == {s \in c.i..(c.rdrs - 1) : mr_pid[s] = c.pid} IN
    /\ c.at = "clear"
    /\ mr_pid' = [s \in Slots |-> IF s \in cleared THEN None ELSE mr_pid[s]]
    /\ left' = left \ cleared
    /\ check' = [check EXCEPT ![p] = NextSlot(@)]
    /\ rmutex' = None
    /\ CheckOnly

EndCheck(p) ==
    /\ check[p].at = "look" /\ check[p].i >= check[p].rdrs
    /\ check' = [check EXCEPT ![p] = NotChecking]
    /\ CheckOnly
    /\ UNCHANGED <<mr_pid, rmutex, left>>

-----------------------------------------------------------------------------
(* Processes come and go. *)

ThreadsOf(p) == {t \in Threads : ProcOf[t] = p}
Holds(p) == rmutex = p \/ rmutex \in ThreadsOf(p)

Forget(p) ==
    /\ up' = [up EXCEPT ![p] = FALSE]
    /\ me_close_readers' = [me_close_readers EXCEPT ![p] = 0]
    /\ pc' = [t \in Threads |-> IF ProcOf[t] = p THEN "idle" ELSE pc[t]]
    /\ reader' = [t \in Threads |-> IF ProcOf[t] = p THEN None ELSE reader[t]]
    /\ i' = [t \in Threads |-> IF ProcOf[t] = p THEN 0 ELSE i[t]]
    /\ mt_txnid' = [t \in Threads |-> IF ProcOf[t] = p THEN 0 ELSE mt_txnid[t]]

(* Who opens the environment alone initialises the lock region: the table  *)
(* is empty, whatever its slots hold.  A mutex dies with its last handle.  *)
Open(p) ==
    LET alone == \A q \in Procs : ~up[q] IN
    /\ ~up[p]
    /\ up' = [up EXCEPT ![p] = TRUE]
    /\ mti_numreaders' = IF alone THEN 0 ELSE mti_numreaders
    /\ rmutex' = IF alone THEN None ELSE rmutex
    /\ UNCHANGED <<tableVars, me_close_readers, deaths, threadVars, writeVars,
                   check, left>>

(* mdb_env_close0, when the process has no transaction open. *)
Close(p) ==
    LET cleared == {s \in 0..(me_close_readers[p] - 1) : mr_pid[s] = p} IN
    /\ up[p]
    /\ \A t \in ThreadsOf(p) : pc[t] = "idle"
    /\ check[p] = NotChecking /\ writer # p
    /\ Forget(p)
    /\ mr_pid' = [s \in Slots |-> IF s \in cleared THEN None ELSE mr_pid[s]]
    /\ left' = left \ cleared
    /\ UNCHANGED <<mr_txnid, mti_numreaders, rmutex, deaths, writeVars, check>>

Die(p) ==
    /\ up[p] /\ deaths < MaxDeaths
    /\ deaths' = deaths + 1
    /\ Forget(p)
    /\ rmutex' = IF Holds(p) THEN Abandoned ELSE rmutex
    /\ check' = [check EXCEPT ![p] = NotChecking]
    /\ left' = left \cup {s \in Slots : mr_pid[s] = p}
    /\ IF writer = p
       THEN writer' = None /\ wi' = NoScan /\ wpid' = None /\ oldest' = 0
       ELSE UNCHANGED <<writer, wi, wpid, oldest>>
    /\ UNCHANGED <<tableVars, mti_numreaders, mti_txnid, me_pgoldest>>

Claim(t) ==
    \/ LockRmutex(t) \/ SeekSlot(t) \/ ReadersFull(t) \/ FoundSlot(t)
    \/ PublishSlot(t) \/ TakeSlot(t)

Read(t) ==
    \/ Renew(t) \/ LoadTxnid(t) \/ StoreTxnid(t) \/ CheckTxnid(t)
    \/ EndRead(t) \/ FreeSlot(t)

Scan == StartScan \/ LookAtPid \/ LookAtTxnid \/ EndScan

ReaderCheck(p) ==
    \/ StartCheck(p) \/ LookForDead(p) \/ LockForCheck(p) \/ Recheck(p)
    \/ ClearDead(p) \/ EndCheck(p)

Next ==
    \/ \E t \in Threads : Claim(t) \/ Read(t)
    \/ \E p \in Procs : BeginWrite(p) \/ ReaderCheck(p) \/ Open(p) \/ Close(p) \/ Die(p)
    \/ Scan \/ Commit

Spec == Init /\ [][Next]_vars

-----------------------------------------------------------------------------
(* Properties *)

(* No scan, however threads claim, use and leave slots between its loads,  *)
(* lets the writer reuse pages of a snapshot some thread reads.            *)
SnapshotsProtected ==
    \A t \in Threads : pc[t] = "open" => me_pgoldest <= mt_txnid[t]

(* A thread's slot is its own until it gives it back, so that its next     *)
(* transaction never meets MDB_BAD_RSLOT.                                  *)
SlotsOwned ==
    \A t \in Threads :
        reader[t] # None =>
            /\ mr_pid[reader[t]] = ProcOf[t]
            /\ pc[t] = "idle" => mr_txnid[reader[t]] = IDLE
            /\ \A u \in Threads : reader[u] = reader[t] => u = t

(* No slot is lost: one that is taken is some thread's, or was left by a   *)
(* process that died.  ("MDB_READERS_FULL" otherwise, for good.)           *)
SlotsAccounted ==
    \A s \in Slots :
        mr_pid[s] # None => s \in left \/ \E t \in Threads : reader[t] = s
=============================================================================
