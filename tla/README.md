# A verification of LMDBWindows

LMDBWindows is LMDB, the memory-mapped key-value store, on Windows, with what was
built on top of it: a C++ and a C# binding, services that serve a database over
HTTP, and a small cluster of a master and its workers.  This directory holds
TLA+ models of the parts that are hard to get right, the TLC configurations
that check them on small instances, and proofs for TLAPS.  `PROJECT.json` lists
every run with its properties, the source lines behind each definition, the
hazards, and the disagreements between code and documentation that were found.

    tlc -config MCMDBTxnPages.cfg MCMDBTxn        # a run
    tlapm SWMRGuardProofs.tla                     # a proof

Paths below are relative to `src/`.

## 1. The system

| Component | Where | State | Operations |
|---|---|---|---|
| LMDB engine | `libraries/lmdb-dll/mdb.c`, `midl.c` (the same code is in `libraries/liblmdb`) | data file: two meta pages, B-tree pages, freeDB; lock region: `mti_txnid`, reader table, writer mutex; per environment: `me_pghead`, `me_pgoldest`, dbi slots; per transaction: dirty, free and loose lists, cursors | `mdb_env_*`, `mdb_txn_*`, `mdb_cursor_*`, `mdb_dbi_*`, `mdb_put/get/del/drop`, `mdb_reader_check` |
| CSWMRGuard | `MySharedStuff/CSWMRGuard.cpp` | counters `m_nActive`, `m_nWaitingReaders`, `m_nWaitingWriters`, a critical section, two semaphores | `WaitToRead`, `WaitToWrite`, `Done` |
| Master | `MyServer/MyServer.cpp` | `_nodes`, the list of workers, under `g_Guard` | register-node, get-node, release-node, show-nodes, `PingThread` |
| Worker | `MyServer/WorkerNodeClient.cpp` | `_dbName` | registration, ping, set-node, release-node, get-data, set-data |
| LMDBNet | `LMDBNet/*.cs` | object graph environment / transaction / cursor / database, tied by events | begin, commit, abort, reset, renew, dispose |
| CLMDBWrapper | `LMDBWrapper/CWrapper.cpp`, `Include/CWrapper.h` | one environment, one transaction pointer | `Init`, `Set`, `Get` |
| LMDBService | `LMDBService/TheServer.cpp`, `CServiceModule.cpp` | `_mapWrapper`, service status | get-data, set-data (and base64), start, stop |
| LMDBServiceNet | `LMDBServiceNet/WebServer.cs` | an HttpListener; an environment per request | get-data, set-data |
| Clients, consoles, helpers | `MyClient`, `HttpLMDB`, `LMDBService_ConsoleApp`, ... | none | one request after the other |

`Include/cpprest`, `Include/pplx`, `LMDBWindows/packages`, `Lib` are third-party.
`Lightning.NET` is the project LMDBNet was derived from.

How they interact.  Every store goes through the engine: the C++ programs call
`lmdb-dll` through CLMDBWrapper (opened with the value 0x40000, which is
`MDB_NOMETASYNC`), the C# ones through LMDBNet and P/Invoke.  Processes that open
the same directory share the data file by memory map and the lock region by a
second map.  The master and its workers talk HTTP in both directions: a worker
registers with the master, the master pings and instructs its workers.  Inside
the master, HTTP handler threads and the ping thread share the node list
through CSWMRGuard.

What is hard in each, and what makes it correct:

- *Engine, across processes.*  Readers take no lock: they publish a transaction
  number, copy a meta page that may be rewritten under them, and rely on the
  writer not to reuse pages.  Processes open, close and die between any two
  steps; writes reach the disk in any order until they are synced; a write may
  fail.  Correct: a snapshot never changes, pages are never lost or used twice, a
  restart finds a whole snapshot, an acknowledged commit survives, and whoever
  opens the files harms nobody inside.
- *Engine, within a transaction.*  A change of the tree moves pages under every
  open cursor; a nested transaction shares lists, pages and cursors with its
  parent and may end either way; a large one writes pages before it commits.
  Correct: every key is found where it is looked for, cursors stay on their
  entries, every page is in one list, a child that aborts was never there.
- *Copy of an environment.*  Two threads share two buffers and one event, or one
  thread races with writers.  Correct: a copy that is reported a success is a
  snapshot that opens, and the call returns.
- *CSWMRGuard.*  The semaphores are released outside of the critical section.
  Correct: exclusion, no lost or extra wakeup, nobody asleep on a free resource,
  the promised priority of writers.
- *Master and workers.*  The guard is taken twice for one registration, and is
  held across calls to other processes that may be slow, dead or throw.
  Correct: the list and the workers agree, requests are answered, dead workers
  leave.
- *LMDBNet.*  One call runs a cascade of events over an object graph whose
  native halves die at different times.  Correct: no native handle is used
  after its end, the state of an object tells the truth, nothing stays open.

## 2. The modules

| Module | Models | Checked by | Proved in |
|---|---|---|---|
| `RWLock` | the lock CSWMRGuard promises | as a refinement target | |
| `SWMRGuard` | `CSWMRGuard.cpp` | `MCSWMRGuard` | `SWMRGuardProofs` |
| `SnapshotStore` | what the engine promises: a history of images | as a refinement target | |
| `MDBTxn` | transactions, commit and recovery of `mdb.c` | `MCMDBTxn` | `MDBTxnProofs` |
| `ReaderTable` | the reader table of `mdb.c`, slot by slot | `MCReaderTable` | `ReaderTableProofs` |
| `SharedEnv` | the lock region as those inside may rely on it | as a refinement target | |
| `EnvOpen` | `mdb_env_open`, `mdb_env_close` of several processes | `MCEnvOpen` | `EnvOpenProofs` |
| `OrderedMap` | what a database and its cursors promise | as a refinement target | |
| `BTree` | the tree of a database and the cursors on it | `MCBTree` | |
| `NestedStore` | what nested transactions promise | as a refinement target | |
| `NestedTxn` | nested transactions, spilling, shadowed cursors | `MCNestedTxn` | `NestedTxnProofs` |
| `CompactCopy` | the two threads of a compacting copy | with `EnvCopy` | `EnvCopyProofs` |
| `AsIsCopy` | the copy as it is, beside a writer | with `EnvCopy` | `EnvCopyProofs` |
| `EnvCopy` | `mdb_env_copy2`, which composes the two | `MCEnvCopy` | `EnvCopyProofs` |
| `MasterRegistry` | `MyServer.cpp`, `WorkerNodeClient.cpp` | `MCMasterRegistry` | `MasterRegistryProofs` |
| `LMDBNet` | `LMDBTransaction.cs`, `LMDBCursor.cs`, `LMDBEnvironment.cs` | `MCLMDBNet` | `LMDBNetProofs` |

Variables and actions have the names of the source.  An operator whose comment
begins with "Mutant" is not part of the model: it is a plausible mistake in the
operator after it, which TLC must find when it takes that operator's place.

### SWMRGuard

`active`, `waitingReaders`, `waitingWriters` are the members `m_nActive`,
`m_nWaitingReaders`, `m_nWaitingWriters`; `semReaders`, `semWriters` the counts
of the semaphores; `lCount` the local variable of `Done`.  The critical section
makes `EnterRead`, `QueueRead`, `EnterWrite`, `QueueWrite` and `Done` one step
each.  What happens outside of it is a step of its own: `WakeRead` and
`WakeWrite` (the end of `WaitForSingleObject`), `ReleaseReaders` and
`ReleaseWriter` (the `ReleaseSemaphore` after `LeaveCriticalSection`).  All
threads may read, those in `Writers` may also write.

*Fairness.*  A thread inside the guard calls `Done` and finishes it (weak
fairness).  A thread blocked on a semaphore that is released again and again is
woken (strong fairness): waiters of a Windows semaphore are queued.  No thread
has to ask for the resource.

### MDBTxn

Each process of `Procs` has one reading and one writing thread.

| In the model | In `mdb.c` |
|---|---|
| `file`, `metas` | the memory map, as every process sees it |
| `disk`, `diskMetas` | what survives the machine; a write moves there at a sync, or, any part of it, when the machine dies |
| `mti_txnid`, `mr_txnid`, `wmutex` | the lock region |
| `stale` | what the slots of dead processes still hold, until `mdb_reader_check0` |
| `rpc`, `rlocal`, `snap`, `rnext` | a reader inside `mdb_txn_renew0`, and its transaction |
| `wpc` and `mt_*`, `me_pghead`, `me_pglast`, `dirty_list` | the write transaction |
| `metab` | the numbers `mdb_env_write_meta` keeps to write back when the write of the meta page fails |
| `image`, `log`, `acked`, `doubt`, the pairs in `file` | ghosts: contents, history, acknowledged commits, whether the write of a meta page has failed and anybody has written since |

A B-tree is abstracted to the set of its pages: `Nodes` are the logical pages of
the main tree, `FreeDB` is that of the freeDB.  A page holds a pair <<who wrote
it, which node>>, so that overwriting a page somebody still needs shows.  Writing
a node touches the pages on the way to it (`mdb_page_touch`), as every operation
on the tree does.  A reader is six steps (load, publish, check, copy the trees,
copy the last page, end), so a writer can overtake it between any two.
`mdb_page_alloc` is one step: the values that `mdb_find_oldest` reads only grow
and a reader that publishes meanwhile publishes at least `mt_txnid - 1`, so the
time of each slot's read does not change what may be reclaimed.  The commit is a
step per call that another process, a crash or a failure can see:
`SaveTouches` ... `SaveReturns` (the loop of `mdb_freelist_save`), `FlushPage`,
`Sync`, `WriteMeta`, `SyncMeta`, `PublishTxnid`, `Unlock`.  A write of the meta page
that fails (`WriteMetaFails`) may have reached neither the map nor the disk, the
map, or both; `RollBack` is a step of its own, which writes the old numbers into
the map or, for nobody looks at its result, does not, and never syncs.  `Crash`
kills a process anywhere, between these two steps too, `SystemCrash` the machine.

Assumed: the write of a meta page is atomic; stores become visible to other
processors in program order, the store to the slot before the load that checks
it included (the code has no fence there); each process owns a reader slot
already, which `ReaderTable` justifies.

### ReaderTable

The same lock region, without the trees: `mti_txnid`, `mti_numreaders`, `mr_pid`
and `mr_txnid` of each slot, `rmutex`.  `pc`, `reader`, `i`, `mt_txnid` are a thread
inside `mdb_txn_renew0`, its slot, its loop and its number; `wi`, `wpid`, `oldest` the
scan of `mdb_find_oldest`, a step per load; `me_pgoldest` the newest result of any
scan, so that what holds of it holds of each environment's; `check` a process
inside `mdb_reader_check0`.  `left` is a ghost: the slots dead processes left.

`LockRmutex`, `SeekSlot`, `FoundSlot`, `PublishSlot` and `TakeSlot` claim a slot,
split where others look: readers, the scan and `mdb_env_close` take no mutex.
`LookForDead`, `LockForCheck`, `Recheck` and `ClearDead` are a check; between the
first two the pid may be given to a new process.  `Die` leaves slots and, held,
the mutex, which the next owner repairs (`Lock`).  `Open` empties the table for
whoever is alone, and leaves the contents of its slots.  A process is in `NOTLS` when
its slots belong to transactions and are given back when those end.

### EnvOpen

`xlock` and `slock` are byte 0 of the lock file, held exclusively or shared;
`handles` the processes with a handle of the named mutexes, which Windows
destroys with the last; `excl` and `pc` a call of `mdb_env_open`, a step per
access to what is shared: `TryExclusive` and `WaitShared` (`mdb_env_excl_lock`),
`InitRegion` and `Join` (the two branches of `mdb_env_setup_locks`), `OpenData`,
`ReadHeader`, `InitMeta`, `MapFile` (`mdb_env_open2`), `ShareTxnid` and `Downgrade`
(`mdb_env_share_locks`).  `Fail` is the label `leave` with an error; `Close` and
`Unlock` are `mdb_env_close0`.  A process that dies loses its handles one by one.
Transactions are there as far as they meet an opening; `MDBTxn` and
`ReaderTable` have the rest and take an opening to be one step, which
`ImplementsSharedEnv` justifies: to those inside, an opening changes nothing.

Windows closes the handles of a process that dies in no order the code could rely
on.  So the mutexes may outlive the lock, and who joins then takes them for the
sign that somebody is inside.  The ghost `misled` says that this has happened;
`NothingLost` and `SharedEnv` (its `broken`) promise nothing from then on, and
section 3 shows what goes wrong.

*Fairness.*  A process inside the call goes on, and the closing of handles does
(weak); a lock that is free again and again is granted (strong).

### BTree

`db` holds the pages (a leaf's keys and values, a branch page's separators and
children) and the `MDB_db` record; `cur` a stack of pages and indices per cursor
with the flags `C_INITIALIZED`, `C_EOF` and `C_DEL`.  One action is one call; inside,
operators named after the functions of `mdb.c` work on a record with the pages,
the cursors (temporary ones too) and the list `mt_cursors`, in the order of the
code: `PageSplit` with its recursion into the parent, `NodeMove`, `PageMerge`,
`Rebalance`, `CursorDel0`, and the loop of each over the other cursors
(`SplitFix`, `MoveFix`, `MergeFix`, `DelFix`, `PastEndFix`, `AddFix`).

Abstracted: keys are numbers, sizes small, pages hold two to four nodes; page
numbers are dealt out again at the end of a call, so that trees that differ in
names only are one state; writability of pages is `MDBTxn`'s and `NestedTxn`'s.
`mdb_put` and `mdb_del` use a tracked cursor of their own, so one user's cursor
meets every loop with another cursor at work.  The `VIEW` of `MCBTree` hides only
the label of the last call.

### NestedTxn

`txns` is the stack of open transactions; of each the dirty list with the pages
themselves, `mt_spill_pgs`, `mt_free_pgs`, `mt_loose_pgs`, `mt_dirty_room`,
`mt_next_pgno`, and `me_pgstate` as it was at its begin; `pghead`, `pglast` are what
all share; `file` is the map, into which spilled pages go; `cur` a cursor with
what `mc_backup` saves; `pkeep` the dirty pages on which `P_KEEP` has stayed:
`mdb_page_spill` marks the pages of the cursors, those of ancestors too (`Marked`),
takes the marks off again when the others are written, and leaves them when that
fails (`SpillFails`).  What bears one is neither spilled nor written by
`mdb_page_flush`.  `NestedStore` knows of it only that a failed operation has cut pages
off (`cutoff`).  One action is one call, or one level of a commit or abort
that runs through several (`ending`).  `sees` is a ghost: what each level reads.

Abstracted: the tree is a root with a leaf per node, of which one has a page of
overflow data; lists are sets where their order does not matter, and a deleted
entry of the spill list is removed from it; at least two leaves stay (the
collapse of the root is `BTree`'s); a split leaves the cursors on the old leaf (so
is that); the outermost commit is one step (`MDBTxn` has its steps); a put writes
a value that differs from the old.

### EnvCopy, CompactCopy, AsIsCopy

`CompactCopy`: `walk` is the stack of `mdb_env_cwalk`, `buf`, `over` and `hand` are
`mc_wbuf`, `mc_over`, `mc_toggle`, `new` is `mc_new`, `error` is `mc_error`, which no lock
protects; `mutex` and `event` are what `pthread_cond_signal` and `pthread_cond_wait`
become on Windows (`SetEvent`, `SignalObjectAndWait`); `split` says whether another
thread may run between the release and the wait of the latter, which Windows
does not exclude.  Pages are what they lead to: children, overflow items,
sub-databases.  `AsIsCopy`: the copier's steps, the size of the file read once
(`ReadSize`) while the file may go on growing, and a writer that begins, writes
pages where `mdb_find_oldest` lets it, and commits or not.  `EnvCopy` opens the
file, runs one of them and closes it.

*Fairness.*  Each thread is scheduled and the mutexes are handed out in turn
(strong); a writer's transaction ends and the file is closed (weak).

### MasterRegistry

`_nodes` is the list in order of registration; `pc`, `arg`, `pObj` a handler
thread, its parameter and the node it found; `ping`, `itr` the ping thread; `up`,
`_dbName` a worker.  Only `WaitToWrite` and `Done` of the guard are called, so
`g_Guard` is a lock with an owner: what `SWMRGuardProofs` proves of the guard is
what is used here.  A call to a worker is two steps with the guard held: it is
sent, and it is answered (`WorkerSetNode`, `PingAnswered`) or throws
(`SendThrows`, `PingThrows`).  The constants say how bad the world is:
`MayCrash` (the workers that die and come back), `QuickRestart` (those that do even
before their last registration is through), `Slow` (a live worker's answer may
time out), `OtherServer` (the workers at whose address something else may answer
when they are dead).  The two that void a promise do so for their workers only:
`WorkersAgree` leaves out those of `QuickRestart`, `ActiveIffAssigned` those of
`OtherServer`, whose refused pings make an entry inactive and keep its database.

*Fairness.*  A thread that waits for the guard gets it in the end (strong):
all waiters are writers, which CSWMRGuard serves in turn (`ThreadsProgress`).
An HTTP call ends (weak): it has a timeout.  The ping thread runs.  No request,
crash or delay has to happen.

### LMDBNet

`State`, `_handle`, `ParentTransaction`, `IsReadOnly`, `Transaction` are fields
of the objects; `Disposing` and `StateChanging` the lists of subscribers, in
order; `calls` the calls still to be made by the cascade at work, innermost
first.  The native half (`mdb_txn`, `mdb_cursor`, `mc_txn`) follows
`mdb_txn_end` and `mdb_cursor_close`: the cursors of a write transaction are
freed with it, those of a reader are not, a transaction ends those nested in it.
`misuse` records a native call on a freed handle.  The user calls one method at
a time, on objects that may be used; the constants say whether he disposes
nested transactions (`ChildrenFirst`) and cursors (`CursorsFirst`) before the
transaction around them ends, and whether he renews cursors (`Renews`).

## 3. What is checked

Each property of a passing run is also checked against a mutant of the code
that must violate it.  Deadlock is checked for the guard and for the opening of an
environment; the other models may stop, because their users and their bounds do.
Where a type invariant is not a property of its own it is a conjunct of an
invariant that is.

| Run | Instance | Shows |
|---|---|---|
| `guard` | 5 threads, 2 writing, fair | `MutualExclusion`, `WakeupsConserved`, `NobodyWaitsInVain`, `WriterPriority`, `ImplementsRWLock`; `ThreadsProgress`: writers do not starve, and readers get in once no writer waits (they may starve before, as the NOTE in `Done` says) |
| `txn_crash` | 1 reader, 2 writers, 1 node, 5 transactions, 10 pages, 1 death, `MDB_NOMETASYNC` | `SnapshotStable`, `ReaderPagesInBounds`, `TxnidsCommitted`, `ImplementsStore` |
| `txn_pages` | 1 writer, 2 nodes, every operation, 4 transactions, 9 pages | `PagesAccounted`, within a transaction and at its end |
| `txn_faults` | 1 reader, 2 writers, 4 transactions, 1 death, failing writes of pages and metas, roll-backs that fail or do not reach the disk | `Durable`; `Recoverable`, until somebody writes again after a failed meta page |
| `reader_table` | 2 processes (one with `MDB_NOTLS`), a reader each, 2 slots, 2 transactions, 1 death | `SnapshotsProtected`, `SlotsOwned`, `SlotsAccounted` |
| `env_open` | 3 processes (1 read-only), failures at every step, 1 death with handles closed in any order, 2 transaction numbers, with or without files of an earlier use, fair | `NothingLost`, `ImplementsSharedEnv`, until somebody joins only the dead; `OpenEnds` |
| `btree` | 6 keys, short and long entries and keys, pages of 2 to 4 nodes, 3 levels, 1 cursor | `TreeOK`, `CursorsFollow`, `ImplementsOrderedMap` |
| `nested` | 3 levels, 5 operations, 3 leaves, 1 cursor, dirty lists of 4 pages, 1 page in the freeDB, 4 at the end; early writes, allocations and the growth of lists fail | `DirtyRoomExact`, `PagesOnce`, `CursorsOnTree`; `ImplementsNestedStore`, where the outermost commit may store anything once an early write that failed has left `P_KEEP` |
| `env_copy` | 3 trees (empty; overflow items and sub-databases; three levels with a leaked page), buffers of 3 pages; a file of 3 data pages with a writer of 2 pages, up to transaction 4; every failure | `CompactFaithful`, `AsIsReadable`, `NothingLeft`, `CopyEnds` |
| `registry` | 2 handlers, 2 workers that die and return (not while their last registration is served: with `QuickRestart` this instance takes too long), one with another server at its address, 2 databases, slow calls, fair | `WorkersAgree`, `ActiveIffAssigned`, `MasterServes`, `DeadNodesLeave` |
| `net_lifecycle` | 3 transactions, 2 cursors, a tidy user | `NoMisuse`, `HandlesAgree`, `NothingLeft`, `OnlyAskedCommits` |
| `registry_wedged` | the same master, one database | that `DeadNodesRemoved` fails (below) |

Why the bounds are enough.  *Guard:* five threads give a writer inside
and one waiting, or a reader inside, two writers and two readers waiting, at
once.  *Transactions:*
a page freed by transaction n is reusable from n + 2 on, and the meta page a
reader copies is rewritten after two commits: five transactions let a reader be
overtaken twice, pages be freed, reclaimed and rewritten, and a transaction
follow; ten pages let the map grow, be reused, and be full (with two nodes and
nine pages `MapFull` is reached in `txn_pages`).  `mdb_find_oldest` takes the
minimum over the slots, so what holds with one reader that matters holds with more.  One death gives one recovery;
the machine that dies after it is the same bound's other choice.  *Reader table:*
two slots are full when one is a dead process's and one is taken; one death and
the return of its pid meet every step of the check of the other process; two
commits let a reader publish a number that is old by then.  *Opening:* one process
that initialises, one that waits and one inside, or all three closing; the death of
any of them, wherever it is; two numbers tell a commit lost from a commit repeated.
*B-tree:* six long entries fill three leaves and grow a third level with a long separator
in the branch page above; a tree of three levels is where a split of a branch
page, a merge that leaves its parent short and a collapse under a stack of
three occur.  A second user's cursor would meet the same loops as the first.
*Nested:* three levels give a transaction that is child and parent; the room of
four pages makes the second operation spill; five operations allow a begin, a
spill, a child's write and overwrite of a spilled page, and the ends of both,
which do not count.  *Copy:* the buffers fill in the middle of a page's items and
between pages, an overflow item is longer than what is left of a buffer; the
writer commits three times while a copy is at work, enough to take up pages the
copy's snapshot needs, were it not protected.  *Registry:* two
handlers and the ping thread meet in the guard; with two workers one entry stands
before the other.  Two workers register several times each, so lists get longer
than two.  *LMDBNet:* three transactions give a parent with a child and a
grandchild, or a parent and two children in turn; two cursors can be in the same
or in different ones.

### Disagreements found

One run is a run that TLC must find violated.

- `registry_wedged`: "Node is removed." (`MyServer/MyServer.cpp:80`) - a handler
  whose call to the dead worker throws dies with the guard
  (`MyServer/MyServer.cpp:331`), and nobody removes anything any more.

### Seen while modelling

The models allow what follows, or leave it out where it says so.  TLC finds the
first three when the escape that their property has for them is taken away.

Engine:

- A meta page that could not be written is overwritten with old numbers "to prevent
  it from being used" (`libraries/lmdb-dll/mdb.c:4227`).  The result of that second
  `WriteFile` (line 4235) is not looked at; "we know it will fail anyway", says the
  comment.  When it does, the number of the failed transaction stays in the map,
  `mti_txnid` does not know of it, and the next writer, in another process, builds on
  pages that no commit has left.  `Recoverable` holds until then and no longer, and
  `TxnidsCommitted` is violated with `Faults = {"meta"}`, even with no death at all.
- "Commit all the operations of a transaction into the database."
  (`Include/lmdb-dll.h:1034`) - an early write of a child that fails leaves `P_KEEP` on
  the pages under the cursors (`mdb.c:2352` jumps past line 2356), the parent's too.
  The child is aborted, the parent is not marked as failed, and its commit passes
  over these pages (`mdb.c:3654`) and writes the meta page: an old page is where a
  new one should be.  `ImplementsNestedStore` is violated with `cutoff <- FALSE`.
- `mti_txnid` is "The ID of the last transaction committed to the database"
  (`mdb.c:841`), and for a while 0: whoever opens first writes 0 (`mdb.c:5287`) and the
  number only at `mdb.c:4933`.  Nobody can join meanwhile, for the lock is exclusive
  and the mutexes go with their last handle - unless the process dies and Windows
  closes its lock file first.  Whoever waits for the lock then finds the mutexes
  (`mdb.c:5311`), and the number 0.  `NothingLost` is violated without `misled`.
- Even a roll-back that succeeds puts only the numbers back (`mdb.c:4230`), the trees
  are not, and a reader that published the older number and was overtaken copies
  them.  `txn_faults` therefore asks only for what must hold still.
- `mdb_txn_id` of a reader (`Include/lmdb-dll.h:1025`: "the snapshot being read")
  is not that of its snapshot when two commits overtake it between publishing its
  number and copying the meta page; it reads a newer snapshot, which is safe
  (`SnapshotStable`).
- An opener that waits while the last user closes is told that the mutex does not
  exist (`mdb.c:5311`) and must try again.
- Between the release and the wait of `SignalObjectAndWait` (`mdb.c:352`) the other
  thread may run, and its signal may be taken by the thread that gave it: a
  compacting copy may then sleep for ever although the comment at `mdb.c:9967` says
  "await unused buffer".  `CopyEnds` is checked where this does not happen
  (`split`); that the copy is faithful, and that nothing is left by one that
  returns, is checked with it too.
- A search with `MDB_SET` that fails leaves a positioned cursor where the search
  ended (`mdb.c:6949`, `6974`), even one past the page's end: the entry an `MDB_PREV`
  then returns need not be the "previous data item" (`Include/lmdb-dll.h:418`) of
  anything.  An `MDB_NEXT` on a cursor with `C_EOF` gives up (`mdb.c:6693`) although an
  entry has since been added behind it (`Include/lmdb-dll.h:411`: "next data item").
  `OrderedMap` allows both ("past", `eof`).
- `mdb_drop` with `del` closes the handle at once, whether or not the transaction
  commits; concurrent calls of `mdb_dbi_open` are left to the caller.
- On Windows the array of thread-local keys (`mdb.c:4878`) is shared by all
  environments of a process without a lock; a pid used again while `MDB_NOTLS` slots
  of its predecessor are left keeps those slots taken.

Master and workers:

- "Node already registered !" (`MyServer/MyServer.cpp:186`) - `ExistsNode` gives the
  guard up before `RequestVerbRegisterNode` takes it again (line 196), so two
  registrations at once are both accepted.
- get-node takes an idle node that stands in the list before the one that already
  serves the database (`MyServer/MyServer.cpp:232`), so two nodes may serve it.
- A node whose ping is refused is made inactive and keeps its database's name
  (`MyServer/MyServer.cpp:113`).

LMDBNet:

- A nested transaction that has committed and not been disposed of still
  subscribes to its parent, whose end calls `Abort` on it (`LMDBNet/LMDBTransaction.cs:60`)
  with a handle that "must not be used again after this call" (line 257); the
  model's user disposes nested transactions first (`ChildrenFirst`).
- `Dispose` of a cursor whose write transaction has committed closes the native
  cursor a second time (`LMDBNet/LMDBCursor.cs:358`, against "All cursors opened
  within the transaction will be closed by this call",
  `LMDBNet/LMDBTransaction.cs:256`); the model's user disposes cursors first
  (`CursorsFirst`).
- A renewed cursor stays subscribed to the transaction it was created in
  (`LMDBNet/LMDBCursor.cs:343`): disposing of that one closes it, disposing of its
  present one does not.
- A database object closes its slot number (`LMDBNet/LMDBDatabase.cs:104`), which
  may since be another database's.

LMDBService:

- set-data writes through the transaction that `Init` has committed; the error of
  `mdb_put` is dropped and the client is answered OK (`LMDBService/TheServer.cpp:277`).
- The requests share `_mapWrapper`, a `std::map`, without a lock
  (`LMDBService/TheServer.cpp:166`).

## 4. What is proved

All theorems are for every value of the constants that satisfies the named
assumptions of the modules.

**`SWMRGuardProofs`** (any finite set of threads, `ThreadsAssumption`).  The
invariant of the run is not inductive: exclusion rests on the counters, and the
counters are only right together with the wakeups on their way.  The inductive
invariant joins the type, the fact that at most one thread stands between
`LeaveCriticalSection` and `ReleaseSemaphore` (`OneWaker`), `WakeupsConserved`
and `NobodyWaitsInVain`.  Each step moves one thread, so lemmas on the
cardinality of the set of threads at a place carry the proof.  From it:
`GuardBookkeeping` (`WakeupsConserved`), `GuardKeepsNobodyWaiting`
(`NobodyWaitsInVain`), `GuardExcludes` (`MutualExclusion`),
`GuardPrefersWriters` (`WriterPriority`), and `GuardImplementsLock`: every step
of the guard is a step of `RWLock` or stutters.

**`MDBTxnProofs`** (any processes, readers, writers, operations, trees, size of
map, bounds, mode and failures).  `IndInv` is `TypeOK`, `TxnidsLogged` and
`WorkLogged`: no number anywhere exceeds the transactions begun, every number in a
meta page has its image in the history, and so has that of the transaction at
work once its meta page is written (before, it is at most the next one).  TLC checks `IndInv`
too.  From it `TxnTypes` (`TypeOK`, with the arithmetic of page numbers: none
leaves the map) and, if no write of a meta page fails, `TxnidsHaveImages`
(`TxnidsCommitted`: whoever dies and whatever else fails, no number that a restart
or a reader could pick is without a commit).  An invariant of the numbers in the
meta pages alone (`NumInv`: each in the page of its parity, the published one there, the
disk's newest as late as what was acknowledged) gives `CommitsDurable`
(`Durable`) with any failures: whatever is left of a meta page that failed, the
other one is as old commits left it.

The second part of `MDBTxnProofs` goes on from there to the pages.  The inductive invariant has
four layers, each preserved by every step given those above it.  `OrderInv`: the two
meta pages hold the last two transactions, which of them is on disk, how far
`mti_txnid` and the writer can be from the newest.  `LooksOK`: no process believes
a reader that has checked its slot to be gone (`me_pgoldest`).  `PagesInv`: every
meta page that may be built on - the newest, the other while the newest is not
synced, the one `mti_txnid` names - is whole in the file and on disk and uses every
page once (`MetasSafe`), and so does the transaction at work, at each step of
`mdb_page_alloc` and of the loop of `mdb_freelist_save` (`WorkInv`).  `ReadersSafe`: the
same for what readers have copied.  The idea that carries it is `Kept(m)`: the
snapshot `m` is intact, and the writer has none of its pages to write, to give
away or to reuse.  A step keeps (`Carries`) every snapshot that the owner of the writer
mutex may not believe out of use (`Held`), and a page leaves the records of the
freeDB only when its transaction is older than all of those.  All this is so as long as no
write of a meta page has failed (`doubt = "none"`).  Once one has, and until somebody
writes again, nothing changes but the meta page that failed, and `Frozen` says of
it: the other one is whole in the file and on disk, and whatever is left of this
one is whole too or has an older number.  From it, in any mode and with any
failures, `AlwaysRecoverable` (`Recoverable`); and, if no write of a meta page fails,
`PagesUsedOnce` (`PagesAccounted`), `SnapshotsStable` (`SnapshotStable`) and
`ReadersInBounds` (`ReaderPagesInBounds`).  The hypothesis is needed:
section 3 says what a writer may build on otherwise.  TLC
checked each layer on the configurations of `MCMDBTxn` first.

Its last part closes the engine: `EngineImplementsStore`
(`ImplementsStore`, if no write of a meta page fails).  What the pages hold is known by then; what is
added is the history.  The number in a meta page, on disk, mapped or copied, is
the place of its image in `log` (`HistoryOK`, `CopiesOK`), and what the transaction
at work has neither written nor removed is as in the newest of them
(`BuildsOnTop`).  So a view, read from pages, is an image of the history
(`ViewsAreImages`), and every step has its counterpart: `mdb_env_write_meta` is the
commit; `mti_txnid` is written by the commit that returns, or by whoever takes the
mutex after a death, and both publish the whole history; the copy of the
meta page opens a view at or after the number looked at; the machine's death cuts
the history where the newest surviving meta page says; every other step of
readers, writers, openers and checkers is a stutter.

**`ReaderTableProofs`** (any processes, threads, pids used again, table, bounds).
That the scan protects the snapshots in use rests on a chain, and `IndInv` is that
chain: whoever claims a slot or clears those of the dead holds `rmutex`
(`MutexHeld`) and is up (`UpOnly`); a slot being claimed is nobody's (`ClaimsOK`); no
live thread has a slot of a pid that is about to be cleared, which is what the
recheck is for (`ChecksOK`); so a thread's slot is its own, lies within the table
and within what the close of its process looks at, and holds the number of an
open reader (`SlotsOK`); no number is newer than `mti_txnid` (`NumbersOK`); and while a
scan is at work, an open reader's number is counted already or stands in a slot
still to be looked at (`ScanCounts`).  From it: `ScansProtectSnapshots`
(`SnapshotsProtected`), `SlotsStayOwned` (`SlotsOwned`), `NoSlotLost`
(`SlotsAccounted`) and `ReaderTableTypes`.

**`EnvOpenProofs`** (any processes, numbers, failures and deaths, handles of the dead
closed in any order).  The chain is: the lock region belongs to processes that
hold the lock file's lock, and only a process that is dying has a handle of the
mutexes without it (`LocksOK`); whoever holds the lock alone has the region for
itself, and whoever joins somebody inside finds one that went through an opening;
so the data file is whole before anybody is inside (`FileOK`), and the number in
the region is that of the newest commit whenever anybody may read it
(`NumbersOK`).  Who joins nobody but the dead is `misled`, which stays (`MisledStays`),
and the invariant (`Sure`) says no more than the types of what follows.  From it
`OpeningLosesNothing` (`NothingLost`) and `OpenImplementsSharedEnv`
(`ImplementsSharedEnv`).

**`MasterRegistryProofs`** (any handlers, workers, names and databases, any of which
die, are slow, or have another server at their address).  `WorkersAgree` speaks of
the moments at which the guard is free, and rests on what holds while it is not.
`IndInv` says who holds it (`GuardOK`: the one handler that calls a worker or was
stopped while it did, or the ping thread during its round); that a worker which
waits for its reply before it registers again has one entry, though the test and
the insertion are two critical sections (`OneEntry`); that while a handler calls a
worker, the entry says what the worker is about to hear (`SendingOK`); that a worker
that was started anew has been told nothing (`FreshOK`); and so, unless a call has
thrown, every other active entry agrees with its worker (`Agree`).  A call that
throws may leave the two apart, but then the guard is never free again.  From it
`WorkersAreTold` (`WorkersAgree`) and `ActiveMeansAssigned` (`ActiveIffAssigned`, for
which get-node, release-node and the ping thread are looked at one by one, the
empty name included).

**`EnvCopyProofs`** (any map, writer, snapshots, size of buffers and failures; a
snapshot is a tree, `CopyAssumption`: a page but the root is referred to once, from
nearer to the root, as a commit leaves it).

The copy as it is (`AsIsInv`).  The copied meta pages are followed by everything the
writer has in hand (`Follows`): a page that one of them needs is in the newest tree
still, or was freed by a later transaction than its own.  What is taken again was
freed by an earlier one than the copier's reader slot names, and the slot names no
later one than the copied metas' successor, because it was taken with the writers
held off.  So the page is on disk as it was when its turn comes, and below the
file's end when that is read (`EndOK`).  Theorem:
`CopiesAreReadable` (`AsIsReadable`).

The compacting copy (`CompactInv`).  The numbers of the two threads fit together
(`SyncInv`: who has the mutex, what `mc_new` can be where, when the two toggles
agree), so at any moment the file, what the writer is at, the other buffer and what
the walker collects make up one sequence, `All`.  The threads hand buffers to and fro
without changing it (`HandsOn`); only `Begin`, `CopyBig` and `Emit` add to it, at its
end.  About that sequence `OutputOK` says: the numbers are consecutive; no page is
there twice; a page in it is there with everything it leads to; what a page on the
walk has behind it is there; and whatever is there was led to by an item that is
there or behind the walk (`Led`), so the next item's page cannot be there yet.  When
the walk is empty the root is last (`WholeIn`).  A page that were missing would have
a missing page above it, nearer to the root each time (`EveryPage`).  With an error
nothing is claimed of the output, and a success says that there was none
(`Returns`).  Theorems: `CopiesAreFaithful` (`CompactFaithful`) and, from both halves,
`LeavesNothingBehind` (`NothingLeft`).

**`LMDBNetProofs`** (any transactions and cursors, nested to any depth, and a user who
disposes nested transactions and cursors before the transaction around them ends,
`ChildrenFirst` and `CursorsFirst`; without either `NoMisuse` is false, section 3).
One call of the user becomes a stack of calls as long as the tree of objects, so
the invariant has two halves.  The objects (`Objs`): transactions form trees
(`Trees`); what is open has its handle, and so has what it hangs from
(`HeldTxns`, `HeldCursors`); the lists of subscribers hold what exists, once
(`Subscribers`).  The stack (`Stack`): it is a block of transactions that end, above
objects that are being disposed of (`Shape`), each before what it hangs from
(`Apart`); a transaction ends on the native side after those nested in it
(`Ends`), and a handle is given up when nothing is left that hangs from it
(`Disposes`); every object that hangs from another is subscribed to it or on the
stack already (`Subscribed`); an object's state and its native side differ only
while a call that will mend it is pending (`Agree`).  That a transaction is nested
in another is the least set closed under children, so that depth needs no
induction over numbers.  TLC checked the invariant on the instance of the run.
Theorems: `NetNoMisuse` (`NoMisuse`), `NetHandlesAgree` (`HandlesAgree`),
`NetNothingLeft` (`NothingLeft`) and `NetOnlyAskedCommits` (`OnlyAskedCommits`).

**`NestedTxnProofs`** (any store that a commit can have left, `StoreAssumption`: each
page is in the tree or in one record; any map size, room of the dirty lists, depth,
cursors and failing calls; `Need >= 3`: `mdb_page_spill` makes room for what a call
dirties, which is three pages at most here).  None of the properties is inductive:
the room of a child's list depends on what its parents hold, and a page that
`mdb_page_alloc` gives out must not be one that a parent, or the store, would find
again after an abort.  `IInv` says, of each transaction that has not failed:

- there is a tree `D` that it finds (`Shows`), through its own dirty and spilled
  pages, those of its parents, and the map, and `D` is well made (a page per node,
  a root and an overflow page apart from them);
- its lists fit `D` (`ListsOK`): what is dirty is not spilled, the room is what the
  dirty pages of the chain leave (`RoomOK`), every page is of one kind (`UseOK`), what
  is loose is dirty and its own (`LooseOK`), what may be allocated is held by nobody
  (`FreshOK`);
- and everything it holds or may allocate is, seen from each level around it, held
  by that level already or free there (`Within`).  No property says this, and it is the
  part that everything rests on: an early write of a child overwrites pages of the
  map that no parent reads from the map (`FlushSafe`), and what an abort leaves
  behind is what the parent could have got.

Of the cursors (`CursorsOK`) it says that a cursor and each of its backups points to the
pages that the level it is of finds, and of the map that the stored tree stays
until the outermost commit (`StoredOK`).  A call is a chain of small steps on a record
(`mdb_page_alloc`, `mdb_page_unspill`, `mdb_page_touch`, `mdb_page_loose`,
`mdb_ovpage_free`, ...), and there is a lemma per step: it leaves a sound record (`Good`),
or one that has failed, and changes only pages of its own (`Keeps`).  Whole calls are
those lemmas one after the other.  Theorems: `RoomExact` (`DirtyRoomExact`),
`EachPageOnce` (`PagesOnce`), `CursorsStayOnTree` (`CursorsOnTree`), and
`KeepsPromise` (`ImplementsNestedStore`), with any failing calls: every step is a step of
`NestedStore` or a stutter.  Only a call that fails its transaction leaves a `P_KEEP`
where there was none (`MarksStay`); a put changes the
innermost image, the begin of a nested transaction copies it, an abort drops it, a
commit hands it up.

Only model-checked: all liveness (`ThreadsProgress`, `MasterServes`, `DeadNodesLeave`,
`OpenEnds`, `CopyEnds`), which is beyond the prover as `ENABLED` is; and `BTree`
(`TreeOK`, `CursorsFollow`, `ImplementsOrderedMap`), whose operators are recursive as the
code is: what they compute for every tree needs induction over data.

## 5. What is not modelled

- Engine: `MDB_WRITEMAP`, `MDB_NOSYNC`, `MDB_NOLOCK`, `MDB_PREVMETA`; a lock file whose
  size asks for other `me_maxreaders`; two environments of one process on one
  file; `MDB_DUPSORT` with its sub-pages, `MDB_RESERVE`, `MDB_MULTIPLE`; named databases
  and their slots (`mdb_dbi_open`, `mdb_dbi_close`).  `midl.c` is sequential code on
  sorted arrays: the models take a list for its set or sequence.
- With failing writes of meta pages the engine gives up `SnapshotStable` for
  readers that race with the failure, and everything but durability once somebody
  has written again; the run `txn_faults` asks only for what must hold still.
- Master: `show-nodes` only reads.  A call that timed out does not reach its
  worker later.  An exception out of `extract_json` in the ping thread would end
  the process.  A node whose address answers without JSON ends every round of
  the ping thread before the nodes after it (`DeadNodesLeave` says so).
- LMDBNet: databases, finalizers, methods that run at the same time.
- CLMDBWrapper, LMDBServiceNet, LMDB_Wcf, clients, helpers: one call after the
  other, with no state between requests.
- LMDBService: its handlers race on a `std::map`, which C++ leaves undefined, and
  what set-data acknowledges is never stored; there is no promise to check.
- LMDBNet databases and the LMDBNet wrapper: they need the dbi slots of `mdb.c`.

## 6. The plan

1. `SWMRGuard` with `RWLock`: modelled, checked, proved.
2. `MDBTxn` with `SnapshotStore`: modelled, checked, proved (all safety properties
   and the refinement).
3. `MasterRegistry`: modelled, checked, proved.
4. `LMDBNet`: modelled, checked, proved.
5. `ReaderTable`: modelled, checked, proved.
6. `EnvOpen` with `SharedEnv`: modelled, checked, proved.
7. `NestedTxn` with `NestedStore`: modelled, checked, proved (all safety properties
   and the refinement).
8. `CompactCopy`, `AsIsCopy`, `EnvCopy`: modelled, checked, proved.
9. `BTree` with `OrderedMap`: modelled, checked.
10. Left: the dbi slots of named databases, and on them the LMDBNet databases.
