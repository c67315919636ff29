------------------------------- MODULE EnvCopy -------------------------------
(* mdb_env_copy2: opens the file of the copy, copies the environment with   *)
(* compaction or as it is (mdb_env_copyfd2), and closes the file.           *)
EXTENDS CompactCopy, AsIsCopy

CONSTANT FileFaults   \* what may fail: "open", "close"

VARIABLES mode,       \* MDB_CP_COMPACT or not, "none" before the call
          fd,         \* is the file of the copy open?
          ret         \* what mdb_env_copy2 returns: "none", "success", "error"

vars == <<copyVars, asisVars, mode, fd, ret>>

Init == CopyInit /\ AsIsInit /\ mode = "none" /\ fd = FALSE /\ ret = "none"

Open ==
    /\ mode = "none"
    /\ mode' \in {"compact", "asis"}
    /\ \/ fd' = TRUE /\ ret' = ret
       \/ "open" \in FileFaults /\ fd' = fd /\ ret' = "error"
    /\ UNCHANGED <<copyVars, asisVars>>

Compacts(A) == mode = "compact" /\ fd /\ A /\ UNCHANGED <<asisVars, mode, fd, ret>>
AsIs(A)     == mode = "asis" /\ fd /\ A /\ UNCHANGED <<copyVars, mode, fd, ret>>

Succeeded == IF mode = "compact" THEN rc = "ok" ELSE res = "copied"
Returned  == IF mode = "compact" THEN pc["walker"] = "done" ELSE at = "done"
Close ==
    /\ fd /\ Returned /\ fd' = FALSE
    /\ ret' \in IF Succeeded
                THEN {"success"} \cup {e \in {"error"} : "close" \in FileFaults}
                ELSE {"error"}
    /\ UNCHANGED <<copyVars, asisVars, mode>>

Next == Open \/ Compacts(CopyNext) \/ AsIs(AsIsNext) \/ Close

(* Each thread is scheduled, and the mutexes, which the threads hold for a  *)
(* bounded time, are handed out in turn.  A writer's transaction ends.      *)
Fair == /\ SF_vars(Compacts(WalkerStep)) /\ SF_vars(Compacts(WriterStep))
        /\ SF_vars(AsIs(CopierNext)) /\ WF_vars(AsIs(EndTxn)) /\ WF_vars(Close)
Spec == Init /\ [][Next]_vars /\ Fair

(***************************************************************************)
(* Properties                                                              *)
(***************************************************************************)
(* Types, and what belongs together: the writer's mutex is held by whom the *)
(* programs say, a thread asleep has no signal waiting for it, and at most  *)
(* two buffers are to be written.                                           *)
TypeOK ==
    /\ new \in {0, 1, 2, EOF, EOF + 1, EOF + 2}
    /\ hand \in {0, 1} /\ turn \in {0, 1} /\ adjust \in {0, 1, EOF + 1}
    /\ \A b \in {0, 1} : Len(buf[b]) <= BufPages
    /\ mutex \in Threads \cup {"free"} /\ wmutex \in {"free", "writer", "copier"}
    /\ mutex = "walker" <=> pc["walker"] = "await"
    /\ mutex = "writer" <=> pc["writer"] \in {"await", "write"}
    /\ wmutex = "copier" <=> at = "metas"
    /\ wtxn # None <=> wmutex = "writer"
    /\ event => "asleep" \notin {pc[t] : t \in Threads}

(* While no error has occurred, what has been written, what the writer      *)
(* holds, what waits in the buffers and what the walker collects are, in    *)
(* this order, pages with consecutive numbers from 0, each overflow page    *)
(* right after its item's first page: no block is lost, repeated or         *)
(* overtaken between the two threads (mdb_env_copythr, mdb_env_cthr_toggle).*)
Queued(b) == buf[b] \o over[b]
Pending ==
    LET n    == new % 4
        busy == pc["writer"] = "write"
        mine == left \o over[turn]
    IN  (IF n = 0 THEN <<>> ELSE IF busy THEN mine ELSE Queued(turn))
        \o (IF n = 2 THEN Queued(1 - turn) ELSE <<>>)
        \o (IF pc["walker"] \in {"walk", "finish", "give"} THEN Queued(hand)
            ELSE <<>>)
InOrder ==
    LET all == file \o Pending IN
    error = "ok" =>
      \A k \in DOMAIN all :
        IF all[k].part = 0 THEN all[k].pgno = k - 1
        ELSE /\ k > 1 /\ all[k - 1].of = all[k].of
             /\ all[k - 1].part = all[k].part - 1

(* A compacted copy that is reported a success is the snapshot: each of its *)
(* pages once, every reference renumbered to the page it led to, overflow   *)
(* pages complete, and the root of meta page 1 the last page of the file,   *)
(* whatever failed or was slow (lmdb-dll.h:718).  And so it is being made.  *)
Holds(k, p) == k \in DOMAIN file /\ file[k].of = p /\ file[k].part = 0
Copies(k, p) ==
    /\ Holds(k, p)
    /\ \A i \in DOMAIN snap.pages[p] :
         LET item == snap.pages[p][i]  to == file[k].to[i] IN
         IF item.to = NoPage THEN to = NoPage
         ELSE /\ Holds(to + 1, item.to)
              /\ item.kind = "big" =>
                   \A j \in 1..item.n - 1 :
                     /\ to + 1 + j \in DOMAIN file
                     /\ file[to + 1 + j] = Image(item.to, j, NoPage, <<>>)
CompactFaithful ==
    /\ InOrder
    /\ ret = "success" /\ mode = "compact" =>
        /\ Len(file) >= 2 /\ SubSeq(file, 1, 2) = Metas(snap)
        /\ snap.root = NoPage => Len(file) = 2
        /\ snap.root # NoPage => Holds(Len(file), snap.root) /\ NewRoot(snap) = Len(file) - 1
        /\ \A p \in DOMAIN snap.pages : \E k \in DOMAIN file : Copies(k, p)
        /\ \A j, k \in DOMAIN file : j # k =>
             <<file[j].of, file[j].part>> # <<file[k].of, file[k].part>>

(* A copy of the environment as it is can be opened at either of its meta   *)
(* pages: every page of the tree a meta page describes is in the copy and   *)
(* holds what that transaction has left in it, although the writer has gone *)
(* on committing while the pages were copied (mdb.c:10306, 10309).          *)
AsIsReadable ==
    res = "copied" =>
      /\ Len(out.metas) = NUM_METAS
      /\ \A i \in DOMAIN out.metas : LET m == out.metas[i] IN
           \A p \in Pages(m) : /\ p - 1 \in DOMAIN out.pages
                               /\ out.pages[p - 1] = m.tree[p]

(* The writer thread reads overflow pages from the map only while the       *)
(* snapshot's transaction is open, and when the copy has returned, with or  *)
(* without success, no transaction, thread or mutex is left behind.         *)
NothingLeft ==
    /\ TypeOK
    /\ pc["writer"] = "write" /\ left # <<>> /\ left[1].part > 0 => txn
    /\ pc["walker"] = "done" => ~txn /\ mutex = "free" /\ pc["writer"] \in {"off", "exit"}
    /\ at = "done" => reader = 0 /\ wmutex # "copier"

(* A copy that was begun returns: neither thread waits for the other for    *)
(* ever, with or without faults, and a writer cannot keep a copy waiting    *)
(* (mdb.c:9967, "await unused buffer") - if SignalObjectAndWait lets no     *)
(* other thread run between its release and its wait.                       *)
CopyEnds == fd ~> ret # "none" \/ split
==============================================================================
