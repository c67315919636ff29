---------------------------- MODULE EnvOpenProofs ----------------------------
(***************************************************************************)
(* Proofs about EnvOpen, for any processes that open, close, fail and die  *)
(* at any step: no commit is undone, and to those inside the environment   *)
(* the openings of others change nothing.                                  *)
(*                                                                         *)
(* The argument is one about locks.  Who is inside keeps a lock on the     *)
(* lock file, so who has that lock alone has the lock region and the files *)
(* alone, and who joins somebody inside finds a process that has been      *)
(* through the whole of an opening, or has joined one that had.  A process *)
(* that dies may keep handles of the mutexes longer than its lock: who     *)
(* finds only these is misled, and nothing is said of what follows.        *)
(***************************************************************************)
EXTENDS EnvOpen, TLAPS

(* p may use the lock region. *)
Joined(p) == p \in handles /\ excl[p] = 0
SomeInside == \E p \in Procs : Joined(p)

(* What a process has at each step of its calls. *)
LocksOK ==
    /\ xlock # None => slock = {}
    /\ \A p \in Procs :
          /\ excl[p] = 1 <=> xlock = p
          /\ excl[p] = 0 <=> p \in slock
          /\ p \in handles => excl[p] # -1 \/ pc[p] = "dying"
          /\ pc[p] \in {"closed", "lock", "wait"} => excl[p] = -1 /\ p \notin handles
          /\ pc[p] = "init" => excl[p] = 1 /\ p \notin handles
          /\ pc[p] = "join" => excl[p] = 0 /\ p \notin handles
          /\ pc[p] \in {"file", "header", "meta", "map", "share", "downgrade",
                        "txn0", "open"} => p \in handles
          /\ pc[p] \in {"meta", "share", "downgrade"} => excl[p] = 1
          /\ pc[p] \in {"txn0", "open"} => excl[p] = 0
          /\ pc[p] = "unlock" => p \notin handles

(* Nobody is inside, or the data file is valid; only who is alone writes   *)
(* its meta pages anew, and they are all zero then.                        *)
FileOK ==
    /\ SomeInside => file = "valid"
    /\ \A p \in Procs :
          /\ pc[p] = "header" => file # "none"
          /\ pc[p] = "meta" => file = "empty"
          /\ pc[p] \in {"map", "share", "downgrade", "txn0", "open"} => file = "valid"

(* Only those inside have transactions.                                    *)
UsersOK ==
    \A p \in Procs :
        /\ reading[p] # None => pc[p] = "open" /\ p \in counted
        /\ wmutex = p => pc[p] = "open"

(* The number that the next transaction starts from is that of the last    *)
(* commit, or somebody is about to make it so.                             *)
NumbersOK ==
    /\ \A i \in 0..1 : metas[i] <= committed
    /\ IF file = "valid" THEN Newest = committed ELSE committed = 0
    /\ \A p \in Procs : pc[p] = "downgrade" => mti_txnid = committed
    /\ SomeInside =>
          /\ wmutex = None => mti_txnid = committed
          /\ wmutex \in Procs =>
                /\ mt_txnid = mti_txnid + 1
                /\ committed = IF written THEN mt_txnid ELSE mti_txnid
    /\ wmutex \notin Procs => ~written

IndInv == TypeOK /\ LocksOK /\ FileOK /\ UsersOK /\ NumbersOK

-----------------------------------------------------------------------------
(* The types keep, whatever the rest.                                      *)
LEMMA TypesKept ==
    ASSUME TypeOK, [Next]_vars
    PROVE  TypeOK'
  <1> USE ProcsAssumption, FaultsAssumption, BoundsAssumption
  <1>1. ASSUME NEW p \in Procs, StartOpen(p) PROVE TypeOK'
    BY <1>1 DEF StartOpen, At, Goto, fileVars, regionVars, lockVars, writeVars,
        TypeOK, Opening, Txnids
  <1>2. ASSUME NEW p \in Procs, TryExclusive(p) PROVE TypeOK'
    BY <1>2 DEF TryExclusive, At, Goto, fileVars, regionVars, writeVars,
        TypeOK, Opening, Txnids
  <1>3. ASSUME NEW p \in Procs, WaitShared(p) PROVE TypeOK'
    BY <1>3 DEF WaitShared, At, Goto, fileVars, regionVars, writeVars, TypeOK,
        Opening, Txnids
  <1>4. ASSUME NEW p \in Procs, InitRegion(p) PROVE TypeOK'
    BY <1>4 DEF InitRegion, At, Goto, fileVars, writeVars, TypeOK, Opening,
        Txnids
  <1>5. ASSUME NEW p \in Procs, Join(p) PROVE TypeOK'
    BY <1>5 DEF Join, At, Goto, fileVars, regionVars, writeVars, TypeOK,
        Opening, Txnids
  <1>6. ASSUME NEW p \in Procs, OpenData(p) PROVE TypeOK'
    BY <1>6 DEF OpenData, At, Goto, regionVars, lockVars, writeVars, TypeOK,
        Opening, Txnids
  <1>7. ASSUME NEW p \in Procs, ReadHeader(p) PROVE TypeOK'
    <2>1. \E to \in {"meta", "map"} : pc' = [pc EXCEPT ![p] = to]
      BY <1>7 DEF ReadHeader, Goto
    <2> QED
      BY <1>7, <2>1 DEF ReadHeader, fileVars, regionVars, lockVars, writeVars,
          TypeOK, Opening
  <1>8. ASSUME NEW p \in Procs, InitMeta(p) PROVE TypeOK'
    BY <1>8 DEF InitMeta, At, Goto, fileVars, regionVars, lockVars, writeVars,
        TypeOK, Opening, Txnids
  <1>9. ASSUME NEW p \in Procs, MapFile(p) PROVE TypeOK'
    BY <1>9 DEF MapFile, At, Goto, fileVars, regionVars, lockVars, writeVars,
        TypeOK, Opening, Txnids
  <1>10. ASSUME NEW p \in Procs, ShareTxnid(p) PROVE TypeOK'
    BY <1>10 DEF ShareTxnid, At, Goto, fileVars, lockVars, writeVars, Newest,
        TypeOK, Opening, Txnids
  <1>11. ASSUME NEW p \in Procs, Downgrade(p) PROVE TypeOK'
    BY <1>11 DEF Downgrade, At, Goto, fileVars, regionVars, writeVars, TypeOK,
        Opening, Txnids
  <1>12. ASSUME NEW p \in Procs, Opened(p) PROVE TypeOK'
    BY <1>12 DEF Opened, At, Goto, fileVars, regionVars, lockVars, writeVars,
        TypeOK, Opening, Txnids
  <1>13. ASSUME NEW p \in Procs, Fail(p) PROVE TypeOK'
    BY <1>13 DEF Fail, Goto, fileVars, regionVars, lockVars, writeVars, Opening,
        TypeOK, Txnids
  <1>14. ASSUME NEW p \in Procs, AskClose(p) PROVE TypeOK'
    BY <1>14 DEF AskClose, At, Goto, fileVars, regionVars, lockVars, writeVars,
        TypeOK, Opening, Txnids
  <1>15. ASSUME NEW p \in Procs, Close(p) PROVE TypeOK'
    BY <1>15 DEF Close, At, Goto, fileVars, MutexWithout, TypeOK, Opening,
        Txnids
  <1>16. ASSUME NEW p \in Procs, Unlock(p) PROVE TypeOK'
    BY <1>16 DEF Unlock, At, Goto, fileVars, regionVars, writeVars, Released,
        TypeOK, Opening, Txnids
  <1>17. ASSUME NEW p \in Procs, Die(p) PROVE TypeOK'
    <2>1. 0 \in Txnids
      BY DEF Txnids
    <2>2. /\ wmutex' \in Procs \cup {None, Abandoned}
          /\ mt_txnid' \in Txnids /\ written' \in BOOLEAN
      <3>1. CASE wmutex = p
        BY <1>17, <2>1, <3>1 DEF Die
      <3>2. CASE wmutex # p
        BY <1>17, <3>2 DEF Die, TypeOK, writeVars
      <3> QED
        BY <3>1, <3>2
    <2>3. deaths' \in 0..MaxDeaths
      BY <1>17 DEF Die, TypeOK
    <2> QED
      BY <1>17, <2>2, <2>3 DEF Die, Goto, fileVars, lockVars, TypeOK, Opening
  <1>18. ASSUME NEW p \in Procs, HandlesClosed(p) PROVE TypeOK'
    BY <1>18 DEF HandlesClosed, At, fileVars, regionVars, openVars,
        MutexWithout, TypeOK, Opening, Txnids
  <1>19. ASSUME NEW p \in Procs, FileClosed(p) PROVE TypeOK'
    BY <1>19 DEF FileClosed, At, fileVars, regionVars, writeVars, Released,
        TypeOK, Opening, Txnids
  <1>20. ASSUME NEW p \in Procs, Gone(p) PROVE TypeOK'
    BY <1>20 DEF Gone, At, Goto, fileVars, regionVars, lockVars, writeVars,
        TypeOK, Opening, Txnids
  <1>21. ASSUME NEW p \in Procs, BeginRead(p) PROVE TypeOK'
    BY <1>21 DEF BeginRead, At, fileVars, lockVars, openVars, writeVars, TypeOK,
        Opening, Txnids
  <1>22. ASSUME NEW p \in Procs, EndRead(p) PROVE TypeOK'
    BY <1>22 DEF EndRead, fileVars, regionVars, lockVars, openVars, writeVars,
        TypeOK, Opening, Txnids
  <1>23. ASSUME NEW p \in Procs, BeginWrite(p) PROVE TypeOK'
    BY <1>23 DEF BeginWrite, At, fileVars, lockVars, openVars, Newest, TypeOK,
        Opening, Txnids
  <1>24. ASSUME NEW p \in Procs, WriteMeta(p) PROVE TypeOK'
    BY <1>24 DEF WriteMeta, regionVars, lockVars, openVars, TypeOK, Opening,
        Txnids
  <1>25. ASSUME NEW p \in Procs, EndWrite(p) PROVE TypeOK'
    <2>1. mti_txnid' \in Txnids /\ 0 \in Txnids
      BY <1>25 DEF EndWrite, TypeOK, Txnids
    <2> QED
      BY <1>25, <2>1 DEF EndWrite, fileVars, lockVars, openVars, TypeOK
  <1>26. CASE UNCHANGED vars
    BY <1>26 DEF vars, fileVars, regionVars, lockVars, openVars, writeVars, TypeOK
  <1> QED
    BY <1>1, <1>2, <1>3, <1>4, <1>5, <1>6, <1>7, <1>8, <1>9, <1>10, <1>11,
       <1>12, <1>13, <1>14, <1>15, <1>16, <1>17, <1>18, <1>19, <1>20,
       <1>21, <1>22, <1>23, <1>24, <1>25, <1>26
    DEF Next, Open, Ends, Transact

(* A process calls mdb_env_open. *)
LEMMA StartOpenInd ==
    ASSUME IndInv, NEW p \in Procs, StartOpen(p)
    PROVE  IndInv'
  <1>1. TypeOK /\ LocksOK /\ FileOK /\ UsersOK /\ NumbersOK
    BY DEF IndInv
  <1> USE ProcsAssumption, FaultsAssumption, BoundsAssumption
  <1>2. TypeOK'
    BY <1>1, TypesKept DEF Next, Open, Ends, Transact
  <1>3. LocksOK'
    BY <1>1 DEF StartOpen, At, Goto, fileVars, regionVars, lockVars, writeVars,
        TypeOK, LocksOK, Opening
  <1>4. FileOK'
    BY <1>1 DEF StartOpen, At, Goto, fileVars, regionVars, lockVars, writeVars,
        TypeOK, LocksOK, FileOK, SomeInside, Joined, Opening
  <1>5. UsersOK'
    BY <1>1 DEF StartOpen, At, Goto, fileVars, regionVars, lockVars, writeVars,
        TypeOK, LocksOK, UsersOK, SomeInside, Joined, Opening
  <1>6. NumbersOK'
    BY <1>1 DEF StartOpen, At, Goto, fileVars, regionVars, lockVars, writeVars,
        TypeOK, LocksOK, FileOK, UsersOK, NumbersOK, SomeInside, Joined,
        Newest, Txnids, Opening
  <1> QED
    BY <1>2, <1>3, <1>4, <1>5, <1>6 DEF IndInv

(* It gets the lock file for itself, or has to wait. *)
LEMMA TryExclusiveInd ==
    ASSUME IndInv, NEW p \in Procs, TryExclusive(p)
    PROVE  IndInv'
  <1>1. TypeOK /\ LocksOK /\ FileOK /\ UsersOK /\ NumbersOK
    BY DEF IndInv
  <1> USE ProcsAssumption, FaultsAssumption, BoundsAssumption
  <1>2. TypeOK'
    BY <1>1, TypesKept DEF Next, Open, Ends, Transact
  <1>3. LocksOK'
    BY <1>1 DEF TryExclusive, At, Goto, fileVars, regionVars, writeVars,
        TypeOK, LocksOK, Opening
  <1>4. FileOK'
    BY <1>1 DEF TryExclusive, At, Goto, fileVars, regionVars, writeVars,
        TypeOK, LocksOK, FileOK, SomeInside, Joined, Opening
  <1>5. UsersOK'
    BY <1>1 DEF TryExclusive, At, Goto, fileVars, regionVars, writeVars,
        TypeOK, LocksOK, UsersOK, SomeInside, Joined, Opening
  <1>6. NumbersOK'
    BY <1>1 DEF TryExclusive, At, Goto, fileVars, regionVars, writeVars,
        TypeOK, LocksOK, FileOK, UsersOK, NumbersOK, SomeInside, Joined,
        Newest, Txnids, Opening
  <1> QED
    BY <1>2, <1>3, <1>4, <1>5, <1>6 DEF IndInv

(* It shares the lock file: nobody has it alone. *)
LEMMA WaitSharedInd ==
    ASSUME IndInv, NEW p \in Procs, WaitShared(p)
    PROVE  IndInv'
  <1>1. TypeOK /\ LocksOK /\ FileOK /\ UsersOK /\ NumbersOK
    BY DEF IndInv
  <1> USE ProcsAssumption, FaultsAssumption, BoundsAssumption
  <1>2. TypeOK'
    BY <1>1, TypesKept DEF Next, Open, Ends, Transact
  <1>3. LocksOK'
    BY <1>1 DEF WaitShared, At, Goto, fileVars, regionVars, writeVars, TypeOK,
        LocksOK, Opening
  <1>4. FileOK'
    BY <1>1 DEF WaitShared, At, Goto, fileVars, regionVars, writeVars, TypeOK,
        LocksOK, FileOK, SomeInside, Joined, Opening
  <1>5. UsersOK'
    BY <1>1 DEF WaitShared, At, Goto, fileVars, regionVars, writeVars, TypeOK,
        LocksOK, UsersOK, SomeInside, Joined, Opening
  <1>6. NumbersOK'
    BY <1>1 DEF WaitShared, At, Goto, fileVars, regionVars, writeVars, TypeOK,
        LocksOK, FileOK, UsersOK, NumbersOK, SomeInside, Joined, Newest,
        Txnids, Opening
  <1> QED
    BY <1>2, <1>3, <1>4, <1>5, <1>6 DEF IndInv

(* It is alone, and empties the lock region. *)
LEMMA InitRegionInd ==
    ASSUME IndInv, NEW p \in Procs, InitRegion(p)
    PROVE  IndInv'
  <1>1. TypeOK /\ LocksOK /\ FileOK /\ UsersOK /\ NumbersOK
    BY DEF IndInv
  <1> USE ProcsAssumption, FaultsAssumption, BoundsAssumption
  <1>2. TypeOK'
    BY <1>1, TypesKept DEF Next, Open, Ends, Transact
  <1>3. LocksOK'
    BY <1>1 DEF InitRegion, At, Goto, fileVars, writeVars, TypeOK, LocksOK,
        Opening
  <1>4. FileOK'
    BY <1>1 DEF InitRegion, At, Goto, fileVars, writeVars, TypeOK, LocksOK,
        FileOK, SomeInside, Joined, Opening
  <1>5. UsersOK'
    BY <1>1 DEF InitRegion, At, Goto, fileVars, writeVars, TypeOK, LocksOK,
        UsersOK, SomeInside, Joined, Opening
  <1>6. NumbersOK'
    BY <1>1 DEF InitRegion, At, Goto, fileVars, writeVars, TypeOK, LocksOK,
        FileOK, UsersOK, NumbersOK, SomeInside, Joined, Newest, Txnids, Opening
  <1> QED
    BY <1>2, <1>3, <1>4, <1>5, <1>6 DEF IndInv

(* It joins those inside, if there are any. *)
LEMMA JoinInd ==
    ASSUME IndInv, NEW p \in Procs, Join(p), ~misled'
    PROVE  IndInv'
  <1>1. TypeOK /\ LocksOK /\ FileOK /\ UsersOK /\ NumbersOK
    BY DEF IndInv
  <1> USE ProcsAssumption, FaultsAssumption, BoundsAssumption
  <1>2. TypeOK'
    BY <1>1, TypesKept DEF Next, Open, Ends, Transact
  <1>3. LocksOK'
    BY <1>1 DEF Join, Inside, At, Goto, fileVars, regionVars, writeVars, TypeOK,
        LocksOK, Opening
  <1>4. FileOK'
    BY <1>1 DEF Join, Inside, At, Goto, fileVars, regionVars, writeVars, TypeOK,
        LocksOK, FileOK, SomeInside, Joined, Opening
  <1>5. UsersOK'
    BY <1>1 DEF Join, Inside, At, Goto, fileVars, regionVars, writeVars, TypeOK,
        LocksOK, UsersOK, SomeInside, Joined, Opening
  <1>6. NumbersOK'
    BY <1>1 DEF Join, Inside, At, Goto, fileVars, regionVars, writeVars, TypeOK,
        LocksOK, FileOK, UsersOK, NumbersOK, SomeInside, Joined, Newest,
        Txnids, Opening
  <1> QED
    BY <1>2, <1>3, <1>4, <1>5, <1>6 DEF IndInv

(* It opens the data file, which is there afterwards. *)
LEMMA OpenDataInd ==
    ASSUME IndInv, NEW p \in Procs, OpenData(p)
    PROVE  IndInv'
  <1>1. TypeOK /\ LocksOK /\ FileOK /\ UsersOK /\ NumbersOK
    BY DEF IndInv
  <1> USE ProcsAssumption, FaultsAssumption, BoundsAssumption
  <1>2. TypeOK'
    BY <1>1, TypesKept DEF Next, Open, Ends, Transact
  <1>3. LocksOK'
    BY <1>1 DEF OpenData, At, Goto, regionVars, lockVars, writeVars, TypeOK,
        LocksOK, Opening
  <1>4. FileOK'
    BY <1>1 DEF OpenData, At, Goto, regionVars, lockVars, writeVars, TypeOK,
        LocksOK, FileOK, SomeInside, Joined, Opening
  <1>5. UsersOK'
    BY <1>1 DEF OpenData, At, Goto, regionVars, lockVars, writeVars, TypeOK,
        LocksOK, UsersOK, SomeInside, Joined, Opening
  <1>6. NumbersOK'
    BY <1>1 DEF OpenData, At, Goto, regionVars, lockVars, writeVars, TypeOK,
        LocksOK, FileOK, UsersOK, NumbersOK, SomeInside, Joined, Newest,
        Txnids, Opening
  <1> QED
    BY <1>2, <1>3, <1>4, <1>5, <1>6 DEF IndInv

(* It finds the file empty only if it is alone. *)
LEMMA ReadHeaderInd ==
    ASSUME IndInv, NEW p \in Procs, ReadHeader(p)
    PROVE  IndInv'
  <1>1. TypeOK /\ LocksOK /\ FileOK /\ UsersOK /\ NumbersOK
    BY DEF IndInv
  <1> USE ProcsAssumption, FaultsAssumption, BoundsAssumption
  <1>0. \E to \in {"meta", "map"} :
            /\ to = "meta" <=> file = "empty"
            /\ pc' = [pc EXCEPT ![p] = to]
    BY DEF ReadHeader, Goto
  <1>2. TypeOK'
    BY <1>1, TypesKept DEF Next, Open, Ends, Transact
  <1>3. LocksOK'
    BY <1>0, <1>1 DEF ReadHeader, At, fileVars, regionVars, lockVars, writeVars,
        TypeOK, LocksOK, FileOK, SomeInside, Joined
  <1>4. FileOK'
    BY <1>1 DEF ReadHeader, At, Goto, fileVars, regionVars, lockVars,
        writeVars, TypeOK, LocksOK, FileOK, SomeInside, Joined, Opening
  <1>5. UsersOK'
    BY <1>1 DEF ReadHeader, At, Goto, fileVars, regionVars, lockVars,
        writeVars, TypeOK, LocksOK, UsersOK, SomeInside, Joined, Opening
  <1>6. NumbersOK'
    BY <1>1 DEF ReadHeader, At, Goto, fileVars, regionVars, lockVars,
        writeVars, TypeOK, LocksOK, FileOK, UsersOK, NumbersOK, SomeInside,
        Joined, Newest, Txnids, Opening
  <1> QED
    BY <1>2, <1>3, <1>4, <1>5, <1>6 DEF IndInv

(* Nobody has committed anything yet. *)
LEMMA InitMetaInd ==
    ASSUME IndInv, NEW p \in Procs, InitMeta(p)
    PROVE  IndInv'
  <1>1. TypeOK /\ LocksOK /\ FileOK /\ UsersOK /\ NumbersOK
    BY DEF IndInv
  <1> USE ProcsAssumption, FaultsAssumption, BoundsAssumption
  <1>2. TypeOK'
    BY <1>1, TypesKept DEF Next, Open, Ends, Transact
  <1>3. LocksOK'
    BY <1>1 DEF InitMeta, At, Goto, fileVars, regionVars, lockVars, writeVars,
        TypeOK, LocksOK, Opening
  <1>4. FileOK'
    BY <1>1 DEF InitMeta, At, Goto, fileVars, regionVars, lockVars, writeVars,
        TypeOK, LocksOK, FileOK, SomeInside, Joined, Opening
  <1>5. UsersOK'
    BY <1>1 DEF InitMeta, At, Goto, fileVars, regionVars, lockVars, writeVars,
        TypeOK, LocksOK, UsersOK, SomeInside, Joined, Opening
  <1>6. NumbersOK'
    BY <1>1 DEF InitMeta, At, Goto, fileVars, regionVars, lockVars, writeVars,
        TypeOK, LocksOK, FileOK, UsersOK, NumbersOK, SomeInside, Joined,
        Newest, Txnids, Opening
  <1> QED
    BY <1>2, <1>3, <1>4, <1>5, <1>6 DEF IndInv

(* The file has its meta pages now. *)
LEMMA MapFileInd ==
    ASSUME IndInv, NEW p \in Procs, MapFile(p)
    PROVE  IndInv'
  <1>1. TypeOK /\ LocksOK /\ FileOK /\ UsersOK /\ NumbersOK
    BY DEF IndInv
  <1> USE ProcsAssumption, FaultsAssumption, BoundsAssumption
  <1>2. TypeOK'
    BY <1>1, TypesKept DEF Next, Open, Ends, Transact
  <1>3. LocksOK'
    BY <1>1 DEF MapFile, At, Goto, fileVars, regionVars, lockVars, writeVars,
        TypeOK, LocksOK, Opening
  <1>4. FileOK'
    BY <1>1 DEF MapFile, At, Goto, fileVars, regionVars, lockVars, writeVars,
        TypeOK, LocksOK, FileOK, SomeInside, Joined, Opening
  <1>5. UsersOK'
    BY <1>1 DEF MapFile, At, Goto, fileVars, regionVars, lockVars, writeVars,
        TypeOK, LocksOK, UsersOK, SomeInside, Joined, Opening
  <1>6. NumbersOK'
    BY <1>1 DEF MapFile, At, Goto, fileVars, regionVars, lockVars, writeVars,
        TypeOK, LocksOK, FileOK, UsersOK, NumbersOK, SomeInside, Joined,
        Newest, Txnids, Opening
  <1> QED
    BY <1>2, <1>3, <1>4, <1>5, <1>6 DEF IndInv

(* The number of the last commit, before anybody can join. *)
LEMMA ShareTxnidInd ==
    ASSUME IndInv, NEW p \in Procs, ShareTxnid(p)
    PROVE  IndInv'
  <1>1. TypeOK /\ LocksOK /\ FileOK /\ UsersOK /\ NumbersOK
    BY DEF IndInv
  <1> USE ProcsAssumption, FaultsAssumption, BoundsAssumption
  <1>2. TypeOK'
    BY <1>1, TypesKept DEF Next, Open, Ends, Transact
  <1>3. LocksOK'
    BY <1>1 DEF ShareTxnid, At, Goto, fileVars, lockVars, writeVars, Newest,
        TypeOK, LocksOK, Opening
  <1>4. FileOK'
    BY <1>1 DEF ShareTxnid, At, Goto, fileVars, lockVars, writeVars, Newest,
        TypeOK, LocksOK, FileOK, SomeInside, Joined, Opening
  <1>5. UsersOK'
    BY <1>1 DEF ShareTxnid, At, Goto, fileVars, lockVars, writeVars, Newest,
        TypeOK, LocksOK, UsersOK, SomeInside, Joined, Opening
  <1>6. NumbersOK'
    BY <1>1 DEF ShareTxnid, At, Goto, fileVars, lockVars, writeVars, Newest,
        TypeOK, LocksOK, FileOK, UsersOK, NumbersOK, SomeInside, Joined,
        Txnids, Opening
  <1> QED
    BY <1>2, <1>3, <1>4, <1>5, <1>6 DEF IndInv

(* From now on others may join. *)
LEMMA DowngradeInd ==
    ASSUME IndInv, NEW p \in Procs, Downgrade(p)
    PROVE  IndInv'
  <1>1. TypeOK /\ LocksOK /\ FileOK /\ UsersOK /\ NumbersOK
    BY DEF IndInv
  <1> USE ProcsAssumption, FaultsAssumption, BoundsAssumption
  <1>2. TypeOK'
    BY <1>1, TypesKept DEF Next, Open, Ends, Transact
  <1>3. LocksOK'
    BY <1>1 DEF Downgrade, At, Goto, fileVars, regionVars, writeVars, TypeOK,
        LocksOK, Opening
  <1>4. FileOK'
    BY <1>1 DEF Downgrade, At, Goto, fileVars, regionVars, writeVars, TypeOK,
        LocksOK, FileOK, SomeInside, Joined, Opening
  <1>5. UsersOK'
    BY <1>1 DEF Downgrade, At, Goto, fileVars, regionVars, writeVars, TypeOK,
        LocksOK, UsersOK, SomeInside, Joined, Opening
  <1>6. NumbersOK'
    BY <1>1 DEF Downgrade, At, Goto, fileVars, regionVars, writeVars, TypeOK,
        LocksOK, FileOK, UsersOK, NumbersOK, SomeInside, Joined, Newest,
        Txnids, Opening
  <1> QED
    BY <1>2, <1>3, <1>4, <1>5, <1>6 DEF IndInv

(* The call returns. *)
LEMMA OpenedInd ==
    ASSUME IndInv, NEW p \in Procs, Opened(p)
    PROVE  IndInv'
  <1>1. TypeOK /\ LocksOK /\ FileOK /\ UsersOK /\ NumbersOK
    BY DEF IndInv
  <1> USE ProcsAssumption, FaultsAssumption, BoundsAssumption
  <1>2. TypeOK'
    BY <1>1, TypesKept DEF Next, Open, Ends, Transact
  <1>3. LocksOK'
    BY <1>1 DEF Opened, At, Goto, fileVars, regionVars, lockVars, writeVars,
        TypeOK, LocksOK, Opening
  <1>4. FileOK'
    BY <1>1 DEF Opened, At, Goto, fileVars, regionVars, lockVars, writeVars,
        TypeOK, LocksOK, FileOK, SomeInside, Joined, Opening
  <1>5. UsersOK'
    BY <1>1 DEF Opened, At, Goto, fileVars, regionVars, lockVars, writeVars,
        TypeOK, LocksOK, UsersOK, SomeInside, Joined, Opening
  <1>6. NumbersOK'
    BY <1>1 DEF Opened, At, Goto, fileVars, regionVars, lockVars, writeVars,
        TypeOK, LocksOK, FileOK, UsersOK, NumbersOK, SomeInside, Joined,
        Newest, Txnids, Opening
  <1> QED
    BY <1>2, <1>3, <1>4, <1>5, <1>6 DEF IndInv

(* It fails somewhere on the way. *)
LEMMA FailInd ==
    ASSUME IndInv, NEW p \in Procs, Fail(p)
    PROVE  IndInv'
  <1>1. TypeOK /\ LocksOK /\ FileOK /\ UsersOK /\ NumbersOK
    BY DEF IndInv
  <1> USE ProcsAssumption, FaultsAssumption, BoundsAssumption
  <1>2. TypeOK'
    BY <1>1, TypesKept DEF Next, Open, Ends, Transact
  <1>3. LocksOK'
    BY <1>1 DEF Fail, Goto, fileVars, regionVars, lockVars, writeVars, Opening,
        TypeOK, LocksOK
  <1>4. FileOK'
    BY <1>1 DEF Fail, Goto, fileVars, regionVars, lockVars, writeVars, Opening,
        TypeOK, LocksOK, FileOK, SomeInside, Joined
  <1>5. UsersOK'
    BY <1>1 DEF Fail, Goto, fileVars, regionVars, lockVars, writeVars, Opening,
        TypeOK, LocksOK, UsersOK, SomeInside, Joined
  <1>6. NumbersOK'
    BY <1>1 DEF Fail, Goto, fileVars, regionVars, lockVars, writeVars, Opening,
        TypeOK, LocksOK, FileOK, UsersOK, NumbersOK, SomeInside, Joined,
        Newest, Txnids
  <1> QED
    BY <1>2, <1>3, <1>4, <1>5, <1>6 DEF IndInv

(* It has no transaction any more, and closes the environment. *)
LEMMA AskCloseInd ==
    ASSUME IndInv, NEW p \in Procs, AskClose(p)
    PROVE  IndInv'
  <1>1. TypeOK /\ LocksOK /\ FileOK /\ UsersOK /\ NumbersOK
    BY DEF IndInv
  <1> USE ProcsAssumption, FaultsAssumption, BoundsAssumption
  <1>2. TypeOK'
    BY <1>1, TypesKept DEF Next, Open, Ends, Transact
  <1>3. LocksOK'
    BY <1>1 DEF AskClose, At, Goto, fileVars, regionVars, lockVars, writeVars,
        TypeOK, LocksOK, Opening
  <1>4. FileOK'
    BY <1>1 DEF AskClose, At, Goto, fileVars, regionVars, lockVars, writeVars,
        TypeOK, LocksOK, FileOK, SomeInside, Joined, Opening
  <1>5. UsersOK'
    BY <1>1 DEF AskClose, At, Goto, fileVars, regionVars, lockVars, writeVars,
        TypeOK, LocksOK, UsersOK, SomeInside, Joined, Opening
  <1>6. NumbersOK'
    BY <1>1 DEF AskClose, At, Goto, fileVars, regionVars, lockVars, writeVars,
        TypeOK, LocksOK, FileOK, UsersOK, NumbersOK, SomeInside, Joined,
        Newest, Txnids, Opening
  <1> QED
    BY <1>2, <1>3, <1>4, <1>5, <1>6 DEF IndInv

(* The last handle of a mutex goes with all memory of its owner. *)
LEMMA CloseInd ==
    ASSUME IndInv, NEW p \in Procs, Close(p)
    PROVE  IndInv'
  <1>1. TypeOK /\ LocksOK /\ FileOK /\ UsersOK /\ NumbersOK
    BY DEF IndInv
  <1> USE ProcsAssumption, FaultsAssumption, BoundsAssumption
  <1>2. TypeOK'
    BY <1>1, TypesKept DEF Next, Open, Ends, Transact
  <1>3. LocksOK'
    BY <1>1 DEF Close, At, Goto, fileVars, MutexWithout, TypeOK, LocksOK,
        Opening
  <1>4. FileOK'
    BY <1>1 DEF Close, At, Goto, fileVars, MutexWithout, TypeOK, LocksOK,
        FileOK, SomeInside, Joined, Opening
  <1>5. UsersOK'
    BY <1>1 DEF Close, At, Goto, fileVars, MutexWithout, TypeOK, LocksOK,
        UsersOK, SomeInside, Joined, Opening
  <1>6. NumbersOK'
    BY <1>1 DEF Close, At, Goto, fileVars, MutexWithout, TypeOK, LocksOK,
        FileOK, UsersOK, NumbersOK, SomeInside, Joined, Newest, Txnids, Opening
  <1> QED
    BY <1>2, <1>3, <1>4, <1>5, <1>6 DEF IndInv

(* Its handles are closed; it gives up its lock. *)
LEMMA UnlockInd ==
    ASSUME IndInv, NEW p \in Procs, Unlock(p)
    PROVE  IndInv'
  <1>1. TypeOK /\ LocksOK /\ FileOK /\ UsersOK /\ NumbersOK
    BY DEF IndInv
  <1> USE ProcsAssumption, FaultsAssumption, BoundsAssumption
  <1>2. TypeOK'
    BY <1>1, TypesKept DEF Next, Open, Ends, Transact
  <1>3. LocksOK'
    BY <1>1 DEF Unlock, At, Goto, fileVars, regionVars, writeVars, Released,
        TypeOK, LocksOK, Opening
  <1>4. FileOK'
    BY <1>1 DEF Unlock, At, Goto, fileVars, regionVars, writeVars, Released,
        TypeOK, LocksOK, FileOK, SomeInside, Joined, Opening
  <1>5. UsersOK'
    BY <1>1 DEF Unlock, At, Goto, fileVars, regionVars, writeVars, Released,
        TypeOK, LocksOK, UsersOK, SomeInside, Joined, Opening
  <1>6. NumbersOK'
    BY <1>1 DEF Unlock, At, Goto, fileVars, regionVars, writeVars, Released,
        TypeOK, LocksOK, FileOK, UsersOK, NumbersOK, SomeInside, Joined,
        Newest, Txnids, Opening
  <1> QED
    BY <1>2, <1>3, <1>4, <1>5, <1>6 DEF IndInv

(* A dying process leaves the mutex abandoned and its handles open. *)
LEMMA DieInd ==
    ASSUME IndInv, NEW p \in Procs, Die(p)
    PROVE  IndInv'
  <1>1. TypeOK /\ LocksOK /\ FileOK /\ UsersOK /\ NumbersOK
    BY DEF IndInv
  <1> USE ProcsAssumption, FaultsAssumption, BoundsAssumption
  <1>2. TypeOK'
    BY <1>1, TypesKept DEF Next, Open, Ends, Transact
  <1>3. LocksOK'
    BY <1>1 DEF Die, At, Goto, fileVars, lockVars, writeVars, TypeOK, LocksOK,
        Opening
  <1>4. FileOK'
    BY <1>1 DEF Die, At, Goto, fileVars, lockVars, writeVars, TypeOK, LocksOK,
        FileOK, SomeInside, Joined, Opening
  <1>5. UsersOK'
    BY <1>1 DEF Die, At, Goto, fileVars, lockVars, writeVars, TypeOK, LocksOK,
        UsersOK, SomeInside, Joined, Opening
  <1>6. NumbersOK'
    BY <1>1 DEF Die, At, Goto, fileVars, lockVars, writeVars, TypeOK, LocksOK,
        FileOK, UsersOK, NumbersOK, SomeInside, Joined, Newest, Txnids, Opening
  <1> QED
    BY <1>2, <1>3, <1>4, <1>5, <1>6 DEF IndInv

(* Windows closes its handles of the mutexes, *)
LEMMA HandlesClosedInd ==
    ASSUME IndInv, NEW p \in Procs, HandlesClosed(p)
    PROVE  IndInv'
  <1>1. TypeOK /\ LocksOK /\ FileOK /\ UsersOK /\ NumbersOK
    BY DEF IndInv
  <1> USE ProcsAssumption, FaultsAssumption, BoundsAssumption
  <1>2. TypeOK'
    BY <1>1, TypesKept DEF Next, Open, Ends, Transact
  <1>3. LocksOK'
    BY <1>1 DEF HandlesClosed, At, fileVars, regionVars, openVars,
        MutexWithout, TypeOK, LocksOK, Opening
  <1>4. FileOK'
    BY <1>1 DEF HandlesClosed, At, fileVars, regionVars, openVars,
        MutexWithout, TypeOK, LocksOK, FileOK, SomeInside, Joined, Opening
  <1>5. UsersOK'
    BY <1>1 DEF HandlesClosed, At, fileVars, regionVars, openVars,
        MutexWithout, TypeOK, LocksOK, UsersOK, SomeInside, Joined, Opening
  <1>6. NumbersOK'
    BY <1>1 DEF HandlesClosed, At, fileVars, regionVars, openVars,
        MutexWithout, TypeOK, LocksOK, FileOK, UsersOK, NumbersOK, SomeInside,
        Joined, Newest, Txnids, Opening
  <1> QED
    BY <1>2, <1>3, <1>4, <1>5, <1>6 DEF IndInv

(* and only then gives up its lock, *)
LEMMA FileClosedInd ==
    ASSUME IndInv, NEW p \in Procs, FileClosed(p)
    PROVE  IndInv'
  <1>1. TypeOK /\ LocksOK /\ FileOK /\ UsersOK /\ NumbersOK
    BY DEF IndInv
  <1> USE ProcsAssumption, FaultsAssumption, BoundsAssumption
  <1>2. TypeOK'
    BY <1>1, TypesKept DEF Next, Open, Ends, Transact
  <1>3. LocksOK'
    BY <1>1 DEF FileClosed, At, fileVars, regionVars, writeVars, Released,
        TypeOK, LocksOK, Opening
  <1>4. FileOK'
    BY <1>1 DEF FileClosed, At, fileVars, regionVars, writeVars, Released,
        TypeOK, LocksOK, FileOK, SomeInside, Joined, Opening
  <1>5. UsersOK'
    BY <1>1 DEF FileClosed, At, fileVars, regionVars, writeVars, Released,
        TypeOK, LocksOK, UsersOK, SomeInside, Joined, Opening
  <1>6. NumbersOK'
    BY <1>1 DEF FileClosed, At, fileVars, regionVars, writeVars, Released,
        TypeOK, LocksOK, FileOK, UsersOK, NumbersOK, SomeInside, Joined,
        Newest, Txnids, Opening
  <1> QED
    BY <1>2, <1>3, <1>4, <1>5, <1>6 DEF IndInv

(* and it is gone. *)
LEMMA GoneInd ==
    ASSUME IndInv, NEW p \in Procs, Gone(p)
    PROVE  IndInv'
  <1>1. TypeOK /\ LocksOK /\ FileOK /\ UsersOK /\ NumbersOK
    BY DEF IndInv
  <1> USE ProcsAssumption, FaultsAssumption, BoundsAssumption
  <1>2. TypeOK'
    BY <1>1, TypesKept DEF Next, Open, Ends, Transact
  <1>3. LocksOK'
    BY <1>1 DEF Gone, At, Goto, fileVars, regionVars, lockVars, writeVars,
        TypeOK, LocksOK, Opening
  <1>4. FileOK'
    BY <1>1 DEF Gone, At, Goto, fileVars, regionVars, lockVars, writeVars,
        TypeOK, LocksOK, FileOK, SomeInside, Joined, Opening
  <1>5. UsersOK'
    BY <1>1 DEF Gone, At, Goto, fileVars, regionVars, lockVars, writeVars,
        TypeOK, LocksOK, UsersOK, SomeInside, Joined, Opening
  <1>6. NumbersOK'
    BY <1>1 DEF Gone, At, Goto, fileVars, regionVars, lockVars, writeVars,
        TypeOK, LocksOK, FileOK, UsersOK, NumbersOK, SomeInside, Joined,
        Newest, Txnids, Opening
  <1> QED
    BY <1>2, <1>3, <1>4, <1>5, <1>6 DEF IndInv

(* A reader pins the number it starts from. *)
LEMMA BeginReadInd ==
    ASSUME IndInv, NEW p \in Procs, BeginRead(p)
    PROVE  IndInv'
  <1>1. TypeOK /\ LocksOK /\ FileOK /\ UsersOK /\ NumbersOK
    BY DEF IndInv
  <1> USE ProcsAssumption, FaultsAssumption, BoundsAssumption
  <1>2. TypeOK'
    BY <1>1, TypesKept DEF Next, Open, Ends, Transact
  <1>3. LocksOK'
    BY <1>1 DEF BeginRead, At, fileVars, lockVars, openVars, writeVars, TypeOK,
        LocksOK, Opening
  <1>4. FileOK'
    BY <1>1 DEF BeginRead, At, fileVars, lockVars, openVars, writeVars, TypeOK,
        LocksOK, FileOK, SomeInside, Joined, Opening
  <1>5. UsersOK'
    BY <1>1 DEF BeginRead, At, fileVars, lockVars, openVars, writeVars, TypeOK,
        LocksOK, UsersOK, SomeInside, Joined, Opening
  <1>6. NumbersOK'
    BY <1>1 DEF BeginRead, At, fileVars, lockVars, openVars, writeVars, TypeOK,
        LocksOK, FileOK, UsersOK, NumbersOK, SomeInside, Joined, Newest,
        Txnids, Opening
  <1> QED
    BY <1>2, <1>3, <1>4, <1>5, <1>6 DEF IndInv

(* It ends. *)
LEMMA EndReadInd ==
    ASSUME IndInv, NEW p \in Procs, EndRead(p)
    PROVE  IndInv'
  <1>1. TypeOK /\ LocksOK /\ FileOK /\ UsersOK /\ NumbersOK
    BY DEF IndInv
  <1> USE ProcsAssumption, FaultsAssumption, BoundsAssumption
  <1>2. TypeOK'
    BY <1>1, TypesKept DEF Next, Open, Ends, Transact
  <1>3. LocksOK'
    BY <1>1 DEF EndRead, fileVars, regionVars, lockVars, openVars, writeVars,
        TypeOK, LocksOK, Opening
  <1>4. FileOK'
    BY <1>1 DEF EndRead, fileVars, regionVars, lockVars, openVars, writeVars,
        TypeOK, LocksOK, FileOK, SomeInside, Joined, Opening
  <1>5. UsersOK'
    BY <1>1 DEF EndRead, fileVars, regionVars, lockVars, openVars, writeVars,
        TypeOK, LocksOK, UsersOK, SomeInside, Joined, Opening
  <1>6. NumbersOK'
    BY <1>1 DEF EndRead, fileVars, regionVars, lockVars, openVars, writeVars,
        TypeOK, LocksOK, FileOK, UsersOK, NumbersOK, SomeInside, Joined,
        Newest, Txnids, Opening
  <1> QED
    BY <1>2, <1>3, <1>4, <1>5, <1>6 DEF IndInv

(* The writer's number is the next one, of a dead writer's too. *)
LEMMA BeginWriteInd ==
    ASSUME IndInv, NEW p \in Procs, BeginWrite(p)
    PROVE  IndInv'
  <1>1. TypeOK /\ LocksOK /\ FileOK /\ UsersOK /\ NumbersOK
    BY DEF IndInv
  <1> USE ProcsAssumption, FaultsAssumption, BoundsAssumption
  <1>2. TypeOK'
    BY <1>1, TypesKept DEF Next, Open, Ends, Transact
  <1>3. LocksOK'
    BY <1>1 DEF BeginWrite, At, fileVars, lockVars, openVars, Newest, TypeOK,
        LocksOK, Opening
  <1>4. FileOK'
    BY <1>1 DEF BeginWrite, At, fileVars, lockVars, openVars, Newest, TypeOK,
        LocksOK, FileOK, SomeInside, Joined, Opening
  <1>5. UsersOK'
    BY <1>1 DEF BeginWrite, At, fileVars, lockVars, openVars, Newest, TypeOK,
        LocksOK, UsersOK, SomeInside, Joined, Opening
  <1>6. NumbersOK'
    BY <1>1 DEF BeginWrite, At, fileVars, lockVars, openVars, Newest, TypeOK,
        LocksOK, FileOK, UsersOK, NumbersOK, SomeInside, Joined, Txnids,
        Opening
  <1> QED
    BY <1>2, <1>3, <1>4, <1>5, <1>6 DEF IndInv

(* The commit: the meta page of the new number. *)
LEMMA WriteMetaInd ==
    ASSUME IndInv, NEW p \in Procs, WriteMeta(p)
    PROVE  IndInv'
  <1>1. TypeOK /\ LocksOK /\ FileOK /\ UsersOK /\ NumbersOK
    BY DEF IndInv
  <1> USE ProcsAssumption, FaultsAssumption, BoundsAssumption
  <1>2. TypeOK'
    BY <1>1, TypesKept DEF Next, Open, Ends, Transact
  <1>3. LocksOK'
    BY <1>1 DEF WriteMeta, regionVars, lockVars, openVars, TypeOK, LocksOK,
        Opening
  <1>4. FileOK'
    BY <1>1 DEF WriteMeta, regionVars, lockVars, openVars, TypeOK, LocksOK,
        FileOK, SomeInside, Joined, Opening
  <1>5. UsersOK'
    BY <1>1 DEF WriteMeta, regionVars, lockVars, openVars, TypeOK, LocksOK,
        UsersOK, SomeInside, Joined, Opening
  <1>6. NumbersOK'
    BY <1>1 DEF WriteMeta, regionVars, lockVars, openVars, TypeOK, LocksOK,
        FileOK, UsersOK, NumbersOK, SomeInside, Joined, Newest, Txnids, Opening
  <1> QED
    BY <1>2, <1>3, <1>4, <1>5, <1>6 DEF IndInv

(* The number is published, or the transaction is aborted. *)
LEMMA EndWriteInd ==
    ASSUME IndInv, NEW p \in Procs, EndWrite(p)
    PROVE  IndInv'
  <1>1. TypeOK /\ LocksOK /\ FileOK /\ UsersOK /\ NumbersOK
    BY DEF IndInv
  <1> USE ProcsAssumption, FaultsAssumption, BoundsAssumption
  <1>2. TypeOK'
    BY <1>1, TypesKept DEF Next, Open, Ends, Transact
  <1>3. LocksOK'
    BY <1>1 DEF EndWrite, fileVars, lockVars, openVars, TypeOK, LocksOK,
        Opening
  <1>4. FileOK'
    BY <1>1 DEF EndWrite, fileVars, lockVars, openVars, TypeOK, LocksOK,
        FileOK, SomeInside, Joined, Opening
  <1>5. UsersOK'
    BY <1>1 DEF EndWrite, fileVars, lockVars, openVars, TypeOK, LocksOK,
        UsersOK, SomeInside, Joined, Opening
  <1>6. NumbersOK'
    BY <1>1 DEF EndWrite, fileVars, lockVars, openVars, TypeOK, LocksOK,
        FileOK, UsersOK, NumbersOK, SomeInside, Joined, Newest, Txnids, Opening
  <1> QED
    BY <1>2, <1>3, <1>4, <1>5, <1>6 DEF IndInv

LEMMA InitInd == Init => IndInv
  <1> SUFFICES ASSUME Init PROVE IndInv
    OBVIOUS
  <1> USE ProcsAssumption, FaultsAssumption, BoundsAssumption
  <1>1. /\ committed \in {0, 1} /\ metas[0] = 0 /\ metas[1] = committed
        /\ mti_txnid \in {0, 1} /\ {0, 1} \subseteq Txnids
    BY DEF Init, Txnids
  <1>2. TypeOK
    <2>1. metas \in [0..1 -> Txnids]
      BY <1>1 DEF Init
    <2>2. /\ pc \in [Procs -> {"closed"}] /\ excl \in [Procs -> -1..1]
          /\ reading \in [Procs -> {None}]
      BY DEF Init
    <2>3. deaths \in 0..MaxDeaths
      BY DEF Init
    <2>4. mti_magic \in BOOLEAN /\ written \in BOOLEAN /\ file \in {"none", "valid"}
      BY Zenon DEF Init
    <2>5. {0, 1} \subseteq Txnids
      BY <1>1
    <2> QED
      BY <1>1, <2>1, <2>2, <2>3, <2>4, <2>5 DEF Init, TypeOK, Opening
  <1>3. LocksOK /\ FileOK /\ UsersOK
    BY DEF Init, LocksOK, FileOK, UsersOK, SomeInside, Joined
  <1>4. NumbersOK
    BY <1>1 DEF Init, NumbersOK, SomeInside, Joined, Newest
  <1> QED
    BY <1>2, <1>3, <1>4 DEF IndInv

LEMMA NextInd == IndInv /\ [Next]_vars /\ ~misled' => IndInv'
  <1> SUFFICES ASSUME IndInv, [Next]_vars, ~misled' PROVE IndInv'
    OBVIOUS
  <1>1. ASSUME NEW p \in Procs, Open(p) PROVE IndInv'
    BY <1>1, TryExclusiveInd, InitRegionInd, JoinInd, OpenDataInd,
       ReadHeaderInd,
       InitMetaInd, MapFileInd, ShareTxnidInd, DowngradeInd, OpenedInd DEF Open
  <1>2. ASSUME NEW p \in Procs, Ends(p) PROVE IndInv'
    BY <1>2, CloseInd, UnlockInd, HandlesClosedInd, FileClosedInd, GoneInd
    DEF Ends
  <1>3. ASSUME NEW p \in Procs, Transact(p) PROVE IndInv'
    BY <1>3, BeginReadInd, EndReadInd, BeginWriteInd, WriteMetaInd, EndWriteInd
    DEF Transact
  <1>4. ASSUME NEW p \in Procs,
               StartOpen(p) \/ WaitShared(p) \/ Fail(p) \/ AskClose(p) \/ Die(p)
        PROVE  IndInv'
    BY <1>4, StartOpenInd, WaitSharedInd, FailInd, AskCloseInd, DieInd
  <1>5. CASE UNCHANGED vars
    BY <1>5 DEF vars, fileVars, regionVars, lockVars, openVars, writeVars,
        IndInv, TypeOK, LocksOK, FileOK, UsersOK, NumbersOK, SomeInside, Joined, Newest
  <1> QED
    BY <1>1, <1>2, <1>3, <1>4, <1>5 DEF Next

(* Who has joined the dead stays, and nothing is said of what follows.     *)
LEMMA MisledStays == TypeOK /\ misled /\ [Next]_vars => misled'
  <1> SUFFICES ASSUME misled, [Next]_vars PROVE misled'
    OBVIOUS
  <1>1. ASSUME NEW p \in Procs, Open(p) PROVE misled'
    BY <1>1 DEF Open, TryExclusive, InitRegion, Join, OpenData, ReadHeader, InitMeta, MapFile,
        ShareTxnid, Downgrade, Opened
  <1>2. ASSUME NEW p \in Procs, Ends(p) \/ Transact(p) PROVE misled'
    BY <1>2 DEF Ends, Close, Unlock, HandlesClosed, FileClosed, Gone, Transact, BeginRead,
        EndRead, BeginWrite, WriteMeta, EndWrite
  <1>3. ASSUME NEW p \in Procs,
               StartOpen(p) \/ WaitShared(p) \/ Fail(p) \/ AskClose(p) \/ Die(p)
        PROVE  misled'
    BY <1>3 DEF StartOpen, WaitShared, Fail, AskClose, Die
  <1> QED
    BY <1>1, <1>2, <1>3 DEF Next, vars

Sure == TypeOK /\ (misled \/ IndInv)

LEMMA Invariance == Spec => []Sure
  <1>1. Init => Sure
    BY InitInd DEF Sure, IndInv
  <1>2. Sure /\ [Next]_vars => Sure'
    BY TypesKept, NextInd, MisledStays DEF Sure
  <1> QED
    BY <1>1, <1>2, PTL DEF Spec

(* Whoever opens, fails or dies at whatever step of mdb_env_open, and in   *)
(* whatever order Windows closes the handles of the dead, no commit is     *)
(* undone and no number is used twice: meta pages are written anew only by *)
(* who is alone and before any commit, and who joins somebody inside finds *)
(* the number of the last commit in mti_txnid.  Only who joins when none   *)
(* but the dead have handles of the mutexes may find something else.       *)
THEOREM OpeningLosesNothing == Spec => []NothingLost
  <1>1. Sure => NothingLost
    BY DEF Sure, IndInv, NumbersOK, NothingLost
  <1> QED
    BY <1>1, Invariance, PTL

-----------------------------------------------------------------------------
(* Refinement.  What SharedEnv sees of the state, element by element.      *)
Published == IF SomeInside THEN mti_txnid ELSE committed
Pin(q) == IF q \in counted THEN reading[q] ELSE None

(* A step that SharedEnv does not see, or sees as a publication.           *)
Quiet ==
    /\ committed' = committed
    /\ Published' \in {Published, committed'}
    /\ \A q \in Procs : /\ reading'[q] # None <=> reading[q] # None
                        /\ Pin(q)' = Pin(q)

LEMMA MappedVars ==
    ASSUME IndInv, IndInv'
    PROVE  /\ Env!vars = <<committed, Published, {q \in Procs : reading[q] # None},
                           [q \in Procs |-> Pin(q)], misled>>
           /\ Env!vars' = <<committed', Published', {q \in Procs : reading'[q] # None},
                            [q \in Procs |-> Pin(q)'], misled'>>
  <1>1. /\ Inside = {} <=> ~SomeInside
        /\ Inside' = {} <=> ~SomeInside'
    BY DEF IndInv, TypeOK, Inside, SomeInside, Joined
  <1> QED
    BY <1>1 DEF Env!vars, Published, Pin

LEMMA QuietRefines ==
    ASSUME IndInv, IndInv', Quiet, ~misled, ~misled'
    PROVE  [Env!Next]_(Env!vars)
  <1>1. /\ {q \in Procs : reading'[q] # None} = {q \in Procs : reading[q] # None}
        /\ [q \in Procs |-> Pin(q)'] = [q \in Procs |-> Pin(q)]
    BY DEF Quiet
  <1>2. misled' = misled
    BY DEF IndInv, TypeOK
  <1>3. CASE Published' = Published
    BY <1>1, <1>2, <1>3, MappedVars DEF Quiet
  <1>4. CASE Published' = committed'
    BY <1>1, <1>4, MappedVars DEF Quiet, Env!Next, Env!Kept, Env!Publish, Env!vars
  <1> QED
    BY <1>3, <1>4 DEF Quiet

(* The steps that those inside see nothing of, or a publication.            *)
LEMMA StartOpenQuiet ==
    ASSUME IndInv, NEW p \in Procs, StartOpen(p)
    PROVE  Quiet
  <1>1. TypeOK /\ LocksOK /\ FileOK /\ UsersOK /\ NumbersOK
    BY DEF IndInv
  <1> QED
    BY <1>1, ProcsAssumption, FaultsAssumption, BoundsAssumption DEF StartOpen,
        At, Goto, fileVars, regionVars, lockVars, writeVars, TypeOK, Txnids,
        LocksOK, FileOK, UsersOK, NumbersOK, Quiet, Published, Pin, SomeInside,
        Joined, Newest, Opening

LEMMA TryExclusiveQuiet ==
    ASSUME IndInv, NEW p \in Procs, TryExclusive(p)
    PROVE  Quiet
  <1>1. TypeOK /\ LocksOK /\ FileOK /\ UsersOK /\ NumbersOK
    BY DEF IndInv
  <1> QED
    BY <1>1, ProcsAssumption, FaultsAssumption, BoundsAssumption DEF
        TryExclusive, At, Goto, fileVars, regionVars, writeVars, TypeOK,
        Txnids, LocksOK, FileOK, UsersOK, NumbersOK, Quiet, Published, Pin,
        SomeInside, Joined, Newest, Opening

LEMMA WaitSharedQuiet ==
    ASSUME IndInv, NEW p \in Procs, WaitShared(p)
    PROVE  Quiet
  <1>1. TypeOK /\ LocksOK /\ FileOK /\ UsersOK /\ NumbersOK
    BY DEF IndInv
  <1> QED
    BY <1>1, ProcsAssumption, FaultsAssumption, BoundsAssumption DEF
        WaitShared, At, Goto, fileVars, regionVars, writeVars, TypeOK, Txnids,
        LocksOK, FileOK, UsersOK, NumbersOK, Quiet, Published, Pin, SomeInside,
        Joined, Newest, Opening

LEMMA InitRegionQuiet ==
    ASSUME IndInv, NEW p \in Procs, InitRegion(p)
    PROVE  Quiet
  <1>1. TypeOK /\ LocksOK /\ FileOK /\ UsersOK /\ NumbersOK
    BY DEF IndInv
  <1> QED
    BY <1>1, ProcsAssumption, FaultsAssumption, BoundsAssumption DEF
        InitRegion, At, Goto, fileVars, writeVars, TypeOK, Txnids, LocksOK,
        FileOK, UsersOK, NumbersOK, Quiet, Published, Pin, SomeInside, Joined,
        Newest, Opening

LEMMA JoinQuiet ==
    ASSUME IndInv, NEW p \in Procs, Join(p), ~misled'
    PROVE  Quiet
  <1>1. TypeOK /\ LocksOK /\ FileOK /\ UsersOK /\ NumbersOK
    BY DEF IndInv
  <1> QED
    BY <1>1, ProcsAssumption, FaultsAssumption, BoundsAssumption DEF Join, Inside, At,
        Goto, fileVars, regionVars, writeVars, TypeOK, Txnids, LocksOK, FileOK,
        UsersOK, NumbersOK, Quiet, Published, Pin, SomeInside, Joined, Newest,
        Opening

LEMMA OpenDataQuiet ==
    ASSUME IndInv, NEW p \in Procs, OpenData(p)
    PROVE  Quiet
  <1>1. TypeOK /\ LocksOK /\ FileOK /\ UsersOK /\ NumbersOK
    BY DEF IndInv
  <1> QED
    BY <1>1, ProcsAssumption, FaultsAssumption, BoundsAssumption DEF OpenData,
        At, Goto, regionVars, lockVars, writeVars, TypeOK, Txnids, LocksOK,
        FileOK, UsersOK, NumbersOK, Quiet, Published, Pin, SomeInside, Joined,
        Newest, Opening

LEMMA ReadHeaderQuiet ==
    ASSUME IndInv, NEW p \in Procs, ReadHeader(p)
    PROVE  Quiet
  <1>1. TypeOK /\ LocksOK /\ FileOK /\ UsersOK /\ NumbersOK
    BY DEF IndInv
  <1> QED
    BY <1>1, ProcsAssumption, FaultsAssumption, BoundsAssumption DEF
        ReadHeader, At, Goto, fileVars, regionVars, lockVars, writeVars,
        TypeOK, Txnids, LocksOK, FileOK, UsersOK, NumbersOK, Quiet, Published,
        Pin, SomeInside, Joined, Newest, Opening

LEMMA InitMetaQuiet ==
    ASSUME IndInv, NEW p \in Procs, InitMeta(p)
    PROVE  Quiet
  <1>1. TypeOK /\ LocksOK /\ FileOK /\ UsersOK /\ NumbersOK
    BY DEF IndInv
  <1> QED
    BY <1>1, ProcsAssumption, FaultsAssumption, BoundsAssumption DEF InitMeta,
        At, Goto, fileVars, regionVars, lockVars, writeVars, TypeOK, Txnids,
        LocksOK, FileOK, UsersOK, NumbersOK, Quiet, Published, Pin, SomeInside,
        Joined, Newest, Opening

LEMMA MapFileQuiet ==
    ASSUME IndInv, NEW p \in Procs, MapFile(p)
    PROVE  Quiet
  <1>1. TypeOK /\ LocksOK /\ FileOK /\ UsersOK /\ NumbersOK
    BY DEF IndInv
  <1> QED
    BY <1>1, ProcsAssumption, FaultsAssumption, BoundsAssumption DEF MapFile,
        At, Goto, fileVars, regionVars, lockVars, writeVars, TypeOK, Txnids,
        LocksOK, FileOK, UsersOK, NumbersOK, Quiet, Published, Pin, SomeInside,
        Joined, Newest, Opening

LEMMA ShareTxnidQuiet ==
    ASSUME IndInv, NEW p \in Procs, ShareTxnid(p)
    PROVE  Quiet
  <1>1. TypeOK /\ LocksOK /\ FileOK /\ UsersOK /\ NumbersOK
    BY DEF IndInv
  <1> QED
    BY <1>1, ProcsAssumption, FaultsAssumption, BoundsAssumption DEF
        ShareTxnid, At, Goto, fileVars, lockVars, writeVars, Newest, TypeOK,
        Txnids, LocksOK, FileOK, UsersOK, NumbersOK, Quiet, Published, Pin,
        SomeInside, Joined, Opening

LEMMA DowngradeQuiet ==
    ASSUME IndInv, NEW p \in Procs, Downgrade(p)
    PROVE  Quiet
  <1>1. TypeOK /\ LocksOK /\ FileOK /\ UsersOK /\ NumbersOK
    BY DEF IndInv
  <1> QED
    BY <1>1, ProcsAssumption, FaultsAssumption, BoundsAssumption DEF Downgrade,
        At, Goto, fileVars, regionVars, writeVars, TypeOK, Txnids, LocksOK,
        FileOK, UsersOK, NumbersOK, Quiet, Published, Pin, SomeInside, Joined,
        Newest, Opening

LEMMA OpenedQuiet ==
    ASSUME IndInv, NEW p \in Procs, Opened(p)
    PROVE  Quiet
  <1>1. TypeOK /\ LocksOK /\ FileOK /\ UsersOK /\ NumbersOK
    BY DEF IndInv
  <1> QED
    BY <1>1, ProcsAssumption, FaultsAssumption, BoundsAssumption DEF Opened,
        At, Goto, fileVars, regionVars, lockVars, writeVars, TypeOK, Txnids,
        LocksOK, FileOK, UsersOK, NumbersOK, Quiet, Published, Pin, SomeInside,
        Joined, Newest, Opening

LEMMA FailQuiet ==
    ASSUME IndInv, NEW p \in Procs, Fail(p)
    PROVE  Quiet
  <1>1. TypeOK /\ LocksOK /\ FileOK /\ UsersOK /\ NumbersOK
    BY DEF IndInv
  <1> QED
    BY <1>1, ProcsAssumption, FaultsAssumption, BoundsAssumption DEF Fail,
        Goto, fileVars, regionVars, lockVars, writeVars, Opening, TypeOK,
        Txnids, LocksOK, FileOK, UsersOK, NumbersOK, Quiet, Published, Pin,
        SomeInside, Joined, Newest

LEMMA AskCloseQuiet ==
    ASSUME IndInv, NEW p \in Procs, AskClose(p)
    PROVE  Quiet
  <1>1. TypeOK /\ LocksOK /\ FileOK /\ UsersOK /\ NumbersOK
    BY DEF IndInv
  <1> QED
    BY <1>1, ProcsAssumption, FaultsAssumption, BoundsAssumption DEF AskClose,
        At, Goto, fileVars, regionVars, lockVars, writeVars, TypeOK, Txnids,
        LocksOK, FileOK, UsersOK, NumbersOK, Quiet, Published, Pin, SomeInside,
        Joined, Newest, Opening

LEMMA CloseQuiet ==
    ASSUME IndInv, NEW p \in Procs, Close(p)
    PROVE  Quiet
  <1>1. TypeOK /\ LocksOK /\ FileOK /\ UsersOK /\ NumbersOK
    BY DEF IndInv
  <1> QED
    BY <1>1, ProcsAssumption, FaultsAssumption, BoundsAssumption DEF Close, At,
        Goto, fileVars, MutexWithout, TypeOK, Txnids, LocksOK, FileOK, UsersOK,
        NumbersOK, Quiet, Published, Pin, SomeInside, Joined, Newest, Opening

LEMMA UnlockQuiet ==
    ASSUME IndInv, NEW p \in Procs, Unlock(p)
    PROVE  Quiet
  <1>1. TypeOK /\ LocksOK /\ FileOK /\ UsersOK /\ NumbersOK
    BY DEF IndInv
  <1> QED
    BY <1>1, ProcsAssumption, FaultsAssumption, BoundsAssumption DEF Unlock,
        At, Goto, fileVars, regionVars, writeVars, Released, TypeOK, Txnids,
        LocksOK, FileOK, UsersOK, NumbersOK, Quiet, Published, Pin, SomeInside,
        Joined, Newest, Opening

LEMMA HandlesClosedQuiet ==
    ASSUME IndInv, NEW p \in Procs, HandlesClosed(p)
    PROVE  Quiet
  <1>1. TypeOK /\ LocksOK /\ FileOK /\ UsersOK /\ NumbersOK
    BY DEF IndInv
  <1> QED
    BY <1>1, ProcsAssumption, FaultsAssumption, BoundsAssumption DEF
        HandlesClosed, At, fileVars, regionVars, openVars, MutexWithout,
        TypeOK, Txnids, LocksOK, FileOK, UsersOK, NumbersOK, Quiet, Published,
        Pin, SomeInside, Joined, Newest, Opening

LEMMA FileClosedQuiet ==
    ASSUME IndInv, NEW p \in Procs, FileClosed(p)
    PROVE  Quiet
  <1>1. TypeOK /\ LocksOK /\ FileOK /\ UsersOK /\ NumbersOK
    BY DEF IndInv
  <1> QED
    BY <1>1, ProcsAssumption, FaultsAssumption, BoundsAssumption DEF
        FileClosed, At, fileVars, regionVars, writeVars, Released, TypeOK,
        Txnids, LocksOK, FileOK, UsersOK, NumbersOK, Quiet, Published, Pin,
        SomeInside, Joined, Newest, Opening

LEMMA GoneQuiet ==
    ASSUME IndInv, NEW p \in Procs, Gone(p)
    PROVE  Quiet
  <1>1. TypeOK /\ LocksOK /\ FileOK /\ UsersOK /\ NumbersOK
    BY DEF IndInv
  <1> QED
    BY <1>1, ProcsAssumption, FaultsAssumption, BoundsAssumption DEF Gone, At,
        Goto, fileVars, regionVars, lockVars, writeVars, TypeOK, Txnids,
        LocksOK, FileOK, UsersOK, NumbersOK, Quiet, Published, Pin, SomeInside,
        Joined, Newest, Opening

LEMMA BeginWriteQuiet ==
    ASSUME IndInv, NEW p \in Procs, BeginWrite(p)
    PROVE  Quiet
  <1>1. TypeOK /\ LocksOK /\ FileOK /\ UsersOK /\ NumbersOK
    BY DEF IndInv
  <1> QED
    BY <1>1, ProcsAssumption, FaultsAssumption, BoundsAssumption DEF
        BeginWrite, At, fileVars, lockVars, openVars, Newest, TypeOK, Txnids,
        LocksOK, FileOK, UsersOK, NumbersOK, Quiet, Published, Pin, SomeInside,
        Joined, Opening

LEMMA EndWriteQuiet ==
    ASSUME IndInv, NEW p \in Procs, EndWrite(p)
    PROVE  Quiet
  <1>1. TypeOK /\ LocksOK /\ FileOK /\ UsersOK /\ NumbersOK
    BY DEF IndInv
  <1> QED
    BY <1>1, ProcsAssumption, FaultsAssumption, BoundsAssumption DEF EndWrite,
        fileVars, lockVars, openVars, TypeOK, Txnids, LocksOK, FileOK, UsersOK,
        NumbersOK, Quiet, Published, Pin, SomeInside, Joined, Newest, Opening

(* A reader starts from what is published, and pins it.                    *)
LEMMA BeginReadRefines ==
    ASSUME IndInv, IndInv', NEW p \in Procs, BeginRead(p)
    PROVE  Env!Begin(p)
  <1>1. TypeOK /\ LocksOK /\ NumbersOK /\ TypeOK'
    BY DEF IndInv
  <1>2. SomeInside /\ SomeInside' /\ mti_txnid # None
    BY <1>1, ProcsAssumption, BoundsAssumption
    DEF TypeOK, Txnids, LocksOK, BeginRead, At, SomeInside, Joined, lockVars,
        openVars
  <1>3. /\ Published = mti_txnid /\ Published' = Published /\ committed' = committed
        /\ reading' = [reading EXCEPT ![p] = mti_txnid] /\ reading[p] = None
        /\ counted' = counted \cup {p}
    BY <1>2 DEF BeginRead, Published
  <1>4. [q \in Procs |-> Pin(q)]' = [[q \in Procs |-> Pin(q)] EXCEPT ![p] = Published]
    BY <1>1, <1>3 DEF Pin, TypeOK
  <1>5. {q \in Procs : reading[q] # None}' = {q \in Procs : reading[q] # None} \cup {p}
    BY <1>1, <1>2, <1>3 DEF TypeOK
  <1>6. Inside # {} /\ Inside' # {}
    BY <1>2 DEF Inside, SomeInside, Joined
  <1> QED
    BY <1>3, <1>4, <1>5, <1>6 DEF Env!Begin, Published, Pin, BeginRead

(* A reader ends of itself or with its process.                            *)
LEMMA EndReadRefines ==
    ASSUME IndInv, IndInv', NEW p \in Procs, EndRead(p) \/ Die(p)
    PROVE  Env!End(p)
  <1>1. TypeOK
    BY DEF IndInv
  <1>2. /\ handles' = handles /\ excl' = excl /\ mti_txnid' = mti_txnid
        /\ committed' = committed /\ reading' = [reading EXCEPT ![p] = None]
        /\ counted' \in {counted, counted \ {p}}
    BY DEF EndRead, Die, lockVars, regionVars, openVars
  <1>3. Inside' = Inside
    BY <1>2 DEF Inside
  <1>4. [q \in Procs |-> Pin(q)]' = [[q \in Procs |-> Pin(q)] EXCEPT ![p] = None]
    BY <1>1, <1>2 DEF Pin, TypeOK
  <1>5. {q \in Procs : reading[q] # None}' = {q \in Procs : reading[q] # None} \ {p}
    BY <1>1, <1>2 DEF TypeOK
  <1> QED
    BY <1>2, <1>3, <1>4, <1>5 DEF Env!End, Pin

(* A commit follows the one published.                                     *)
LEMMA WriteMetaRefines ==
    ASSUME IndInv, IndInv', NEW p \in Procs, WriteMeta(p)
    PROVE  Env!Commit
  <1>1. TypeOK /\ LocksOK /\ UsersOK /\ NumbersOK
    BY DEF IndInv
  <1>2. SomeInside /\ wmutex # None /\ ~written
    <2>1. wmutex = p /\ ~written /\ pc[p] = "open"
      BY <1>1 DEF UsersOK, WriteMeta
    <2> QED
      BY <1>1, <2>1, ProcsAssumption DEF LocksOK, SomeInside, Joined
  <1>3. mti_txnid = committed
    BY <1>1, <1>2 DEF NumbersOK, WriteMeta
  <1>4. /\ handles' = handles /\ excl' = excl /\ mti_txnid' = mti_txnid
        /\ counted' = counted /\ reading' = reading /\ committed' = committed + 1
    BY DEF WriteMeta, regionVars, lockVars, openVars
  <1>5. Inside' = Inside /\ Inside # {}
    BY <1>2, <1>4 DEF Inside, SomeInside, Joined
  <1> QED
    BY <1>3, <1>4, <1>5 DEF Env!Commit

LEMMA KeptRefines ==
    ASSUME IndInv, ~misled, [Next]_vars, ~misled'
    PROVE  [Env!Next]_(Env!vars)
  <1>0. IndInv'
    BY NextInd
  <1>1. ASSUME NEW p \in Procs, Open(p) PROVE Quiet
    BY <1>1, TryExclusiveQuiet, InitRegionQuiet, JoinQuiet, OpenDataQuiet,
       ReadHeaderQuiet, InitMetaQuiet, MapFileQuiet, ShareTxnidQuiet,
       DowngradeQuiet, OpenedQuiet DEF Open
  <1>2. ASSUME NEW p \in Procs, Ends(p) PROVE Quiet
    BY <1>2, CloseQuiet, UnlockQuiet, HandlesClosedQuiet, FileClosedQuiet,
       GoneQuiet DEF Ends
  <1>3. ASSUME NEW p \in Procs,
               StartOpen(p) \/ WaitShared(p) \/ Fail(p) \/ AskClose(p)
        PROVE  Quiet
    BY <1>3, StartOpenQuiet, WaitSharedQuiet, FailQuiet, AskCloseQuiet
  <1>4. ASSUME NEW p \in Procs, Die(p) \/ Transact(p)
        PROVE  Quiet \/ Env!Next
    <2>1. Env!Begin(p) \/ Env!End(p) \/ Env!Commit => Env!Next
      BY DEF Env!Next, Env!Kept
    <2> QED
      BY <1>0, <1>4, <2>1, BeginReadRefines, EndReadRefines, WriteMetaRefines,
         BeginWriteQuiet, EndWriteQuiet DEF Transact
  <1>5. ASSUME UNCHANGED vars PROVE Quiet
    BY <1>5
    DEF vars, fileVars, regionVars, lockVars, openVars, writeVars, Quiet,
        Published, Pin, SomeInside, Joined
  <1> QED
    BY <1>0, <1>1, <1>2, <1>3, <1>4, <1>5, QuietRefines DEF Next

LEMMA StepRefines == Sure /\ [Next]_vars => [Env!Next]_(Env!vars)
  <1> SUFFICES ASSUME Sure, [Next]_vars PROVE [Env!Next]_(Env!vars)
    OBVIOUS
  <1>1. CASE misled'
    BY <1>1 DEF Env!Next
  <1>2. CASE ~misled'
    BY <1>2, KeptRefines, MisledStays DEF Sure
  <1> QED
    BY <1>1, <1>2

(* To the processes inside, an opening, its failure and its process's      *)
(* death, in whatever order its handles are closed, are one harmless step: *)
(* it never empties the reader table under a reader, and who joins         *)
(* somebody inside starts from the last commit.                            *)
THEOREM OpenImplementsSharedEnv == Spec => ImplementsSharedEnv
  <1>1. Init => Env!Init
    <2> SUFFICES ASSUME Init PROVE Env!Init
      OBVIOUS
    <2>1. committed \in Nat /\ Inside = {}
      BY DEF Init, Inside
    <2> QED
      BY <2>1, ProcsAssumption DEF Init, Env!Init
  <1>2. Sure /\ [Next]_vars => [Env!Next]_(Env!vars)
    BY StepRefines
  <1> QED
    BY <1>1, <1>2, Invariance, PTL DEF Spec, ImplementsSharedEnv, Env!Spec
=============================================================================
