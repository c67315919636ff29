------------------------ MODULE MasterRegistryProofs ------------------------
(***************************************************************************)
(* Proofs about MasterRegistry, for any handlers, workers, names and       *)
(* databases, calls that fail or time out, and workers that die and come   *)
(* back.                                                                   *)
(*                                                                         *)
(* What a worker was told agrees with the registry because its entry is    *)
(* the only one and its calls are made by the one handler that holds the   *)
(* guard: between the change of the entry and the answer of the worker no  *)
(* other handler sees or changes either.                                   *)
(***************************************************************************)
EXTENDS MasterRegistry, WellFoundedInduction, SequenceTheorems, TLAPS

Entry == [worker : Workers, _isActive : BOOLEAN, _dbName : AnyDb]
Sending == {"sendSet", "sendRelease"}

(* Who holds the guard: a handler that calls a worker or was stopped while *)
(* it did, or the ping thread during its round.                            *)
GuardOK ==
    /\ \A h \in Handlers : pc[h] \in Holding <=> g_Guard = h
    /\ ping = "call" <=> g_Guard = PingThread
    /\ IF ping = "call" THEN itr \in 1..Len(_nodes) ELSE itr = 0

(* What a handler works on. *)
ArgsOK ==
    \A h \in Handlers :
        /\ pc[h] \in {"exists", "push"} => arg[h] \in Workers
        /\ pc[h] \in {"get", "release"} \cup Sending => arg[h] \in AnyDb
        /\ pc[h] \in Holding \ {"thrown"} => pObj[h] \in Workers

(* A worker that waits for the reply to its registration before it can be  *)
(* started again has one entry at most.                                    *)
OneEntry ==
    /\ \A i, j \in DOMAIN _nodes :
          _nodes[i].worker = _nodes[j].worker /\ _nodes[i].worker \notin QuickRestart =>
              i = j
    /\ \A h, k \in Handlers :
          /\ pc[h] \in {"exists", "push"} /\ pc[k] \in {"exists", "push"}
          /\ arg[h] = arg[k] /\ arg[h] \notin QuickRestart
          => h = k
    /\ \A h \in Handlers, i \in DOMAIN _nodes :
          pc[h] = "push" /\ arg[h] \notin QuickRestart => _nodes[i].worker # arg[h]

(* A worker that was started anew has been told nothing. *)
FreshOK == \A w \in Workers : ~up[w] => _dbName[w] = NoDb

(* While a handler calls a worker, the entry says what it will tell it.    *)
SendingOK ==
    \A h \in Handlers, i \in DOMAIN _nodes :
        _nodes[i].worker = pObj[h] /\ pObj[h] \notin QuickRestart =>
            /\ pc[h] = "sendSet" => _nodes[i]._dbName = arg[h]
            /\ pc[h] = "sendRelease" => ~_nodes[i]._isActive

(* Otherwise the worker has been told so, unless a call has failed, after  *)
(* which the guard is never free again.                                    *)
Agree ==
    ~Wedged =>
        \A i \in DOMAIN _nodes :
            LET w == _nodes[i].worker IN
            /\ up[w] /\ _nodes[i]._isActive /\ w \notin QuickRestart
            /\ \A h \in Handlers : pc[h] \in Sending => pObj[h] # w
            => _dbName[w] \in {_nodes[i]._dbName, NoDb}

IndInv ==
    /\ TypeOK /\ GuardOK /\ ArgsOK /\ OneEntry /\ FreshOK
    /\ SendingOK /\ Agree /\ ActiveIffAssigned

-----------------------------------------------------------------------------
LEMMA DomainIs == TypeOK => DOMAIN _nodes = 1..Len(_nodes)
  BY DEF TypeOK

LEMMA EntryIs ==
    ASSUME TypeOK, NEW i \in DOMAIN _nodes
    PROVE  _nodes[i] \in Entry /\ _nodes[i].worker \in Workers
  <1>1. _nodes \in Seq(Entry)
    BY DEF TypeOK, Entry
  <1>2. _nodes[i] \in Entry
    BY <1>1, DomainIs, ElementOfSeq
  <1> QED
    BY <1>2 DEF Entry

(* The three ways in which the registry changes. *)
LEMMA Appended ==
    ASSUME TypeOK, NEW w \in Workers, _nodes' = Append(_nodes, NewNode(w))
    PROVE  /\ _nodes' \in Seq(Entry) /\ Len(_nodes') = Len(_nodes) + 1
           /\ Len(_nodes) \in Nat /\ DOMAIN _nodes' = 1..(Len(_nodes) + 1)
           /\ \A i \in 1..Len(_nodes) : _nodes'[i] = _nodes[i]
           /\ LET e == _nodes'[Len(_nodes) + 1] IN
                 e.worker = w /\ ~e._isActive /\ e._dbName = NoDb
  <1>1. _nodes \in Seq(Entry)
    BY DEF TypeOK, Entry
  <1>2. /\ NewNode(w) \in Entry /\ NewNode(w).worker = w
        /\ ~NewNode(w)._isActive /\ NewNode(w)._dbName = NoDb
    BY DEF NewNode, Entry, AnyDb
  <1> QED
    BY <1>1, <1>2, AppendProperties

LEMMA Replaced ==
    ASSUME TypeOK, NEW i \in DOMAIN _nodes, NEW e \in Entry,
           _nodes' = [_nodes EXCEPT ![i] = e]
    PROVE  /\ _nodes' \in Seq(Entry) /\ Len(_nodes') = Len(_nodes)
           /\ DOMAIN _nodes' = 1..Len(_nodes) /\ Len(_nodes) \in Nat
           /\ _nodes'[i] = e /\ i \in 1..Len(_nodes)
           /\ \A j \in 1..Len(_nodes) : j # i => _nodes'[j] = _nodes[j]
  <1>1. _nodes \in Seq(Entry) /\ i \in 1..Len(_nodes)
    BY DEF TypeOK, Entry
  <1> QED
    BY <1>1, ExceptSeq

LEMMA Removed ==
    ASSUME TypeOK, NEW k \in 1..Len(_nodes), _nodes' = RemoveAt(_nodes, k)
    PROVE  /\ _nodes' \in Seq(Entry) /\ Len(_nodes) \in Nat
           /\ Len(_nodes') = Len(_nodes) - 1 /\ DOMAIN _nodes' = 1..(Len(_nodes) - 1)
           /\ \A j \in 1..(Len(_nodes) - 1) :
                 _nodes'[j] = IF j < k THEN _nodes[j] ELSE _nodes[j + 1]
  <1> DEFINE a == SubSeq(_nodes, 1, k - 1)
             b == SubSeq(_nodes, k + 1, Len(_nodes))
  <1>1. _nodes \in Seq(Entry) /\ Len(_nodes) \in Nat /\ k \in Nat
    BY DEF TypeOK, Entry
  <1>2. /\ a \in Seq(Entry) /\ Len(a) = k - 1
        /\ \A j \in 1..(k - 1) : a[j] = _nodes[j]
    BY <1>1, SubSeqProperties
  <1>3. /\ b \in Seq(Entry) /\ Len(b) = Len(_nodes) - k
        /\ \A j \in 1..(Len(_nodes) - k) : b[j] = _nodes[k + j]
    BY <1>1, SubSeqProperties
  <1>4. _nodes' = a \o b
    BY DEF RemoveAt
  <1> HIDE DEF a, b
  <1>5. /\ _nodes' \in Seq(Entry) /\ Len(_nodes') = Len(_nodes) - 1
        /\ \A j \in 1..(Len(_nodes) - 1) :
              _nodes'[j] = IF j <= k - 1 THEN a[j] ELSE b[j - (k - 1)]
    <2>1. /\ a \o b \in Seq(Entry) /\ Len(a \o b) = Len(a) + Len(b)
          /\ \A j \in 1..(Len(a) + Len(b)) :
                (a \o b)[j] = IF j <= Len(a) THEN a[j] ELSE b[j - Len(a)]
      BY <1>2, <1>3, ConcatProperties
    <2>2. Len(a) + Len(b) = Len(_nodes) - 1
      BY <1>1, <1>2, <1>3
    <2> QED
      BY <1>2, <1>4, <2>1, <2>2
  <1>6. ASSUME NEW j \in 1..(Len(_nodes) - 1)
        PROVE  _nodes'[j] = IF j < k THEN _nodes[j] ELSE _nodes[j + 1]
    <2>1. CASE j < k
      BY <1>1, <1>2, <1>5, <2>1
    <2>2. CASE ~(j < k)
      <3>1. _nodes'[j] = b[j - (k - 1)] /\ j - (k - 1) \in 1..(Len(_nodes) - k)
        BY <1>1, <1>5, <2>2
      <3>2. b[j - (k - 1)] = _nodes[k + (j - (k - 1))] /\ k + (j - (k - 1)) = j + 1
        BY <1>1, <1>3, <3>1
      <3> QED
        BY <2>2, <3>1, <3>2
    <2> QED
      BY <2>1, <2>2
  <1> QED
    BY <1>1, <1>5, <1>6

(* A worker starts and registers. *)
LEMMA StartInd ==
    ASSUME IndInv, NEW w \in Workers, WorkerInit(w)
    PROVE  IndInv'
  <1>1. /\ TypeOK /\ GuardOK /\ ArgsOK /\ OneEntry /\ FreshOK
        /\ SendingOK /\ Agree /\ ActiveIffAssigned /\ DOMAIN _nodes = 1..Len(_nodes)
        /\ \A n \in DOMAIN _nodes : _nodes[n] \in Entry /\ _nodes[n].worker \in Workers
    BY DomainIs, EntryIs DEF IndInv
  <1>2. PICK h \in Handlers : Receive(h, "exists", w)
    BY DEF WorkerInit
  <1>3. /\ ~up[w] /\ (w \in QuickRestart \/ ~Registering(w))
        /\ up' = [up EXCEPT ![w] = TRUE] /\ _dbName' = _dbName
        /\ pc[h] = "idle" /\ pc' = [pc EXCEPT ![h] = "exists"]
        /\ arg' = [arg EXCEPT ![h] = w]
        /\ UNCHANGED <<_nodes, g_Guard, pObj, ping, itr>>
    BY <1>2 DEF WorkerInit, Receive, masterVars, pingVars
  <1>4. TypeOK'
    BY <1>1, <1>2, <1>3
    DEF Registering, TypeOK, ArgsOK, PC, Holding, AnyDb, Nobody, Entry
  <1>5. GuardOK'
    BY <1>1, <1>2, <1>3, ThreadsAssumption
    DEF Registering, TypeOK, GuardOK, Holding
  <1>6. ArgsOK'
    BY <1>1, <1>2, <1>3 DEF Registering, TypeOK, ArgsOK, Holding, Sending
  <1>7. OneEntry'
    BY <1>1, <1>2, <1>3 DEF Registering, TypeOK, OneEntry
  <1>8. FreshOK'
    BY <1>1, <1>2, <1>3 DEF Registering, TypeOK, FreshOK
  <1>9. SendingOK'
    BY <1>1, <1>2, <1>3, ThreadsAssumption
    DEF Registering, TypeOK, SendingOK, Sending, GuardOK, OneEntry, Holding
  <1>10. Agree'
    BY <1>1, <1>2, <1>3, SMTT(30)
    DEF Registering, TypeOK, Agree, Wedged, Sending, FreshOK, SendingOK
  <1>11. ActiveIffAssigned'
    BY <1>1, <1>2, <1>3 DEF Registering, TypeOK, ActiveIffAssigned
  <1> QED
    BY <1>4, <1>5, <1>6, <1>7, <1>8, <1>9, <1>10, <1>11 DEF IndInv

(* A worker dies. *)
LEMMA DieInd ==
    ASSUME IndInv, NEW w \in Workers, WorkerDies(w)
    PROVE  IndInv'
  <1>1. /\ TypeOK /\ GuardOK /\ ArgsOK /\ OneEntry /\ FreshOK
        /\ SendingOK /\ Agree /\ ActiveIffAssigned /\ DOMAIN _nodes = 1..Len(_nodes)
        /\ \A n \in DOMAIN _nodes : _nodes[n] \in Entry /\ _nodes[n].worker \in Workers
    BY DomainIs, EntryIs DEF IndInv
  <1>2. /\ up' = [up EXCEPT ![w] = FALSE] /\ _dbName' = [_dbName EXCEPT ![w] = NoDb]
        /\ UNCHANGED <<_nodes, g_Guard, pc, arg, pObj, ping, itr>>
    BY DEF WorkerDies, masterVars, handlerVars, pingVars
  <1>3. TypeOK'
    BY <1>1, <1>2 DEF TypeOK, ArgsOK, PC, Holding, AnyDb, Nobody, Entry
  <1>4. GuardOK'
    BY <1>1, <1>2, ThreadsAssumption DEF TypeOK, GuardOK, Holding
  <1>5. ArgsOK'
    BY <1>1, <1>2 DEF TypeOK, ArgsOK, Holding, Sending
  <1>6. OneEntry'
    BY <1>1, <1>2 DEF TypeOK, OneEntry
  <1>7. FreshOK'
    BY <1>1, <1>2 DEF TypeOK, FreshOK
  <1>8. SendingOK'
    BY <1>1, <1>2, ThreadsAssumption
    DEF TypeOK, SendingOK, Sending, GuardOK, OneEntry, Holding
  <1>9. Agree'
    BY <1>1, <1>2 DEF TypeOK, Agree, Wedged, Sending, FreshOK, SendingOK
  <1>10. ActiveIffAssigned'
    BY <1>1, <1>2 DEF TypeOK, ActiveIffAssigned
  <1> QED
    BY <1>3, <1>4, <1>5, <1>6, <1>7, <1>8, <1>9, <1>10 DEF IndInv

(* A client asks for a node, or gives one back. *)
LEMMA AskInd ==
    ASSUME IndInv, NEW h \in Handlers, ClientAsks(h)
    PROVE  IndInv'
  <1>1. /\ TypeOK /\ GuardOK /\ ArgsOK /\ OneEntry /\ FreshOK
        /\ SendingOK /\ Agree /\ ActiveIffAssigned /\ DOMAIN _nodes = 1..Len(_nodes)
        /\ \A n \in DOMAIN _nodes : _nodes[n] \in Entry /\ _nodes[n].worker \in Workers
    BY DomainIs, EntryIs DEF IndInv
  <1>2. PICK db \in AnyDb, verb \in {"get", "release"} : Receive(h, verb, db)
    BY DEF ClientAsks
  <1>3. /\ pc[h] = "idle" /\ pc' = [pc EXCEPT ![h] = verb]
        /\ arg' = [arg EXCEPT ![h] = db]
        /\ UNCHANGED <<_nodes, g_Guard, pObj, ping, itr, up, _dbName>>
    BY <1>2 DEF ClientAsks, Receive, masterVars, pingVars, workerVars
  <1>4. TypeOK'
    BY <1>1, <1>2, <1>3 DEF TypeOK, ArgsOK, PC, Holding, AnyDb, Nobody, Entry
  <1>5. GuardOK'
    BY <1>1, <1>2, <1>3, ThreadsAssumption DEF TypeOK, GuardOK, Holding
  <1>6. ArgsOK'
    BY <1>1, <1>2, <1>3 DEF TypeOK, ArgsOK, Holding, Sending
  <1>7. OneEntry'
    BY <1>1, <1>2, <1>3 DEF TypeOK, OneEntry
  <1>8. FreshOK'
    BY <1>1, <1>2, <1>3 DEF TypeOK, FreshOK
  <1>9. SendingOK'
    BY <1>1, <1>2, <1>3, ThreadsAssumption
    DEF TypeOK, SendingOK, Sending, GuardOK, OneEntry, Holding
  <1>10. Agree'
    BY <1>1, <1>2, <1>3 DEF TypeOK, Agree, Wedged, Sending, FreshOK, SendingOK
  <1>11. ActiveIffAssigned'
    BY <1>1, <1>2, <1>3 DEF TypeOK, ActiveIffAssigned
  <1> QED
    BY <1>4, <1>5, <1>6, <1>7, <1>8, <1>9, <1>10, <1>11 DEF IndInv

(* The master looks whether the node is known. *)
LEMMA ExistsInd ==
    ASSUME IndInv, NEW h \in Handlers, ExistsNode(h)
    PROVE  IndInv'
  <1>1. /\ TypeOK /\ GuardOK /\ ArgsOK /\ OneEntry /\ FreshOK
        /\ SendingOK /\ Agree /\ ActiveIffAssigned /\ DOMAIN _nodes = 1..Len(_nodes)
        /\ \A n \in DOMAIN _nodes : _nodes[n] \in Entry /\ _nodes[n].worker \in Workers
    BY DomainIs, EntryIs DEF IndInv
  <1>2. /\ pc[h] = "exists"
        /\ \/ pc' = [pc EXCEPT ![h] = "idle"] /\ arg' = [arg EXCEPT ![h] = Nobody]
           \/ /\ pc' = [pc EXCEPT ![h] = "push"] /\ arg' = arg
              /\ \A i \in DOMAIN _nodes : _nodes[i].worker # arg[h]
        /\ pObj' = pObj \/ pObj' = [pObj EXCEPT ![h] = Nobody]
        /\ UNCHANGED <<_nodes, g_Guard, ping, itr, up, _dbName>>
    BY DEF ExistsNode, SameNode, Return, masterVars, pingVars, workerVars
  <1>3. TypeOK'
    BY <1>1, <1>2 DEF TypeOK, ArgsOK, PC, Holding, AnyDb, Nobody, Entry
  <1>4. GuardOK'
    BY <1>1, <1>2, ThreadsAssumption DEF TypeOK, GuardOK, Holding
  <1>5. ArgsOK'
    BY <1>1, <1>2 DEF TypeOK, ArgsOK, Holding, Sending
  <1>6. OneEntry'
    BY <1>1, <1>2 DEF TypeOK, OneEntry
  <1>7. FreshOK'
    BY <1>1, <1>2 DEF TypeOK, FreshOK
  <1>8. SendingOK'
    BY <1>1, <1>2, ThreadsAssumption
    DEF TypeOK, SendingOK, Sending, GuardOK, OneEntry, Holding
  <1>9. Agree'
    BY <1>1, <1>2 DEF TypeOK, Agree, Wedged, Sending, FreshOK, SendingOK
  <1>10. ActiveIffAssigned'
    BY <1>1, <1>2 DEF TypeOK, ActiveIffAssigned
  <1> QED
    BY <1>3, <1>4, <1>5, <1>6, <1>7, <1>8, <1>9, <1>10 DEF IndInv

(* The master enters a new node. *)
LEMMA RegisterInd ==
    ASSUME IndInv, NEW h \in Handlers, RegisterNode(h)
    PROVE  IndInv'
  <1>1. /\ TypeOK /\ GuardOK /\ ArgsOK /\ OneEntry /\ FreshOK
        /\ SendingOK /\ Agree /\ ActiveIffAssigned /\ DOMAIN _nodes = 1..Len(_nodes)
        /\ \A n \in DOMAIN _nodes : _nodes[n] \in Entry /\ _nodes[n].worker \in Workers
    BY DomainIs, EntryIs DEF IndInv
  <1>2. /\ pc[h] = "push" /\ g_Guard = Free /\ arg[h] \in Workers
        /\ _nodes' = Append(_nodes, NewNode(arg[h]))
        /\ pc' = [pc EXCEPT ![h] = "idle"] /\ arg' = [arg EXCEPT ![h] = Nobody]
        /\ pObj' = [pObj EXCEPT ![h] = Nobody]
        /\ UNCHANGED <<g_Guard, ping, itr, up, _dbName>>
    BY <1>1 DEF RegisterNode, Return, ArgsOK, pingVars, workerVars
  <1>3. /\ _nodes' \in Seq(Entry) /\ Len(_nodes') = Len(_nodes) + 1
        /\ Len(_nodes) \in Nat /\ DOMAIN _nodes' = 1..(Len(_nodes) + 1)
        /\ \A i \in 1..Len(_nodes) : _nodes'[i] = _nodes[i]
        /\ LET e == _nodes'[Len(_nodes) + 1] IN
              e.worker = arg[h] /\ ~e._isActive /\ e._dbName = NoDb
    BY <1>1, <1>2, Appended
  <1>4. TypeOK'
    BY <1>1, <1>2, <1>3 DEF TypeOK, ArgsOK, PC, Holding, AnyDb, Nobody, Entry
  <1>5. GuardOK'
    BY <1>1, <1>2, <1>3, ThreadsAssumption DEF TypeOK, GuardOK, Holding
  <1>6. ArgsOK'
    BY <1>1, <1>2, <1>3 DEF TypeOK, ArgsOK, Holding, Sending
  <1>7. OneEntry'
    BY <1>1, <1>2, <1>3 DEF TypeOK, OneEntry
  <1>8. FreshOK'
    BY <1>1, <1>2, <1>3 DEF TypeOK, FreshOK
  <1>9. SendingOK'
    BY <1>1, <1>2, <1>3, ThreadsAssumption
    DEF TypeOK, SendingOK, Sending, GuardOK, OneEntry, Holding
  <1>10. Agree'
    <2> SUFFICES ASSUME ~Wedged', NEW i \in DOMAIN _nodes',
                        up'[_nodes'[i].worker], _nodes'[i]._isActive,
                        _nodes'[i].worker \notin QuickRestart,
                        \A k \in Handlers :
                           pc'[k] \in Sending => pObj'[k] # _nodes'[i].worker
                 PROVE  _dbName'[_nodes'[i].worker] \in {_nodes'[i]._dbName, NoDb}
      BY DEF Agree
    <2>1. i \in DOMAIN _nodes /\ _nodes'[i] = _nodes[i]
      BY <1>1, <1>3
    <2>2. ~Wedged
      BY <1>1, <1>2 DEF Wedged, TypeOK
    <2>3. \A k \in Handlers : pc[k] \in Sending => pObj[k] # _nodes[i].worker
      BY <1>1, <1>2, <2>1 DEF Sending, TypeOK
    <2> QED
      BY <1>1, <1>2, <2>1, <2>2, <2>3 DEF Agree
  <1>11. ActiveIffAssigned'
    BY <1>1, <1>2, <1>3 DEF TypeOK, ActiveIffAssigned
  <1> QED
    BY <1>4, <1>5, <1>6, <1>7, <1>8, <1>9, <1>10, <1>11 DEF IndInv

(* No node is available. *)
LEMMA NoNodeInd ==
    ASSUME IndInv, NEW h \in Handlers, pc[h] \in {"get", "release"}, NoNode(h),
           UNCHANGED <<pingVars, workerVars>>
    PROVE  IndInv'
  <1>1. /\ TypeOK /\ GuardOK /\ ArgsOK /\ OneEntry /\ FreshOK
        /\ SendingOK /\ Agree /\ ActiveIffAssigned /\ DOMAIN _nodes = 1..Len(_nodes)
        /\ \A n \in DOMAIN _nodes : _nodes[n] \in Entry /\ _nodes[n].worker \in Workers
    BY DomainIs, EntryIs DEF IndInv
  <1>2. /\ pc' = [pc EXCEPT ![h] = "idle"] /\ arg' = [arg EXCEPT ![h] = Nobody]
        /\ pObj' = [pObj EXCEPT ![h] = Nobody]
        /\ UNCHANGED <<_nodes, g_Guard, ping, itr, up, _dbName>>
    BY DEF NoNode, Return, masterVars, pingVars, workerVars
  <1>3. TypeOK'
    BY <1>1, <1>2 DEF TypeOK, ArgsOK, PC, Holding, AnyDb, Nobody, Entry
  <1>4. GuardOK'
    BY <1>1, <1>2, ThreadsAssumption DEF TypeOK, GuardOK, Holding
  <1>5. ArgsOK'
    BY <1>1, <1>2 DEF TypeOK, ArgsOK, Holding, Sending
  <1>6. OneEntry'
    BY <1>1, <1>2 DEF TypeOK, OneEntry
  <1>7. FreshOK'
    BY <1>1, <1>2 DEF TypeOK, FreshOK
  <1>8. SendingOK'
    BY <1>1, <1>2, ThreadsAssumption
    DEF TypeOK, SendingOK, Sending, GuardOK, OneEntry, Holding
  <1>9. Agree'
    BY <1>1, <1>2 DEF TypeOK, Agree, Wedged, Sending, FreshOK, SendingOK
  <1>10. ActiveIffAssigned'
    BY <1>1, <1>2 DEF TypeOK, ActiveIffAssigned
  <1> QED
    BY <1>3, <1>4, <1>5, <1>6, <1>7, <1>8, <1>9, <1>10 DEF IndInv

(* A handler changes an entry and calls its worker. *)
LEMMA HoldInd ==
    ASSUME IndInv, NEW h \in Handlers, pc[h] \in {"get", "release"}, g_Guard = Free,
           NEW i \in DOMAIN _nodes, NEW e \in Entry, NEW verb \in Sending,
           Hold(h, i, e, verb), UNCHANGED <<pingVars, workerVars>>,
           e.worker = _nodes[i].worker, verb = "sendSet" => e._dbName = arg[h],
           verb = "sendRelease" => ~e._isActive,
           e.worker \notin OtherServer => (e._isActive <=> e._dbName # NoDb)
    PROVE  IndInv'
  <1>1. /\ TypeOK /\ GuardOK /\ ArgsOK /\ OneEntry /\ FreshOK
        /\ SendingOK /\ Agree /\ ActiveIffAssigned /\ DOMAIN _nodes = 1..Len(_nodes)
        /\ \A n \in DOMAIN _nodes : _nodes[n] \in Entry /\ _nodes[n].worker \in Workers
    BY DomainIs, EntryIs DEF IndInv
  <1>2. /\ pc' = [pc EXCEPT ![h] = verb] /\ pObj' = [pObj EXCEPT ![h] = e.worker]
        /\ g_Guard' = h /\ verb \in {"sendSet", "sendRelease"}
        /\ UNCHANGED <<arg, ping, itr, up, _dbName>>
        /\ _nodes' = [_nodes EXCEPT ![i] = e]
    BY DEF Hold, pingVars, workerVars, Sending
  <1>3. /\ _nodes' \in Seq(Entry) /\ Len(_nodes') = Len(_nodes)
        /\ DOMAIN _nodes' = 1..Len(_nodes) /\ Len(_nodes) \in Nat
        /\ _nodes'[i] = e /\ i \in 1..Len(_nodes)
        /\ \A j \in 1..Len(_nodes) : j # i => _nodes'[j] = _nodes[j]
    BY <1>1, <1>2, Replaced
  <1>4. e.worker \in Workers /\ e._isActive \in BOOLEAN /\ e._dbName \in AnyDb
    BY DEF Entry
  <1>5. TypeOK'
    BY <1>1, <1>2, <1>3, <1>4
    DEF TypeOK, ArgsOK, PC, Holding, AnyDb, Nobody, Entry
  <1>6. GuardOK'
    BY <1>1, <1>2, <1>3, <1>4, ThreadsAssumption DEF TypeOK, GuardOK, Holding
  <1>7. ArgsOK'
    BY <1>1, <1>2, <1>3, <1>4 DEF TypeOK, ArgsOK, Holding, Sending
  <1>8. OneEntry'
    BY <1>1, <1>2, <1>3, <1>4 DEF TypeOK, OneEntry
  <1>9. FreshOK'
    BY <1>1, <1>2, <1>3, <1>4 DEF TypeOK, FreshOK
  <1>10. SendingOK'
    BY <1>1, <1>2, <1>3, <1>4, ThreadsAssumption
    DEF TypeOK, SendingOK, Sending, GuardOK, OneEntry, Holding
  <1>11. Agree'
    BY <1>1, <1>2, <1>3, <1>4
    DEF TypeOK, Agree, Wedged, Sending, FreshOK, SendingOK
  <1>12. ActiveIffAssigned'
    BY <1>1, <1>2, <1>3, <1>4 DEF TypeOK, ActiveIffAssigned
  <1> QED
    BY <1>5, <1>6, <1>7, <1>8, <1>9, <1>10, <1>11, <1>12 DEF IndInv

(* The worker keeps the name it is sent. *)
LEMMA SetNodeInd ==
    ASSUME IndInv, NEW h \in Handlers, WorkerSetNode(h)
    PROVE  IndInv'
  <1>1. /\ TypeOK /\ GuardOK /\ ArgsOK /\ OneEntry /\ FreshOK
        /\ SendingOK /\ Agree /\ ActiveIffAssigned /\ DOMAIN _nodes = 1..Len(_nodes)
        /\ \A n \in DOMAIN _nodes : _nodes[n] \in Entry /\ _nodes[n].worker \in Workers
    BY DomainIs, EntryIs DEF IndInv
  <1>2. /\ pc[h] \in {"sendSet", "sendRelease"} /\ up[pObj[h]]
        /\ _dbName' = [_dbName EXCEPT ![pObj[h]] = arg[h]]
        /\ pc' = [pc EXCEPT ![h] = "answered"]
        /\ UNCHANGED <<_nodes, g_Guard, arg, pObj, ping, itr, up>>
    BY DEF WorkerSetNode, masterVars, pingVars
  <1>3. pObj[h] \in Workers /\ arg[h] \in AnyDb
    BY <1>1, <1>2 DEF ArgsOK, Sending, Holding
  <1>4. TypeOK'
    BY <1>1, <1>2, <1>3
    DEF GuardOK, TypeOK, ArgsOK, PC, Holding, AnyDb, Nobody, Entry
  <1>5. GuardOK'
    BY <1>1, <1>2, <1>3, ThreadsAssumption DEF GuardOK, TypeOK, GuardOK, Holding
  <1>6. ArgsOK'
    BY <1>1, <1>2, <1>3 DEF GuardOK, TypeOK, ArgsOK, Holding, Sending
  <1>7. OneEntry'
    BY <1>1, <1>2, <1>3 DEF GuardOK, TypeOK, OneEntry
  <1>8. FreshOK'
    BY <1>1, <1>2, <1>3 DEF GuardOK, TypeOK, FreshOK
  <1>9. SendingOK'
    BY <1>1, <1>2, <1>3, ThreadsAssumption
    DEF GuardOK, TypeOK, SendingOK, Sending, GuardOK, OneEntry, Holding
  <1>10. Agree'
    BY <1>1, <1>2, <1>3
    DEF GuardOK, TypeOK, Agree, Wedged, Sending, FreshOK, SendingOK
  <1>11. ActiveIffAssigned'
    BY <1>1, <1>2, <1>3 DEF GuardOK, TypeOK, ActiveIffAssigned
  <1> QED
    BY <1>4, <1>5, <1>6, <1>7, <1>8, <1>9, <1>10, <1>11 DEF IndInv

(* Another server answers at its address. *)
LEMMA OtherInd ==
    ASSUME IndInv, NEW h \in Handlers, OtherAnswers(h)
    PROVE  IndInv'
  <1>1. /\ TypeOK /\ GuardOK /\ ArgsOK /\ OneEntry /\ FreshOK
        /\ SendingOK /\ Agree /\ ActiveIffAssigned /\ DOMAIN _nodes = 1..Len(_nodes)
        /\ \A n \in DOMAIN _nodes : _nodes[n] \in Entry /\ _nodes[n].worker \in Workers
    BY DomainIs, EntryIs DEF IndInv
  <1>2. /\ pc[h] \in {"sendSet", "sendRelease"} /\ ~up[pObj[h]]
        /\ pc' = [pc EXCEPT ![h] = "answered"]
        /\ UNCHANGED <<_nodes, g_Guard, arg, pObj, ping, itr, up, _dbName>>
    BY DEF OtherAnswers, masterVars, pingVars, workerVars
  <1>3. TypeOK'
    BY <1>1, <1>2 DEF GuardOK, TypeOK, ArgsOK, PC, Holding, AnyDb, Nobody, Entry
  <1>4. GuardOK'
    BY <1>1, <1>2, ThreadsAssumption DEF GuardOK, TypeOK, GuardOK, Holding
  <1>5. ArgsOK'
    BY <1>1, <1>2 DEF GuardOK, TypeOK, ArgsOK, Holding, Sending
  <1>6. OneEntry'
    BY <1>1, <1>2 DEF GuardOK, TypeOK, OneEntry
  <1>7. FreshOK'
    BY <1>1, <1>2 DEF GuardOK, TypeOK, FreshOK
  <1>8. SendingOK'
    BY <1>1, <1>2, ThreadsAssumption
    DEF GuardOK, TypeOK, SendingOK, Sending, GuardOK, OneEntry, Holding
  <1>9. Agree'
    BY <1>1, <1>2
    DEF GuardOK, TypeOK, Agree, Wedged, Sending, FreshOK, SendingOK
  <1>10. ActiveIffAssigned'
    BY <1>1, <1>2 DEF GuardOK, TypeOK, ActiveIffAssigned
  <1> QED
    BY <1>3, <1>4, <1>5, <1>6, <1>7, <1>8, <1>9, <1>10 DEF IndInv

(* The handler gives the guard back. *)
LEMMA DoneInd ==
    ASSUME IndInv, NEW h \in Handlers, Done(h)
    PROVE  IndInv'
  <1>1. /\ TypeOK /\ GuardOK /\ ArgsOK /\ OneEntry /\ FreshOK
        /\ SendingOK /\ Agree /\ ActiveIffAssigned /\ DOMAIN _nodes = 1..Len(_nodes)
        /\ \A n \in DOMAIN _nodes : _nodes[n] \in Entry /\ _nodes[n].worker \in Workers
    BY DomainIs, EntryIs DEF IndInv
  <1>2. /\ pc[h] = "answered" /\ g_Guard' = Free
        /\ pc' = [pc EXCEPT ![h] = "idle"] /\ arg' = [arg EXCEPT ![h] = Nobody]
        /\ pObj' = [pObj EXCEPT ![h] = Nobody]
        /\ UNCHANGED <<_nodes, ping, itr, up, _dbName>>
    BY DEF Done, Return, pingVars, workerVars
  <1>3. TypeOK'
    BY <1>1, <1>2 DEF TypeOK, ArgsOK, PC, Holding, AnyDb, Nobody, Entry
  <1>4. GuardOK'
    BY <1>1, <1>2, ThreadsAssumption DEF TypeOK, GuardOK, Holding
  <1>5. ArgsOK'
    BY <1>1, <1>2 DEF TypeOK, ArgsOK, Holding, Sending
  <1>6. OneEntry'
    BY <1>1, <1>2 DEF TypeOK, OneEntry
  <1>7. FreshOK'
    BY <1>1, <1>2 DEF TypeOK, FreshOK
  <1>8. SendingOK'
    BY <1>1, <1>2, ThreadsAssumption
    DEF TypeOK, SendingOK, Sending, GuardOK, OneEntry, Holding
  <1>9. Agree'
    BY <1>1, <1>2, SMTT(30) DEF TypeOK, Agree, Wedged, Sending, FreshOK, SendingOK
  <1>10. ActiveIffAssigned'
    BY <1>1, <1>2 DEF TypeOK, ActiveIffAssigned
  <1> QED
    BY <1>3, <1>4, <1>5, <1>6, <1>7, <1>8, <1>9, <1>10 DEF IndInv

(* A call throws: the handler is gone, with the guard. *)
LEMMA ThrowsInd ==
    ASSUME IndInv, NEW h \in Handlers, SendThrows(h)
    PROVE  IndInv'
  <1>1. /\ TypeOK /\ GuardOK /\ ArgsOK /\ OneEntry /\ FreshOK
        /\ SendingOK /\ Agree /\ ActiveIffAssigned /\ DOMAIN _nodes = 1..Len(_nodes)
        /\ \A n \in DOMAIN _nodes : _nodes[n] \in Entry /\ _nodes[n].worker \in Workers
    BY DomainIs, EntryIs DEF IndInv
  <1>2. /\ pc[h] \in Holding \ {"thrown"} /\ pc' = [pc EXCEPT ![h] = "thrown"]
        /\ arg' = [arg EXCEPT ![h] = Nobody] /\ pObj' = [pObj EXCEPT ![h] = Nobody]
        /\ UNCHANGED <<_nodes, g_Guard, ping, itr, up, _dbName>>
    BY DEF SendThrows, masterVars, pingVars, workerVars
  <1>3. TypeOK'
    BY <1>1, <1>2 DEF TypeOK, ArgsOK, PC, Holding, AnyDb, Nobody, Entry
  <1>4. GuardOK'
    BY <1>1, <1>2, ThreadsAssumption DEF TypeOK, GuardOK, Holding
  <1>5. ArgsOK'
    BY <1>1, <1>2 DEF TypeOK, ArgsOK, Holding, Sending
  <1>6. OneEntry'
    BY <1>1, <1>2 DEF TypeOK, OneEntry
  <1>7. FreshOK'
    BY <1>1, <1>2 DEF TypeOK, FreshOK
  <1>8. SendingOK'
    BY <1>1, <1>2, ThreadsAssumption
    DEF TypeOK, SendingOK, Sending, GuardOK, OneEntry, Holding
  <1>9. Agree'
    BY <1>1, <1>2 DEF TypeOK, Agree, Wedged, Sending, FreshOK, SendingOK
  <1>10. ActiveIffAssigned'
    BY <1>1, <1>2 DEF TypeOK, ActiveIffAssigned
  <1> QED
    BY <1>3, <1>4, <1>5, <1>6, <1>7, <1>8, <1>9, <1>10 DEF IndInv

(* A round of the ping thread begins, or goes on. *)
LEMMA WakeUpInd ==
    ASSUME IndInv, WakeUp \/ PingAnswered
    PROVE  IndInv'
  <1>1. /\ TypeOK /\ GuardOK /\ ArgsOK /\ OneEntry /\ FreshOK
        /\ SendingOK /\ Agree /\ ActiveIffAssigned /\ DOMAIN _nodes = 1..Len(_nodes)
        /\ \A n \in DOMAIN _nodes : _nodes[n] \in Entry /\ _nodes[n].worker \in Workers
    BY DomainIs, EntryIs DEF IndInv
  <1>2. Len(_nodes) \in Nat
    BY <1>1 DEF TypeOK
  <1>3. /\ g_Guard = Free \/ g_Guard = PingThread
        /\ _nodes' = _nodes
        /\ \/ ping' = "call" /\ itr' \in 1..Len(_nodes') /\ g_Guard' = PingThread
           \/ ping' = "sleep" /\ itr' = 0 /\ g_Guard' = Free
        /\ UNCHANGED <<pc, arg, pObj, up, _dbName>>
    BY <1>1, <1>2
    DEF WakeUp, PingAnswered, Round, handlerVars, workerVars, GuardOK, TypeOK
  <1>4. TypeOK'
    BY <1>1, <1>2, <1>3 DEF TypeOK, ArgsOK, PC, Holding, AnyDb, Nobody, Entry
  <1>5. GuardOK'
    BY <1>1, <1>2, <1>3, ThreadsAssumption DEF TypeOK, GuardOK, Holding
  <1>6. ArgsOK'
    BY <1>1, <1>2, <1>3 DEF TypeOK, ArgsOK, Holding, Sending
  <1>7. OneEntry'
    BY <1>1, <1>2, <1>3 DEF TypeOK, OneEntry
  <1>8. FreshOK'
    BY <1>1, <1>2, <1>3 DEF TypeOK, FreshOK
  <1>9. SendingOK'
    BY <1>1, <1>2, <1>3, ThreadsAssumption
    DEF TypeOK, SendingOK, Sending, GuardOK, OneEntry, Holding
  <1>10. Agree'
    BY <1>1, <1>2, <1>3 DEF TypeOK, Agree, Wedged, Sending, FreshOK, SendingOK
  <1>11. ActiveIffAssigned'
    BY <1>1, <1>2, <1>3 DEF TypeOK, ActiveIffAssigned
  <1> QED
    BY <1>4, <1>5, <1>6, <1>7, <1>8, <1>9, <1>10, <1>11 DEF IndInv

(* A ping throws: the node is removed. *)
LEMMA PingThrowsInd ==
    ASSUME IndInv, PingThrows
    PROVE  IndInv'
  <1>1. /\ TypeOK /\ GuardOK /\ ArgsOK /\ OneEntry /\ FreshOK
        /\ SendingOK /\ Agree /\ ActiveIffAssigned /\ DOMAIN _nodes = 1..Len(_nodes)
        /\ \A n \in DOMAIN _nodes : _nodes[n] \in Entry /\ _nodes[n].worker \in Workers
    BY DomainIs, EntryIs DEF IndInv
  <1>2. g_Guard = PingThread /\ itr \in 1..Len(_nodes) /\ _nodes' = RemoveAt(_nodes, itr)
    BY <1>1 DEF PingThrows, GuardOK
  <1>3. /\ _nodes' \in Seq(Entry) /\ Len(_nodes) \in Nat
        /\ Len(_nodes') = Len(_nodes) - 1 /\ DOMAIN _nodes' = 1..(Len(_nodes) - 1)
        /\ \A j \in 1..(Len(_nodes) - 1) :
              _nodes'[j] = IF j < itr THEN _nodes[j] ELSE _nodes[j + 1]
    BY <1>1, <1>2, Removed
  <1>4. PICK f \in [1..(Len(_nodes) - 1) -> 1..Len(_nodes)] :
           /\ \A j, k \in 1..(Len(_nodes) - 1) : f[j] = f[k] => j = k
           /\ \A j \in DOMAIN _nodes' :
                 f[j] \in DOMAIN _nodes /\ _nodes'[j] = _nodes[f[j]]
    <2> DEFINE f == [j \in 1..(Len(_nodes) - 1) |-> IF j < itr THEN j ELSE j + 1]
    <2>1. f \in [1..(Len(_nodes) - 1) -> 1..Len(_nodes)]
      BY <1>2, <1>3
    <2>2. \A j, k \in 1..(Len(_nodes) - 1) : f[j] = f[k] => j = k
      BY <1>2, <1>3
    <2>3. \A j \in 1..(Len(_nodes) - 1) : _nodes'[j] = _nodes[f[j]]
      BY <1>3
    <2> QED
      BY <1>1, <1>3, <2>1, <2>2, <2>3
  <1>5. /\ ping' = "sleep" /\ itr' = 0 /\ g_Guard' = Free
        /\ UNCHANGED <<pc, arg, pObj, up, _dbName>>
    BY <1>3 DEF PingThrows, Break, Round, handlerVars, workerVars
  <1>6. TypeOK'
    BY <1>1, <1>2, <1>3, <1>4, <1>5
    DEF TypeOK, ArgsOK, PC, Holding, AnyDb, Nobody, Entry
  <1>7. GuardOK'
    BY <1>1, <1>2, <1>3, <1>4, <1>5, ThreadsAssumption
    DEF TypeOK, GuardOK, Holding
  <1>8. ArgsOK'
    BY <1>1, <1>2, <1>3, <1>4, <1>5 DEF TypeOK, ArgsOK, Holding, Sending
  <1>9. OneEntry'
    <2>1. ASSUME NEW j \in DOMAIN _nodes', NEW k \in DOMAIN _nodes',
                 _nodes'[j].worker = _nodes'[k].worker,
                 _nodes'[j].worker \notin QuickRestart
          PROVE  j = k
      <3>1. f[j] = f[k]
        BY <1>1, <1>4, <2>1 DEF OneEntry
      <3> QED
        BY <1>3, <1>4, <3>1
    <2> QED
      BY <1>1, <1>4, <1>5, <2>1 DEF OneEntry
  <1>10. FreshOK'
    BY <1>1, <1>2, <1>3, <1>4, <1>5 DEF TypeOK, FreshOK
  <1>11. SendingOK'
    BY <1>1, <1>2, <1>3, <1>4, <1>5, ThreadsAssumption
    DEF TypeOK, SendingOK, Sending, GuardOK, OneEntry, Holding
  <1>12. Agree'
    BY <1>1, <1>2, <1>3, <1>4, <1>5
    DEF TypeOK, Agree, Wedged, Sending, FreshOK, SendingOK
  <1>13. ActiveIffAssigned'
    BY <1>1, <1>2, <1>3, <1>4, <1>5 DEF TypeOK, ActiveIffAssigned
  <1> QED
    BY <1>6, <1>7, <1>8, <1>9, <1>10, <1>11, <1>12, <1>13 DEF IndInv

(* A ping is refused: the node is made inactive. *)
LEMMA PingRefusedInd ==
    ASSUME IndInv, PingRefused
    PROVE  IndInv'
  <1>1. /\ TypeOK /\ GuardOK /\ ArgsOK /\ OneEntry /\ FreshOK
        /\ SendingOK /\ Agree /\ ActiveIffAssigned /\ DOMAIN _nodes = 1..Len(_nodes)
        /\ \A n \in DOMAIN _nodes : _nodes[n] \in Entry /\ _nodes[n].worker \in Workers
    BY DomainIs, EntryIs DEF IndInv
  <1>2. /\ g_Guard = PingThread /\ itr \in 1..Len(_nodes)
        /\ _nodes[itr].worker \in OtherServer /\ ~up[_nodes[itr].worker]
        /\ _nodes' = [_nodes EXCEPT ![itr]._isActive = FALSE]
    BY <1>1 DEF PingRefused, GuardOK
  <1>3. PICK e \in Entry : /\ e.worker = _nodes[itr].worker /\ ~e._isActive
                            /\ e._dbName = _nodes[itr]._dbName
                            /\ _nodes' = [_nodes EXCEPT ![itr] = e]
    <2>1. _nodes[itr] \in Entry
      BY <1>1, <1>2
    <2>2. PICK e \in Entry : e = [_nodes[itr] EXCEPT !._isActive = FALSE]
      BY <2>1 DEF Entry
    <2>3. /\ e.worker = _nodes[itr].worker /\ ~e._isActive
          /\ e._dbName = _nodes[itr]._dbName
      BY <2>1, <2>2 DEF Entry
    <2> QED
      BY <1>2, <2>2, <2>3
  <1>4. /\ _nodes' \in Seq(Entry) /\ Len(_nodes') = Len(_nodes)
        /\ DOMAIN _nodes' = 1..Len(_nodes) /\ Len(_nodes) \in Nat
        /\ _nodes'[itr] = e
        /\ \A j \in 1..Len(_nodes) : j # itr => _nodes'[j] = _nodes[j]
    BY <1>1, <1>2, <1>3, Replaced
  <1>5. /\ ping' = "sleep" /\ itr' = 0 /\ g_Guard' = Free
        /\ UNCHANGED <<pc, arg, pObj, up, _dbName>>
    BY <1>2, <1>4 DEF PingRefused, Break, Round, handlerVars, workerVars
  <1>6. TypeOK'
    BY <1>1, <1>2, <1>3, <1>4, <1>5
    DEF TypeOK, ArgsOK, PC, Holding, AnyDb, Nobody, Entry
  <1>7. GuardOK'
    BY <1>1, <1>2, <1>3, <1>4, <1>5, ThreadsAssumption
    DEF TypeOK, GuardOK, Holding
  <1>8. ArgsOK'
    BY <1>1, <1>2, <1>3, <1>4, <1>5 DEF TypeOK, ArgsOK, Holding, Sending
  <1>9. OneEntry'
    BY <1>1, <1>2, <1>3, <1>4, <1>5 DEF TypeOK, OneEntry
  <1>10. FreshOK'
    BY <1>1, <1>2, <1>3, <1>4, <1>5 DEF TypeOK, FreshOK
  <1>11. SendingOK'
    BY <1>1, <1>2, <1>3, <1>4, <1>5, ThreadsAssumption
    DEF TypeOK, SendingOK, Sending, GuardOK, OneEntry, Holding
  <1>12. Agree'
    BY <1>1, <1>2, <1>3, <1>4, <1>5
    DEF TypeOK, Agree, Wedged, Sending, FreshOK, SendingOK
  <1>13. ActiveIffAssigned'
    BY <1>1, <1>2, <1>3, <1>4, <1>5 DEF TypeOK, ActiveIffAssigned
  <1> QED
    BY <1>6, <1>7, <1>8, <1>9, <1>10, <1>11, <1>12, <1>13 DEF IndInv
(* Every set of positions that is not empty has a first. *)
LEMMA FirstExists ==
    ASSUME NEW T, T \subseteq Nat, T # {}
    PROVE  Min(T) \in T
  <1>1. PICK x \in T : \A y \in T : ~(<<y, x>> \in OpToRel(<, Nat))
    BY WFMin, NatLessThanWellFounded, Zenon
  <1>2. \A y \in T : <<y, x>> \in OpToRel(<, Nat) <=> y < x
    BY DEF OpToRel
  <1>3. ASSUME NEW y \in T PROVE x <= y
    <2>1. ~(y < x) /\ x \in Nat /\ y \in Nat
      BY <1>1, <1>2
    <2> QED
      BY <2>1
  <1> QED
    BY <1>3 DEF Min

LEMMA GetInd ==
    ASSUME IndInv, NEW h \in Handlers, GetNode(h)
    PROVE  IndInv'
  <1> DEFINE I == {j \in 1..Len(_nodes) : Suits(arg[h], _nodes[j])}
             i == SelectInSeq(_nodes, LAMBDA e : Suits(arg[h], e))
  <1>1. /\ pc[h] = "get" /\ g_Guard = Free /\ UNCHANGED <<pingVars, workerVars>>
        /\ arg[h] \in AnyDb /\ TypeOK /\ ActiveIffAssigned
    BY DEF GetNode, IndInv, ArgsOK
  <1>2. i = IF I # {} THEN Min(I) ELSE 0
    BY DEF SelectInSeq
  <1>3. I \subseteq Nat /\ 0 \notin I
    BY <1>1 DEF TypeOK
  <1>4. CASE I = {}
    <2>1. NoNode(h)
      BY <1>2, <1>4 DEF GetNode
    <2> QED
      BY <1>1, <2>1, NoNodeInd
  <1>5. CASE I # {}
    <2>1. i \in I /\ i # 0
      BY <1>2, <1>3, <1>5, FirstExists
    <2>2. i \in DOMAIN _nodes /\ Suits(arg[h], _nodes[i])
      BY <1>1, <2>1, DomainIs
    <2>3. Hold(h, i, Assigned(arg[h], _nodes[i]), "sendSet")
      BY <2>1 DEF GetNode
    <2> HIDE DEF i, I
    <2>4. _nodes[i] \in Entry
      BY <1>1, <2>2, EntryIs
    <2>5. PICK e \in Entry : e = Assigned(arg[h], _nodes[i])
      BY <1>1, <2>4 DEF Assigned, Entry
    <2>6. e.worker = _nodes[i].worker /\ e._dbName = arg[h]
      BY <2>4, <2>5 DEF Assigned, Entry
    <2>7. e.worker \notin OtherServer => (e._isActive <=> e._dbName # NoDb)
      <3>1. CASE _nodes[i]._dbName = arg[h]
        BY <1>1, <2>2, <2>5, <2>6, <3>1 DEF Assigned, ActiveIffAssigned
      <3>2. CASE _nodes[i]._dbName # arg[h]
        BY <1>1, <2>2, <2>4, <2>5, <2>6, <3>2
        DEF Assigned, Suits, ActiveIffAssigned, Entry
      <3> QED
        BY <3>1, <3>2
    <2> QED
      BY <1>1, <2>2, <2>3, <2>5, <2>6, <2>7, HoldInd DEF Sending
  <1> QED
    BY <1>4, <1>5

LEMMA ReleaseInd ==
    ASSUME IndInv, NEW h \in Handlers, ReleaseNode(h)
    PROVE  IndInv'
  <1> DEFINE I == {j \in 1..Len(_nodes) : _nodes[j]._dbName = arg[h]}
             i == SelectInSeq(_nodes, LAMBDA e : e._dbName = arg[h])
  <1>1. /\ pc[h] = "release" /\ g_Guard = Free
        /\ UNCHANGED <<pingVars, workerVars>> /\ TypeOK
    BY DEF ReleaseNode, IndInv
  <1>2. i = IF I # {} THEN Min(I) ELSE 0
    BY DEF SelectInSeq
  <1>3. I \subseteq Nat /\ 0 \notin I
    BY <1>1 DEF TypeOK
  <1>4. CASE I = {}
    <2>1. NoNode(h)
      BY <1>2, <1>4 DEF ReleaseNode
    <2> QED
      BY <1>1, <2>1, NoNodeInd
  <1>5. CASE I # {}
    <2>1. i \in I /\ i # 0
      BY <1>2, <1>3, <1>5, FirstExists
    <2>2. i \in DOMAIN _nodes
      BY <1>1, <2>1, DomainIs
    <2>3. Hold(h, i, Released(_nodes[i]), "sendRelease")
      BY <2>1 DEF ReleaseNode
    <2> HIDE DEF i, I
    <2>4. _nodes[i] \in Entry
      BY <1>1, <2>2, EntryIs
    <2>5. PICK e \in Entry : e = Released(_nodes[i])
      BY <2>4 DEF Released, Entry, AnyDb
    <2>6. e.worker = _nodes[i].worker /\ ~e._isActive /\ e._dbName = NoDb
      BY <2>4, <2>5 DEF Released, Entry
    <2> QED
      BY <1>1, <2>2, <2>3, <2>5, <2>6, HoldInd DEF Sending
  <1> QED
    BY <1>4, <1>5

LEMMA InitInd == Init => IndInv
  BY ThreadsAssumption
  DEF Init, IndInv, TypeOK, GuardOK, ArgsOK, OneEntry, FreshOK,
     SendingOK, Agree, ActiveIffAssigned, PC, Holding, Sending, AnyDb, Nobody, Wedged

LEMMA NextInd == IndInv /\ [Next]_vars => IndInv'
  <1> SUFFICES ASSUME IndInv, [Next]_vars PROVE IndInv'
    OBVIOUS
  <1>1. ASSUME UNCHANGED vars PROVE IndInv'
    BY <1>1 DEF vars, masterVars, handlerVars, pingVars, workerVars, IndInv,
       TypeOK, GuardOK, ArgsOK, OneEntry, FreshOK, SendingOK, Agree, Wedged,
       ActiveIffAssigned
  <1>2. ASSUME NEW w \in Workers, WorkerInit(w) \/ WorkerDies(w) PROVE IndInv'
    BY <1>2, StartInd, DieInd
  <1>3. ASSUME NEW h \in Handlers, ClientAsks(h) \/ Wait(h) \/ Call(h) \/ Done(h)
        PROVE  IndInv'
    BY <1>3, AskInd, ExistsInd, RegisterInd, GetInd, ReleaseInd, SetNodeInd,
       OtherInd, ThrowsInd, DoneInd DEF Wait, Call
  <1>4. ASSUME WakeUp \/ Ping PROVE IndInv'
    BY <1>4, WakeUpInd, PingThrowsInd, PingRefusedInd DEF Ping
  <1> QED
    BY <1>1, <1>2, <1>3, <1>4 DEF Next

LEMMA SpecInd == Spec => []IndInv
  BY InitInd, NextInd, PTL DEF Spec

(* While nobody holds the guard, no worker that can be alive believes to   *)
(* serve another database than the registry says (WorkersAgree): get-node, *)
(* release-node and the ping thread interleave as they like, workers die,  *)
(* come back, and calls are lost or time out.                              *)
THEOREM WorkersAreTold == Spec => []WorkersAgree
  <1>1. IndInv => WorkersAgree
    <2> SUFFICES ASSUME IndInv PROVE WorkersAgree
      OBVIOUS
    <2>1. ASSUME g_Guard = Free PROVE ~Wedged /\ \A h \in Handlers : pc[h] \notin Sending
      BY <2>1, ThreadsAssumption DEF IndInv, GuardOK, Wedged, Sending, Holding
    <2> QED
      BY <2>1 DEF IndInv, Agree, WorkersAgree
  <1> QED
    BY <1>1, SpecInd, PTL

(* A node is active if and only if it has a database (ActiveIffAssigned),  *)
(* whatever get-node and release-node are asked, the empty name included.  *)
THEOREM ActiveMeansAssigned == Spec => []ActiveIffAssigned
  BY SpecInd, PTL DEF IndInv

=============================================================================
