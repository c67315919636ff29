--------------------------- MODULE MasterRegistry ---------------------------
(***************************************************************************)
(* The master node of MyServer (src/MyServer/MyServer.cpp) and its workers *)
(* (src/MyServer/WorkerNodeClient.cpp).  Workers register with the master  *)
(* by HTTP; clients ask it which worker serves a database (get-node) and   *)
(* give the worker back (release-node); a thread pings the workers and     *)
(* drops those that do not answer.                                         *)
(*                                                                         *)
(* Each request runs on a thread of the HTTP library.  The list of nodes   *)
(* is guarded by g_Guard, of which only WaitToWrite and Done are called:   *)
(* here it is a lock with one owner, which SWMRGuard implements.  It is    *)
(* held across the HTTP calls that the master makes to its workers.        *)
(***************************************************************************)
EXTENDS Integers, FiniteSets, Sequences, SequencesExt

CONSTANTS
    Handlers,    \* threads that serve the requests to the master
    Workers,     \* worker processes; each has an address of its own
    NameOf,      \* the name each was started with
    Dbs,         \* the names of databases
    NoDb,        \* the empty string
    PingThread,  \* the thread that runs MyServer::PingThread
    Free,        \* g_Guard has no owner
    MayCrash,    \* the workers that may die, and be started again,
    QuickRestart, \* those even while their last registration is still served
    Slow,        \* a call to a live worker may time out
    OtherServer  \* the workers at whose address something else may answer
                 \* when they are dead

ASSUME ThreadsAssumption ==
    PingThread \notin Handlers /\ Free \notin Handlers /\ Free # PingThread
ASSUME WorkersAssumption == DOMAIN NameOf = Workers /\ MayCrash \subseteq Workers
ASSUME DbsAssumption == NoDb \notin Dbs
ASSUME OutcomesAssumption ==
    Slow \in BOOLEAN /\ {QuickRestart, OtherServer} \subseteq SUBSET Workers

VARIABLES
    _nodes,      \* the registry, in the order of registration
    g_Guard,     \* who holds it
    pc,          \* per handler: where it stands
    arg,         \* per handler: the worker or the database it is about
    pObj,        \* per handler: the worker of the entry it found
    ping,        \* where the ping thread stands
    itr,         \* the entry it is at
    up,          \* per worker: it listens
    _dbName      \* per worker: the database it was last told

masterVars == <<_nodes, g_Guard>>
handlerVars == <<pc, arg, pObj>>
pingVars == <<ping, itr>>
workerVars == <<up, _dbName>>
vars == <<masterVars, handlerVars, pingVars, workerVars>>

AnyDb == Dbs \cup {NoDb}
Nobody == NoDb      \* arg and pObj of a handler that has none

Holding == {"sendSet", "sendRelease", "answered", "thrown"}
PC == {"idle", "exists", "push", "get", "release"} \cup Holding

TypeOK ==
    /\ _nodes \in Seq([worker : Workers, _isActive : BOOLEAN, _dbName : AnyDb])
    /\ g_Guard \in Handlers \cup {PingThread, Free}
    /\ pc \in [Handlers -> PC]
    /\ arg \in [Handlers -> Workers \cup AnyDb]
    /\ pObj \in [Handlers -> Workers \cup {Nobody}]
    /\ ping \in {"sleep", "call"}
    /\ itr \in 0..Len(_nodes)
    /\ up \in [Workers -> BOOLEAN]
    /\ _dbName \in [Workers -> AnyDb]

Init ==
    /\ _nodes = <<>>
    /\ g_Guard = Free
    /\ pc = [h \in Handlers |-> "idle"]
    /\ arg = [h \in Handlers |-> Nobody]
    /\ pObj = [h \in Handlers |-> Nobody]
    /\ ping = "sleep"
    /\ itr = 0
    /\ up = [w \in Workers |-> FALSE]
    /\ _dbName = [w \in Workers |-> NoDb]

-----------------------------------------------------------------------------
(* Requests arrive. *)

Receive(h, verb, x) ==
    /\ pc[h] = "idle"
    /\ pc' = [pc EXCEPT ![h] = verb]
    /\ arg' = [arg EXCEPT ![h] = x]
    /\ UNCHANGED <<masterVars, pObj, pingVars>>

Registering(w) == \E h \in Handlers : pc[h] \in {"exists", "push"} /\ arg[h] = w

(* A worker listens before it registers, once, and waits for the reply. *)
WorkerInit(w) ==
    /\ ~up[w]
    /\ w \in QuickRestart \/ ~Registering(w)
    /\ up' = [up EXCEPT ![w] = TRUE]
    /\ UNCHANGED _dbName
    /\ \E h \in Handlers : Receive(h, "exists", w)

ClientAsks(h) ==
    /\ \E db \in AnyDb : Receive(h, "get", db) \/ Receive(h, "release", db)
    /\ UNCHANGED workerVars

(* The reply, and the handler is free again. *)
Return(h) ==
    /\ pc' = [pc EXCEPT ![h] = "idle"]
    /\ arg' = [arg EXCEPT ![h] = Nobody]
    /\ pObj' = [pObj EXCEPT ![h] = Nobody]

-----------------------------------------------------------------------------
(* register-node *)

SameNode(e, w) == NameOf[e.worker] = NameOf[w] \/ e.worker = w

NewNode(w) == [worker |-> w, _isActive |-> FALSE, _dbName |-> NoDb]

(* ExistsNode takes the guard and releases it before it returns. *)
ExistsNode(h) ==
    /\ pc[h] = "exists"
    /\ g_Guard = Free
    /\ IF \E i \in DOMAIN _nodes : SameNode(_nodes[i], arg[h])
       THEN Return(h)
       ELSE pc' = [pc EXCEPT ![h] = "push"] /\ UNCHANGED <<arg, pObj>>
    /\ UNCHANGED <<masterVars, pingVars, workerVars>>

RegisterNode(h) ==
    /\ pc[h] = "push"
    /\ g_Guard = Free
    /\ _nodes' = Append(_nodes, NewNode(arg[h]))
    /\ Return(h)
    /\ UNCHANGED <<g_Guard, pingVars, workerVars>>

-----------------------------------------------------------------------------
(* get-node and release-node. *)

(* An entry that has the database, or the first before it that is idle. *)
Suits(db, e) == e._dbName = db \/ ~e._isActive

Assigned(db, e) ==
    IF e._dbName = db THEN e
    ELSE [e EXCEPT !._isActive = TRUE, !._dbName = db]

(* Mutant: the node keeps the name of the database. *)
ReleasedKeepsName(e) == [e EXCEPT !._isActive = FALSE]

Released(e) == [e EXCEPT !._isActive = FALSE, !._dbName = NoDb]

(* Mutant: the guard is released before the worker is called. *)
HoldReleased(h, i, entry, verb) ==
    /\ _nodes' = [_nodes EXCEPT ![i] = entry]
    /\ UNCHANGED g_Guard
    /\ pObj' = [pObj EXCEPT ![h] = entry.worker]
    /\ pc' = [pc EXCEPT ![h] = verb]
    /\ UNCHANGED arg

(* Mutant: the guard is not released on this way out. *)
NoNodeKeepsGuard(h) ==
    /\ Return(h)
    /\ g_Guard' = h
    /\ UNCHANGED _nodes

(* "No node available..." *)
NoNode(h) ==
    /\ Return(h)
    /\ UNCHANGED masterVars

(* The handler keeps the guard while it calls the worker of the entry. *)
Hold(h, i, entry, verb) ==
    /\ _nodes' = [_nodes EXCEPT ![i] = entry]
    /\ g_Guard' = h
    /\ pObj' = [pObj EXCEPT ![h] = entry.worker]
    /\ pc' = [pc EXCEPT ![h] = verb]
    /\ UNCHANGED arg

GetNode(h) ==
    /\ pc[h] = "get"
    /\ g_Guard = Free
    /\ LET i == SelectInSeq(_nodes, LAMBDA e : Suits(arg[h], e)) IN
          IF i = 0 THEN NoNode(h)
          ELSE Hold(h, i, Assigned(arg[h], _nodes[i]), "sendSet")
    /\ UNCHANGED <<pingVars, workerVars>>

ReleaseNode(h) ==
    /\ pc[h] = "release"
    /\ g_Guard = Free
    /\ LET i == SelectInSeq(_nodes, LAMBDA e : e._dbName = arg[h]) IN
          IF i = 0 THEN NoNode(h)
          ELSE Hold(h, i, Released(_nodes[i]), "sendRelease")
    /\ UNCHANGED <<pingVars, workerVars>>

(* The worker keeps the name it is sent, be it given or released. *)
WorkerSetNode(h) ==
    /\ pc[h] \in {"sendSet", "sendRelease"}
    /\ up[pObj[h]]
    /\ _dbName' = [_dbName EXCEPT ![pObj[h]] = arg[h]]
    /\ pc' = [pc EXCEPT ![h] = "answered"]
    /\ UNCHANGED <<masterVars, arg, pObj, pingVars, up>>

(* It answers without JSON: SendDbName logs that and returns. *)
OtherAnswers(h) ==
    /\ pc[h] \in {"sendSet", "sendRelease"}
    /\ pObj[h] \in OtherServer /\ ~up[pObj[h]]
    /\ pc' = [pc EXCEPT ![h] = "answered"]
    /\ UNCHANGED <<masterVars, arg, pObj, pingVars, workerVars>>

Done(h) ==
    /\ pc[h] = "answered"
    /\ g_Guard' = Free
    /\ Return(h)
    /\ UNCHANGED <<_nodes, pingVars, workerVars>>

(* Nothing catches the http_exception of the call: the handler is gone     *)
(* and Done is never called.                                               *)
SendThrows(h) ==
    /\ pc[h] \in Holding \ {"thrown"}
    /\ ~up[pObj[h]] \/ Slow
    /\ pc' = [pc EXCEPT ![h] = "thrown"]
    /\ arg' = [arg EXCEPT ![h] = Nobody]
    /\ pObj' = [pObj EXCEPT ![h] = Nobody]
    /\ UNCHANGED <<masterVars, pingVars, workerVars>>

-----------------------------------------------------------------------------
(* PingThread: every ten seconds, one round under the guard. *)

Round(next) ==
    /\ IF next <= Len(_nodes')
       THEN ping' = "call" /\ itr' = next /\ g_Guard' = PingThread
       ELSE ping' = "sleep" /\ itr' = 0 /\ g_Guard' = Free
    /\ UNCHANGED <<handlerVars, workerVars>>

Break == Round(Len(_nodes') + 1)

WakeUp ==
    /\ ping = "sleep"
    /\ g_Guard = Free
    /\ UNCHANGED _nodes
    /\ Round(1)

(* Mutant: the round ends with the first node that answers. *)
PingAnsweredBreaks ==
    /\ ping = "call"
    /\ up[_nodes[itr].worker]
    /\ UNCHANGED _nodes
    /\ Break

PingAnswered ==
    /\ ping = "call"
    /\ up[_nodes[itr].worker]
    /\ UNCHANGED _nodes
    /\ Round(itr + 1)

(* An http_exception: "Node is removed." *)
PingThrows ==
    /\ ping = "call"
    /\ ~up[_nodes[itr].worker] \/ Slow
    /\ _nodes' = RemoveAt(_nodes, itr)
    /\ Break

(* An answer without JSON, or whose status is not "OK". *)
PingRefused ==
    /\ ping = "call"
    /\ _nodes[itr].worker \in OtherServer /\ ~up[_nodes[itr].worker]
    /\ _nodes' = [_nodes EXCEPT ![itr]._isActive = FALSE]
    /\ Break

WorkerDies(w) ==
    /\ w \in MayCrash /\ up[w]
    /\ up' = [up EXCEPT ![w] = FALSE]
    /\ _dbName' = [_dbName EXCEPT ![w] = NoDb]
    /\ UNCHANGED <<masterVars, handlerVars, pingVars>>

Wait(h) == ExistsNode(h) \/ RegisterNode(h) \/ GetNode(h) \/ ReleaseNode(h)
Call(h) == WorkerSetNode(h) \/ OtherAnswers(h) \/ SendThrows(h)
Ping == PingAnswered \/ PingThrows \/ PingRefused

Next ==
    \/ \E w \in Workers : WorkerInit(w) \/ WorkerDies(w)
    \/ \E h \in Handlers : ClientAsks(h) \/ Wait(h) \/ Call(h) \/ Done(h)
    \/ WakeUp \/ Ping

Spec == Init /\ [][Next]_vars

(* A thread that waits for the guard gets it in the end: all of them are   *)
(* writers, and CSWMRGuard hands itself from writer to writer.  An HTTP    *)
(* call is answered or throws.  Nothing obliges anybody to send a request, *)
(* to die, or to be slow.                                                  *)
Fairness ==
    /\ \A h \in Handlers : /\ SF_vars(Wait(h))
                           /\ WF_vars(Call(h))
                           /\ WF_vars(Done(h))
    /\ SF_vars(WakeUp)
    /\ WF_vars(Ping)

FairSpec == Spec /\ Fairness

-----------------------------------------------------------------------------
(* Properties *)

Entries(w) == {i \in DOMAIN _nodes : _nodes[i].worker = w}

(* While nobody holds the guard, a worker was told no other database than  *)
(* the one the registry says it serves (a restarted one was told none):    *)
(* calls to one worker arrive in the order of the assignments, because the *)
(* guard is held across them.  (Two entries of one worker, which a quick   *)
(* restart can leave, break it.)                                           *)
WorkersAgree ==
    TypeOK /\ (g_Guard = Free =>
        \A i \in DOMAIN _nodes :
            LET w == _nodes[i].worker IN
            up[w] /\ _nodes[i]._isActive /\ w \notin QuickRestart =>
                _dbName[w] \in {_nodes[i]._dbName, NoDb})

(* A node is active if and only if it has a database; so a database is not *)
(* taken from a live node to serve another one.  (A ping refused in its    *)
(* place breaks this for good: the entry keeps the name.)                  *)
ActiveIffAssigned ==
    \A i \in DOMAIN _nodes :
        _nodes[i].worker \notin OtherServer =>
            (_nodes[i]._isActive <=> _nodes[i]._dbName # NoDb)

Wedged == \E h \in Handlers : pc[h] = "thrown"

(* Every request is answered: no caller of the master waits for ever while *)
(* the master in turn waits for its workers, even for one that registers,  *)
(* unless a call to a dead worker has left the guard locked.               *)
MasterServes ==
    \A h \in Handlers : pc[h] # "idle" ~> pc[h] = "idle" \/ Wedged

(* A worker that is gone for good leaves the registry, whatever entries    *)
(* come before its own, unless the guard was left locked or another server *)
(* goes on refusing pings, each of which ends its round.                   *)
DeadNodesLeave ==
    \A w \in Workers :
        <>[](~up[w]) => <>[](Wedged \/ Entries(w) = {}) \/ []<><<PingRefused>>_vars

(* The log line of the ping thread, "Node is removed", without the excuse. *)
DeadNodesRemoved == \A w \in Workers : <>[](~up[w]) => <>[](Entries(w) = {})

=============================================================================
