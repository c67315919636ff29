------------------------------- MODULE LMDBNet -------------------------------
(***************************************************************************)
(* The life of transactions and cursors in LMDBNet, the C# binding         *)
(* (src/LMDBNet).  An object of the binding owns a native handle of        *)
(* mdb.c.  A transaction subscribes to the Disposing event of its          *)
(* environment and of its parent and to the StateChanging event of its     *)
(* parent, a cursor to the Disposing event of its transaction; so one call *)
(* of the user sets off a cascade of calls, in the order of subscription.  *)
(* "calls" is that cascade: what is still to be executed.                  *)
(*                                                                         *)
(* The native side keeps what mdb.c does to the handles: which memory is   *)
(* still there.  Calls of several threads do not overlap here.             *)
(***************************************************************************)
EXTENDS Naturals, FiniteSets, Sequences, SequencesExt

CONSTANTS
    Txns,          \* objects of class LMDBTransaction, to be constructed
    Cursors,       \* objects of class LMDBCursor
    Env,           \* the object of class LMDBEnvironment
    Nil,           \* null
    ChildrenFirst, \* the user disposes what has ended before its parent ends
    CursorsFirst,  \* and cursors before their transaction ends
    Renews         \* the user renews cursors in other transactions

ASSUME ObjectsAssumption ==
    /\ Txns \cap Cursors = {}
    /\ {Env, Nil} \cap (Txns \cup Cursors) = {} /\ Env # Nil
ASSUME UserAssumption == {ChildrenFirst, CursorsFirst, Renews} \subseteq BOOLEAN

VARIABLES
    State,              \* per transaction; "none" before it is constructed
    _handle,            \* per object: it is not IntPtr.Zero
    ParentTransaction,
    IsReadOnly,
    Transaction,        \* per cursor
    Disposing,          \* per environment and transaction: the subscribers
    StateChanging,      \* per transaction: the subscribers
    calls,              \* the calls to execute, the next one first
    mdb_txn,            \* per transaction: its native one
    mdb_cursor,         \* per cursor: its native one
    mc_txn,             \* per cursor: the transaction that one belongs to
    misuse              \* a native call was given a handle already freed

netVars == <<State, _handle, ParentTransaction, IsReadOnly, Transaction,
             Disposing, StateChanging>>
nativeVars == <<mdb_txn, mdb_cursor, mc_txn, misuse>>
vars == <<netVars, calls, nativeVars>>

States == {"none", "Active", "Reseted", "Commited", "Aborted"}
Verbs == {"Dispose", "AbortIfActive", "Abort", "Commit", "mdb_txn_abort",
          "mdb_txn_commit", "ZeroHandle", "mdb_env_close"}

TypeOK ==
    /\ State \in [Txns -> States]
    /\ _handle \in [Txns \cup Cursors \cup {Env} -> BOOLEAN]
    /\ ParentTransaction \in [Txns -> Txns \cup {Nil}]
    /\ IsReadOnly \in [Txns -> BOOLEAN]
    /\ Transaction \in [Cursors -> Txns \cup {Nil}]
    /\ Disposing \in [Txns \cup {Env} -> Seq(Txns \cup Cursors)]
    /\ StateChanging \in [Txns -> Seq(Txns)]
    /\ calls \in Seq([verb : Verbs, obj : Txns \cup Cursors \cup {Env}])
    /\ mdb_txn \in [Txns -> {"none", "live", "reset", "ended"}]
    /\ mdb_cursor \in [Cursors -> {"none", "open", "freed"}]
    /\ mc_txn \in [Cursors -> Txns \cup {Nil}]
    /\ misuse \in BOOLEAN

Init ==
    /\ State = [t \in Txns |-> "none"]
    /\ _handle = [x \in Txns \cup Cursors \cup {Env} |-> x = Env]
    /\ ParentTransaction = [t \in Txns |-> Nil]
    /\ IsReadOnly = [t \in Txns |-> FALSE]
    /\ Transaction = [c \in Cursors |-> Nil]
    /\ Disposing = [x \in Txns \cup {Env} |-> <<>>]
    /\ StateChanging = [t \in Txns |-> <<>>]
    /\ calls = <<>>
    /\ mdb_txn = [t \in Txns |-> "none"]
    /\ mdb_cursor = [c \in Cursors |-> "none"]
    /\ mc_txn = [c \in Cursors |-> Nil]
    /\ misuse = FALSE

-----------------------------------------------------------------------------
(* The native side *)

Live(t) == mdb_txn[t] \in {"live", "reset"}
Children(t) == {u \in Txns : ParentTransaction[u] = t /\ mdb_txn[u] = "live"}

(* A transaction and all that are nested in it. *)
Inside(t) ==
    {u \in Txns : \A X \in SUBSET Txns :
        t \in X /\ (\A v \in Txns : ParentTransaction[v] \in X => v \in X) => u \in X}

(* mdb_txn_begin: one child at a time, of write transactions only; a table *)
(* full of readers.                                                        *)
Refused(parent, ro) ==
    IF parent = Nil THEN ro
    ELSE ro \/ IsReadOnly[parent] \/ Children(parent) # {}

(* The writer mutex is free, should the transaction need it. *)
Unblocked(parent, ro) ==
    parent = Nil /\ ~ro =>
        \A u \in Txns : mdb_txn[u] = "live" => IsReadOnly[u]

(* mdb_txn_end of a transaction and of the nested ones in it.  Cursors of  *)
(* write transactions end with them, those of readers do not.              *)
End(t) ==
    LET ended == {u \in Inside(t) : Live(u)} IN
    /\ mdb_txn' = [u \in Txns |-> IF u \in ended THEN "ended" ELSE mdb_txn[u]]
    /\ mdb_cursor' = [c \in Cursors |->
           IF mc_txn[c] \in ended /\ ~IsReadOnly[mc_txn[c]]
           THEN "freed" ELSE mdb_cursor[c]]
    /\ misuse' = ~Live(t)
    /\ UNCHANGED mc_txn

(* mdb_cursor_close leaves a cursor that a nested transaction has backed   *)
(* up; it ends with its own transaction.                                   *)
CloseCursor(c) ==
    /\ mdb_cursor' = [mdb_cursor EXCEPT ![c] =
           IF Children(mc_txn[c]) # {} THEN @ ELSE "freed"]
    /\ misuse' = (mdb_cursor[c] = "freed")
    /\ UNCHANGED <<mdb_txn, mc_txn>>

-----------------------------------------------------------------------------
(* What the user asks for, once the last call has returned. *)

User == calls = <<>> /\ ~misuse
Ask(verb, x) == User /\ calls' = <<[verb |-> verb, obj |-> x]>>

(* The constructor subscribes before it calls mdb_txn_begin, which may     *)
(* throw: that object has no handle, but stays subscribed.                 *)
BeginTransaction(t, parent, ro) ==
    /\ User /\ _handle[Env]
    /\ State[t] = "none"
    /\ parent # Nil => State[parent] = "Active" /\ _handle[parent]
    /\ State' = [State EXCEPT ![t] = "Active"]
    /\ ParentTransaction' = [ParentTransaction EXCEPT ![t] = parent]
    /\ IsReadOnly' = [IsReadOnly EXCEPT ![t] = ro]
    /\ Disposing' = [x \in Txns \cup {Env} |->
           IF x \in {Env, parent} THEN Append(Disposing[x], t) ELSE Disposing[x]]
    /\ StateChanging' = [u \in Txns |->
           IF u = parent THEN Append(StateChanging[u], t) ELSE StateChanging[u]]
    /\ \/ /\ Refused(parent, ro)
          /\ UNCHANGED <<_handle, mdb_txn>>
       \/ /\ parent # Nil => ~Refused(parent, ro)
          /\ Unblocked(parent, ro)
          /\ _handle' = [_handle EXCEPT ![t] = TRUE]
          /\ mdb_txn' = [mdb_txn EXCEPT ![t] = "live"]
    /\ UNCHANGED <<Transaction, calls, mdb_cursor, mc_txn, misuse>>

Usable(t) == _handle[t] /\ State[t] = "Active" /\ Children(t) = {}

CreateCursor(c, t) ==
    /\ User
    /\ Transaction[c] = Nil /\ Usable(t)
    /\ _handle' = [_handle EXCEPT ![c] = TRUE]
    /\ Transaction' = [Transaction EXCEPT ![c] = t]
    /\ Disposing' = [Disposing EXCEPT ![t] = Append(@, c)]
    /\ mdb_cursor' = [mdb_cursor EXCEPT ![c] = "open"]
    /\ mc_txn' = [mc_txn EXCEPT ![c] = t]
    /\ UNCHANGED <<State, ParentTransaction, IsReadOnly, StateChanging, calls,
                   mdb_txn, misuse>>

(* Renew binds the native cursor anew; Transaction stays what it was. *)
RenewCursor(c, t) ==
    /\ User /\ Renews
    /\ _handle[c] /\ IsReadOnly[mc_txn[c]]
    /\ IsReadOnly[t] /\ Usable(t)
    /\ mc_txn' = [mc_txn EXCEPT ![c] = t]
    /\ UNCHANGED <<netVars, calls, mdb_txn, mdb_cursor, misuse>>

Reset(t) ==
    /\ User
    /\ IsReadOnly[t] /\ Usable(t)
    /\ State' = [State EXCEPT ![t] = "Reseted"]
    /\ mdb_txn' = [mdb_txn EXCEPT ![t] = "reset"]
    /\ UNCHANGED <<_handle, ParentTransaction, IsReadOnly, Transaction,
                   Disposing, StateChanging, calls, mdb_cursor, mc_txn, misuse>>

Renew(t) ==
    /\ User
    /\ _handle[t] /\ State[t] = "Reseted"
    /\ State' = [State EXCEPT ![t] = "Active"]
    /\ mdb_txn' = [mdb_txn EXCEPT ![t] = "live"]
    /\ UNCHANGED <<_handle, ParentTransaction, IsReadOnly, Transaction,
                   Disposing, StateChanging, calls, mdb_cursor, mc_txn, misuse>>

(* The user tidies up before a transaction and those in it end. *)
Tidy(t) ==
    /\ ChildrenFirst =>
          \A u \in Inside(t) : State[u] \in {"Commited", "Aborted"} => ~_handle[u]
    /\ CursorsFirst => \A c \in Cursors : Transaction[c] \in Inside(t) => ~_handle[c]

AskEnd(t) ==
    /\ _handle[t] /\ State[t] \in {"Active", "Reseted"}
    /\ Tidy(t)
    /\ Ask("Commit", t) \/ Ask("Abort", t)
    /\ UNCHANGED <<netVars, nativeVars>>

AskDispose(x) ==
    /\ _handle[x]
    /\ Ask("Dispose", x)
    /\ UNCHANGED <<netVars, nativeVars>>

-----------------------------------------------------------------------------
(* What the calls do. *)

Executing(verb, x) == ~misuse /\ calls # <<>> /\ Head(calls) = [verb |-> verb, obj |-> x]
Return == calls' = Tail(calls)
Each(verb, xs) == [i \in DOMAIN xs |-> [verb |-> verb, obj |-> xs[i]]]
Then(verb, x) == <<[verb |-> verb, obj |-> x]>>
Expand(frames) == calls' = frames \o Tail(calls)

(* Mutant: the native commit comes before the event. *)
CommitInvokesLate(t) ==
    /\ Executing("Commit", t)
    /\ State' = [State EXCEPT ![t] = "Commited"]
    /\ Expand(Then("mdb_txn_commit", t) \o Each("Abort", StateChanging[t]))
    /\ UNCHANGED <<_handle, ParentTransaction, IsReadOnly, Transaction,
                   Disposing, StateChanging, nativeVars>>

(* Mutant: children do not react to a commit of their parent. *)
CommitSilently(t) ==
    /\ Executing("Commit", t)
    /\ State' = [State EXCEPT ![t] = "Commited"]
    /\ Expand(Then("mdb_txn_commit", t))
    /\ UNCHANGED <<_handle, ParentTransaction, IsReadOnly, Transaction,
                   Disposing, StateChanging, nativeVars>>

(* OnParentStateChanging of each child aborts it, whatever its state. *)
Commit(t) ==
    /\ Executing("Commit", t)
    /\ State' = [State EXCEPT ![t] = "Commited"]
    /\ Expand(Each("Abort", StateChanging[t]) \o Then("mdb_txn_commit", t))
    /\ UNCHANGED <<_handle, ParentTransaction, IsReadOnly, Transaction,
                   Disposing, StateChanging, nativeVars>>

Abort(t) ==
    /\ Executing("Abort", t)
    /\ State' = [State EXCEPT ![t] = "Aborted"]
    /\ Expand(Each("Abort", StateChanging[t]) \o Then("mdb_txn_abort", t))
    /\ UNCHANGED <<_handle, ParentTransaction, IsReadOnly, Transaction,
                   Disposing, StateChanging, nativeVars>>

CommitNative(t) ==
    /\ Executing("mdb_txn_commit", t)
    /\ End(t)
    /\ Return
    /\ UNCHANGED netVars

(* mdb_txn_abort(NULL) does nothing. *)
AbortNative(t) ==
    /\ Executing("mdb_txn_abort", t)
    /\ IF _handle[t] THEN End(t) ELSE UNCHANGED nativeVars
    /\ Return
    /\ UNCHANGED netVars

DisposeAgain(x) ==
    /\ Executing("Dispose", x)
    /\ ~_handle[x]
    /\ Return
    /\ UNCHANGED <<netVars, nativeVars>>

(* "-=" removes the last subscription of the object. *)
Unsubscribed(xs, x) ==
    LET last == SelectLastInSeq(xs, LAMBDA y : y = x) IN
    IF last = 0 THEN xs ELSE RemoveAt(xs, last)

Unsubscribe(t) ==
    LET sources == {Env, ParentTransaction[t]} IN
    /\ Disposing' = [x \in Txns \cup {Env} |->
           IF x \in sources THEN Unsubscribed(Disposing[x], t) ELSE Disposing[x]]
    /\ StateChanging' = [u \in Txns |->
           IF u \in sources THEN Unsubscribed(StateChanging[u], t) ELSE StateChanging[u]]

(* Mutant: the transaction is aborted before those in it are disposed. *)
DisposeTxnAbortsFirst(t) ==
    /\ Executing("Dispose", t)
    /\ _handle[t]
    /\ Unsubscribe(t)
    /\ Expand(Then("AbortIfActive", t) \o Each("Dispose", Disposing[t])
              \o Then("ZeroHandle", t))
    /\ UNCHANGED <<State, _handle, ParentTransaction, IsReadOnly, Transaction,
                   nativeVars>>

DisposeTxn(t) ==
    /\ Executing("Dispose", t)
    /\ _handle[t]
    /\ Unsubscribe(t)
    /\ Expand(Each("Dispose", Disposing[t]) \o Then("AbortIfActive", t)
              \o Then("ZeroHandle", t))
    /\ UNCHANGED <<State, _handle, ParentTransaction, IsReadOnly, Transaction,
                   nativeVars>>

(* Mutant: a transaction that was reset is not aborted. *)
AbortIfActiveNotReset(t) ==
    /\ Executing("AbortIfActive", t)
    /\ IF State[t] = "Active" THEN Expand(Then("Abort", t)) ELSE Return
    /\ UNCHANGED <<netVars, nativeVars>>

AbortIfActive(t) ==
    /\ Executing("AbortIfActive", t)
    /\ IF State[t] \in {"Active", "Reseted"} THEN Expand(Then("Abort", t)) ELSE Return
    /\ UNCHANGED <<netVars, nativeVars>>

ZeroHandle(x) ==
    /\ Executing("ZeroHandle", x)
    /\ _handle' = [_handle EXCEPT ![x] = FALSE]
    /\ Return
    /\ UNCHANGED <<State, ParentTransaction, IsReadOnly, Transaction,
                   Disposing, StateChanging, nativeVars>>

DisposeCursor(c) ==
    /\ Executing("Dispose", c)
    /\ _handle[c]
    /\ CloseCursor(c)
    /\ _handle' = [_handle EXCEPT ![c] = FALSE]
    /\ Disposing' = [Disposing EXCEPT ![Transaction[c]] = Unsubscribed(@, c)]
    /\ Return
    /\ UNCHANGED <<State, ParentTransaction, IsReadOnly, Transaction, StateChanging>>

DisposeEnv ==
    /\ Executing("Dispose", Env)
    /\ _handle[Env]
    /\ Expand(Each("Dispose", Disposing[Env]) \o Then("mdb_env_close", Env)
              \o Then("ZeroHandle", Env))
    /\ UNCHANGED <<netVars, nativeVars>>

CloseEnv ==
    /\ Executing("mdb_env_close", Env)
    /\ Return
    /\ UNCHANGED <<netVars, nativeVars>>

Next ==
    \/ \E t \in Txns :
          \/ \E parent \in Txns \cup {Nil}, ro \in BOOLEAN : BeginTransaction(t, parent, ro)
          \/ \E c \in Cursors : CreateCursor(c, t) \/ RenewCursor(c, t)
          \/ Reset(t) \/ Renew(t) \/ AskEnd(t)
          \/ Commit(t) \/ Abort(t) \/ CommitNative(t) \/ AbortNative(t)
          \/ DisposeTxn(t) \/ AbortIfActive(t)
    \/ \E c \in Cursors : DisposeCursor(c)
    \/ \E x \in Txns \cup Cursors \cup {Env} :
          AskDispose(x) \/ DisposeAgain(x) \/ ZeroHandle(x)
    \/ DisposeEnv \/ CloseEnv

Spec == Init /\ [][Next]_vars

-----------------------------------------------------------------------------
(* Properties *)

(* No cascade of events gives mdb.c the handle of a transaction or cursor  *)
(* that has ended: what Commit and Abort end, "must not be used again".    *)
NoMisuse == ~misuse

(* Between the calls of its user an object that still has its handle tells *)
(* the truth about it: nested transactions included, however they ended.   *)
HandlesAgree ==
    TypeOK /\ (calls = <<>> =>
        /\ \A t \in Txns : _handle[t] =>
              /\ State[t] = "Active" <=> mdb_txn[t] = "live"
              /\ State[t] = "Reseted" <=> mdb_txn[t] = "reset"
        /\ \A c \in Cursors : _handle[c] => mdb_cursor[c] = "open")

(* A transaction is committed by its own Commit: one whose parent commits  *)
(* is aborted, as ChildTransactionShouldBeAbortedIfParentIsCommited tests. *)
OnlyAskedCommits ==
    [][\A t, u \in Txns :
          Executing("mdb_txn_commit", t) /\ Live(u) /\ mdb_txn'[u] = "ended" => u = t]_vars

(* "All transactions, databases, and cursors must already be closed before *)
(* calling" mdb_env_close, and they are: no transaction keeps a slot of    *)
(* the reader table or the writer mutex, whatever the user left open.      *)
NothingLeft ==
    Executing("mdb_env_close", Env) =>
        /\ \A t \in Txns : ~Live(t)
        /\ \A c \in Cursors : mdb_cursor[c] # "open"
=============================================================================
