--------------------------- MODULE LMDBNetProofs ---------------------------
(***************************************************************************)
(* Proofs about LMDBNet, for any transactions and cursors, nested to any   *)
(* depth, and a user who disposes what has ended.                          *)
(*                                                                         *)
(* The stack of calls is always a block of transactions that end, each     *)
(* before the one it is nested in, above objects that are being disposed   *)
(* of, each before what owns it.  A handle is given up only when nothing   *)
(* is left that hangs from it, and a native transaction ends only when the *)
(* ones nested in it have ended.                                           *)
(***************************************************************************)
EXTENDS LMDBNet, WellFoundedInduction, SequenceTheorems, TLAPS

Objects == Txns \cup Cursors \cup {Env}
Frames == [verb : Verbs, obj : Objects]

Ending == {"Abort", "Commit", "mdb_txn_abort", "mdb_txn_commit"}
Begun == {"Abort", "Commit"}
Native == {"mdb_txn_abort", "mdb_txn_commit"}
Gone == {"Dispose", "ZeroHandle"}
Finished == {"Commited", "Aborted"}

(* x is one of the elements of s. *)
In(x, s) == \E i \in 1..Len(s) : s[i] = x

(* A call that is pending, and one that comes before the i-th of a stack. *)
Pending(w, V, x) == \E i \in 1..Len(w) : w[i].verb \in V /\ w[i].obj = x
Before(w, i, V, x) == \E j \in 1..i-1 : w[j].verb \in V /\ w[j].obj = x

(* t and all nested in it, when P are the parents. *)
Closed(P, X) == \A v \in Txns : P[v] \in X => v \in X
Sub(P, t) == {u \in Txns : \A X \in SUBSET Txns : t \in X /\ Closed(P, X) => u \in X}

LiveIn(m, t) == m[t] \in {"live", "reset"}

(* Transactions form trees, of objects that were constructed. *)
Trees ==
    /\ \A t \in Txns : State[t] = "none" =>
          ParentTransaction[t] = Nil /\ ~_handle[t] /\ mdb_txn[t] = "none"
    /\ \A w \in Txns : ParentTransaction[w] \in Txns =>
          /\ State[ParentTransaction[w]] # "none"
          /\ ParentTransaction[w] \notin Sub(ParentTransaction, w)
    /\ \A c \in Cursors : mc_txn[c] \in Txns => State[mc_txn[c]] # "none"
    /\ \A c \in Cursors : Transaction[c] \in Txns => State[Transaction[c]] # "none"

(* What is open is held, and what it hangs from is held too. *)
HeldTxns ==
    /\ \A t \in Txns : ParentTransaction[t] \in Txns /\ _handle[t] =>
          _handle[ParentTransaction[t]]
    /\ \A t \in Txns : LiveIn(mdb_txn, t) => _handle[t]
    /\ \A t \in Txns : LiveIn(mdb_txn, t) /\ ParentTransaction[t] \in Txns =>
          /\ mdb_txn[t] = "live" /\ mdb_txn[ParentTransaction[t]] = "live"
          /\ ~IsReadOnly[t] /\ ~IsReadOnly[ParentTransaction[t]]

HeldCursors ==
    /\ \A c \in Cursors : _handle[c] =>
          /\ Transaction[c] \in Txns /\ _handle[Transaction[c]]
          /\ mc_txn[c] \in Txns /\ mdb_cursor[c] = "open"
          /\ ~IsReadOnly[mc_txn[c]] => mc_txn[c] = Transaction[c]
    /\ \A c \in Cursors : mdb_cursor[c] = "open" =>
          \/ _handle[c]
          \/ mc_txn[c] \in Txns /\ LiveIn(mdb_txn, mc_txn[c]) /\ ~IsReadOnly[mc_txn[c]]

(* The subscribers of an event: who hangs from its source, once. *)
Subscribers ==
    /\ \A t \in Txns, x \in Txns : In(x, StateChanging[t]) => ParentTransaction[x] = t
    /\ \A t \in Txns : \A i, j \in 1..Len(StateChanging[t]) :
          StateChanging[t][i] = StateChanging[t][j] => i = j
    /\ \A t \in Txns, x \in Txns : In(x, Disposing[t]) => ParentTransaction[x] = t
    /\ \A t \in Txns, c \in Cursors : In(c, Disposing[t]) => Transaction[c] = t

(* Who has a handle is subscribed, unless it is being disposed of. *)
Subscribed ==
    /\ \A t \in Txns : _handle[t] /\ ~Pending(calls, {"ZeroHandle"}, t) =>
          /\ In(t, Disposing[Env])
          /\ ParentTransaction[t] \in Txns =>
                /\ In(t, Disposing[ParentTransaction[t]])
                /\ In(t, StateChanging[ParentTransaction[t]])
    /\ \A c \in Cursors : _handle[c] => In(c, Disposing[Transaction[c]])

(* An object tells the truth, except between the event and the native call. *)
Agree ==
    \A t \in Txns : _handle[t] =>
       /\ Pending(calls, Native, t) => LiveIn(mdb_txn, t) /\ State[t] \in Finished
       /\ ~Pending(calls, Native, t) =>
             /\ State[t] = "Active" <=> mdb_txn[t] = "live"
             /\ State[t] = "Reseted" <=> mdb_txn[t] = "reset"

(* What calls are about; those that end transactions come first. *)
Shape ==
    \A i \in 1..Len(calls) :
       /\ calls[i].verb \in Ending \cup {"AbortIfActive"} => calls[i].obj \in Txns
       /\ calls[i].verb = "ZeroHandle" => calls[i].obj \in Txns \cup {Env}
       /\ calls[i].verb = "mdb_env_close" => calls[i].obj = Env
       /\ calls[i].verb = "Dispose" /\ calls[i].obj = Env => Len(calls) = 1
       /\ calls[i].verb \in {"Commit", "mdb_txn_commit"} =>
             i = Len(calls) /\ _handle[calls[i].obj]
       /\ calls[i].verb \in Ending => \A j \in 1..i-1 : calls[j].verb \in Ending

(* Transactions that end are apart. *)
ApartIn(P, f, g) ==
    /\ f.verb \in Begun /\ g.verb \in Begun => Sub(P, f.obj) \cap Sub(P, g.obj) = {}
    /\ f.verb \in Begun /\ g.verb \in Native => g.obj \notin Sub(P, f.obj)
    /\ f.verb \in Native /\ g.verb \in Native => f.obj # g.obj

Apart ==
    \A i, j \in 1..Len(calls) : i # j => ApartIn(ParentTransaction, calls[i], calls[j])

(* What is to end has nothing to end before it but what is subscribed; at  *)
(* the native call all of that has ended or is about to.                   *)
Ready(S, h, P, T, subscribed, t) ==
    \A x \in Sub(P, t) : h[x] =>
       /\ S[x] \in {"Active", "Reseted"}
       /\ \A c \in Cursors : h[c] => T[c] # x
       /\ x # t => In(x, subscribed[P[x]])

Ends ==
    \A i \in 1..Len(calls) :
       /\ calls[i].verb \in Begun =>
             Ready(State, _handle, ParentTransaction, Transaction, StateChanging, calls[i].obj)
       /\ calls[i].verb \in Native =>
             /\ \A c \in Cursors : _handle[c] => Transaction[c] # calls[i].obj
             /\ \A w \in Txns : LiveIn(mdb_txn, w) /\ ParentTransaction[w] = calls[i].obj =>
                   Before(calls, i, {"Abort", "mdb_txn_abort"}, w)

(* What hangs from an object is disposed of before it is, and what is active *)
(* is aborted before its handle is given up.                                 *)
DisposesAt(i) ==
    /\ calls[i].verb \in {"AbortIfActive", "ZeroHandle"} /\ calls[i].obj \in Txns =>
          /\ \A x \in Txns : _handle[x] /\ ParentTransaction[x] = calls[i].obj =>
                Before(calls, i, Gone, x)
          /\ \A c \in Cursors : _handle[c] /\ Transaction[c] = calls[i].obj =>
                Before(calls, i, Gone, c)
    /\ calls[i].verb = "mdb_env_close" =>
          \A x \in Txns : _handle[x] => Before(calls, i, Gone, x)
    /\ calls[i].verb = "ZeroHandle" /\ calls[i].obj \in Txns
          /\ State[calls[i].obj] \in {"Active", "Reseted"} =>
       Before(calls, i, {"AbortIfActive", "Abort"}, calls[i].obj)

(* x hangs from t, directly or not. *)
Under(P, T, x, t) ==
    \/ x \in Sub(P, t) /\ x # t
    \/ x \in Cursors /\ T[x] \in Sub(P, t)

DisposesUnder ==
    \A k \in 1..Len(calls) : \A i \in 1..k-1 :
       calls[k].verb = "ZeroHandle" /\ calls[k].obj \in Txns /\ calls[i].verb = "Dispose" =>
          Under(ParentTransaction, Transaction, calls[i].obj, calls[k].obj)

Disposes == (\A i \in 1..Len(calls) : DisposesAt(i)) /\ DisposesUnder

Objs == Trees /\ HeldTxns /\ HeldCursors /\ Subscribers
Stack == Subscribed /\ Agree /\ Shape /\ Apart /\ Ends /\ Disposes
IInv == TypeOK /\ ~misuse /\ Objs /\ Stack

-----------------------------------------------------------------------------
(* Trees of transactions *)

(* What the model calls inside a transaction. *)
LEMMA InsideIs == \A t \in Txns : Inside(t) = Sub(ParentTransaction, t)
  BY DEF Inside, Sub, Closed

(* A transaction is inside itself. *)
LEMMA SubSelf ==
    ASSUME NEW P, NEW t \in Txns
    PROVE  t \in Sub(P, t)
  BY DEF Sub

(* With a transaction come the ones nested in it. *)
LEMMA SubClosed ==
    ASSUME NEW P, NEW t \in Txns, NEW u \in Sub(P, t), NEW v \in Txns, P[v] = u
    PROVE  v \in Sub(P, t)
  BY DEF Sub, Closed

(* Nothing else does. *)
LEMMA SubLeast ==
    ASSUME NEW P, NEW t \in Txns, NEW X \in SUBSET Txns, t \in X, Closed(P, X)
    PROVE  Sub(P, t) \subseteq X
  BY DEF Sub

(* All of it transactions. *)
LEMMA SubTxns ==
    ASSUME NEW P, NEW t \in Txns
    PROVE  Sub(P, t) \in SUBSET Txns
  BY DEF Sub

(* What is nested in something nested in t is nested in t. *)
LEMMA SubIn ==
    ASSUME NEW P, NEW t \in Txns, NEW u \in Sub(P, t)
    PROVE  Sub(P, u) \subseteq Sub(P, t)
  <1>1. Sub(P, t) \in SUBSET Txns /\ u \in Txns
    BY SubTxns
  <1>2. Closed(P, Sub(P, t))
    BY SubClosed, <1>1 DEF Closed
  <1> QED
    BY <1>1, <1>2, SubLeast

(* So is a child, with all that is nested in it. *)
LEMMA SubChild ==
    ASSUME NEW P, NEW u \in Txns, NEW w \in Txns, P[w] = u
    PROVE  w \in Sub(P, u) /\ Sub(P, w) \subseteq Sub(P, u)
  BY SubSelf, SubClosed, SubIn

(* The parent of what is strictly inside is inside. *)
LEMMA SubParent ==
    ASSUME NEW P, NEW t \in Txns, NEW x \in Sub(P, t), x # t
    PROVE  P[x] \in Sub(P, t)
  <1> DEFINE X == {u \in Sub(P, t) : u = t \/ P[u] \in Sub(P, t)}
  <1>1. X \in SUBSET Txns /\ t \in X
    BY SubTxns, SubSelf
  <1>2. Closed(P, X)
    <2> SUFFICES ASSUME NEW v \in Txns, P[v] \in X
                 PROVE  v \in X
      BY DEF Closed
    <2>1. P[v] \in Sub(P, t)
      OBVIOUS
    <2> QED
      BY <2>1, SubClosed
  <1>3. Sub(P, t) \subseteq X
    <2> HIDE DEF X
    <2> QED
      BY <1>1, <1>2, SubLeast
  <1> QED
    BY <1>3

(* What is nested in two children of one parent is not the same. *)
LEMMA SubApart ==
    ASSUME NEW P, NEW u, NEW w \in Txns, NEW z \in Txns, w # z,
           P[w] = u, P[z] = u, u \notin Sub(P, w), u \notin Sub(P, z)
    PROVE  Sub(P, w) \cap Sub(P, z) = {}
  <1> DEFINE X == Sub(P, w) \ Sub(P, z)
  <1>1. w \in X
    BY SubSelf, SubParent
  <1>2. X \in SUBSET Txns
    BY SubTxns
  <1>3. Closed(P, X)
    <2> SUFFICES ASSUME NEW v \in Txns, P[v] \in X
                 PROVE  v \in X
      BY DEF Closed
    <2>1. v \in Sub(P, w)
      BY SubClosed
    <2>2. ASSUME v \in Sub(P, z)
          PROVE  FALSE
      <3>1. CASE v = z
        BY <3>1
      <3>2. CASE v # z
        BY <2>2, <3>2, SubParent
      <3> QED
        BY <3>1, <3>2
    <2> QED
      BY <2>1, <2>2
  <1>4. Sub(P, w) \subseteq X
    <2> HIDE DEF X
    <2> QED
      BY <1>1, <1>2, <1>3, SubLeast
  <1> QED
    BY <1>4

-----------------------------------------------------------------------------
(* Stacks of calls *)

(* The first call of w has been replaced by those of fr. *)
Shifted(w, fr, v) ==
    /\ w \in Seq(Frames) /\ fr \in Seq(Frames) /\ v \in Seq(Frames)
    /\ Len(w) \in Nat /\ Len(fr) \in Nat /\ Len(v) = Len(fr) + Len(w) - 1
    /\ Len(w) > 0
    /\ \A i \in 1..Len(fr) : v[i] = fr[i]
    /\ \A i \in Len(fr) + 1..Len(v) : v[i] = w[i - Len(fr) + 1]

(* Expand puts the new calls in place of the first one. *)
LEMMA ExpandShifts ==
    ASSUME NEW w \in Seq(Frames), w # <<>>, NEW fr \in Seq(Frames)
    PROVE  Shifted(w, fr, fr \o Tail(w))
  <1>1. /\ Tail(w) \in Seq(Frames) /\ Len(Tail(w)) = Len(w) - 1
        /\ Len(w) \in Nat /\ Len(w) > 0 /\ Len(fr) \in Nat
        /\ \A i \in 1..Len(w) - 1 : Tail(w)[i] = w[i + 1]
    OBVIOUS
  <1>2. PICK v : v = fr \o Tail(w)
    OBVIOUS
  <1>3. PICK l \in Nat, m \in Nat : l = Len(w) /\ m = Len(fr)
    BY <1>1
  <1>4. v \in Seq(Frames) /\ Len(v) = Len(fr) + Len(w) - 1
    BY <1>1, <1>2
  <1>5. \A i \in 1..Len(fr) : v[i] = fr[i]
    BY <1>1, <1>2
  <1>6. \A i \in Len(fr) + 1..Len(v) : v[i] = Tail(w)[i - Len(fr)]
    BY <1>1, <1>2
  <1>7. ASSUME NEW i \in Len(fr) + 1..Len(v)
        PROVE  v[i] = w[i - Len(fr) + 1]
    <2>1. i - m \in 1..l - 1
      BY <1>3, <1>4
    <2>2. Tail(w)[i - m] = w[(i - m) + 1]
      BY <1>1, <1>3, <2>1
    <2> QED
      BY <1>3, <1>6, <2>2
  <1> QED
    BY <1>1, <1>2, <1>4, <1>5, <1>7 DEF Shifted

(* Return puts none there. *)
LEMMA ReturnShifts ==
    ASSUME NEW w \in Seq(Frames), w # <<>>
    PROVE  Shifted(w, <<>>, Tail(w))
  <1>1. /\ Tail(w) \in Seq(Frames) /\ Len(Tail(w)) = Len(w) - 1
        /\ Len(w) \in Nat /\ Len(w) > 0
        /\ \A i \in 1..Len(w) - 1 : Tail(w)[i] = w[i + 1]
    OBVIOUS
  <1>2. <<>> \in Seq(Frames) /\ Len(<<>>) = 0
    OBVIOUS
  <1> QED
    BY <1>1, <1>2 DEF Shifted

(* Every call of the new stack is a new one or one of the old. *)
Origin(w, fr, v, i) ==
    \/ i \in 1..Len(fr) /\ v[i] = fr[i]
    \/ /\ i - Len(fr) + 1 \in 2..Len(w) /\ i > Len(fr)
       /\ v[i] = w[i - Len(fr) + 1]

(* Every call of the new stack has one of the two origins. *)
LEMMA Origins ==
    ASSUME NEW w, NEW fr, NEW v, Shifted(w, fr, v), NEW i \in 1..Len(v)
    PROVE  Origin(w, fr, v, i)
  <1>1. PICK l \in Nat, m \in Nat : l = Len(w) /\ m = Len(fr)
    BY DEF Shifted
  <1>2. Len(v) = m + l - 1 /\ i \in Int
    BY <1>1 DEF Shifted
  <1>3. CASE i <= m
    BY <1>1, <1>2, <1>3 DEF Shifted, Origin
  <1>4. CASE i > m
    <2>1. i - m + 1 \in 2..l /\ i \in m + 1..Len(v)
      BY <1>2, <1>4
    <2>2. v[i] = w[i - m + 1]
      BY <2>1, <1>1 DEF Shifted
    <2> QED
      BY <1>1, <1>4, <2>1, <2>2 DEF Origin
  <1> QED
    BY <1>2, <1>3, <1>4

(* A call that was before another still is, unless it was the first; then  *)
(* one of the new calls does.                                              *)
LEMMA BeforeKept ==
    ASSUME NEW w, NEW fr, NEW v, Shifted(w, fr, v), NEW V, NEW x,
           NEW i \in 1..Len(v), i > Len(fr),
           Before(w, i - Len(fr) + 1, V, x),
           w[1].verb \in V /\ w[1].obj = x => Pending(fr, V, x)
    PROVE  Before(v, i, V, x)
  <1>1. PICK l \in Nat, m \in Nat : l = Len(w) /\ m = Len(fr)
    BY DEF Shifted
  <1>2. Len(v) = m + l - 1 /\ i \in Int
    BY <1>1 DEF Shifted
  <1>3. PICK j \in 1..(i - m + 1) - 1 : w[j].verb \in V /\ w[j].obj = x
    BY <1>1 DEF Before
  <1>4. CASE j = 1
    <2>1. PICK k \in 1..m : fr[k].verb \in V /\ fr[k].obj = x
      BY <1>1, <1>3, <1>4 DEF Pending
    <2>2. v[k] = fr[k] /\ k \in 1..i - 1
      BY <1>1, <1>2, <2>1 DEF Shifted
    <2> QED
      BY <2>1, <2>2 DEF Before
  <1>5. CASE j # 1
    <2>1. j + m - 1 \in m + 1..Len(v) /\ j + m - 1 \in 1..i - 1
      BY <1>2, <1>3, <1>5
    <2>2. v[j + m - 1] = w[(j + m - 1) - m + 1]
      BY <1>1, <2>1 DEF Shifted
    <2>3. (j + m - 1) - m + 1 = j
      BY <1>3, <1>2
    <2> QED
      BY <1>3, <2>1, <2>2, <2>3 DEF Before
  <1> QED
    BY <1>4, <1>5

(* A pending call is a new one or an old one that is not yet done. *)
LEMMA PendingNew ==
    ASSUME NEW w, NEW fr, NEW v, Shifted(w, fr, v), NEW V, NEW x
    PROVE  /\ Pending(v, V, x) => Pending(fr, V, x) \/ Pending(w, V, x)
           /\ Pending(fr, V, x) => Pending(v, V, x)
           /\ Pending(w, V, x) => Pending(v, V, x) \/ (w[1].verb \in V /\ w[1].obj = x)
  <1>1. PICK l \in Nat, m \in Nat : l = Len(w) /\ m = Len(fr)
    BY DEF Shifted
  <1>2. Len(v) = m + l - 1 /\ l > 0
    BY <1>1 DEF Shifted
  <1>3. ASSUME Pending(v, V, x)
        PROVE  Pending(fr, V, x) \/ Pending(w, V, x)
    <2>1. PICK i \in 1..Len(v) : v[i].verb \in V /\ v[i].obj = x
      BY <1>3 DEF Pending
    <2>2. Origin(w, fr, v, i)
      BY Origins
    <2>3. CASE i \in 1..Len(fr) /\ v[i] = fr[i]
      BY <2>1, <2>3 DEF Pending
    <2>4. CASE i - m + 1 \in 2..l /\ v[i] = w[i - m + 1]
      <3>1. i - m + 1 \in 1..Len(w)
        BY <2>4, <1>1
      <3> QED
        BY <2>1, <2>4, <3>1 DEF Pending
    <2> QED
      BY <1>1, <2>2, <2>3, <2>4 DEF Origin
  <1>4. ASSUME Pending(fr, V, x)
        PROVE  Pending(v, V, x)
    <2>1. PICK i \in 1..m : fr[i].verb \in V /\ fr[i].obj = x
      BY <1>1, <1>4 DEF Pending
    <2>2. i \in 1..Len(v) /\ v[i] = fr[i]
      BY <1>1, <1>2, <2>1 DEF Shifted
    <2> QED
      BY <2>1, <2>2 DEF Pending
  <1>5. ASSUME Pending(w, V, x), ~(w[1].verb \in V /\ w[1].obj = x)
        PROVE  Pending(v, V, x)
    <2>1. PICK j \in 1..l : w[j].verb \in V /\ w[j].obj = x
      BY <1>1, <1>5 DEF Pending
    <2>2. j + m - 1 \in m + 1..Len(v) /\ j + m - 1 \in 1..Len(v)
      BY <1>2, <1>5, <2>1
    <2>3. v[j + m - 1] = w[(j + m - 1) - m + 1]
      BY <1>1, <2>2 DEF Shifted
    <2>4. (j + m - 1) - m + 1 = j
      BY <2>1
    <2> QED
      BY <2>1, <2>2, <2>3, <2>4 DEF Pending
  <1> QED
    BY <1>3, <1>4, <1>5

-----------------------------------------------------------------------------
(* Subscriptions *)

Injective(s) == \A i, j \in 1..Len(s) : s[i] = s[j] => i = j

(* Every set of numbers up to n that is not empty has a greatest one. *)
LEMMA GreatestExists ==
    ASSUME NEW n \in Nat, NEW T, T \subseteq 1..n, T # {}
    PROVE  \E x \in T : \A y \in T : x >= y
  <1> DEFINE D == {d \in 0..n : n - d \in T}
  <1>0. n \in Nat /\ T \subseteq 1..n /\ T # {}
    OBVIOUS
  <1>1. D \subseteq Nat /\ D # {}
    <2>1. PICK x \in T : x \in 1..n
      BY <1>0
    <2>2. n - x \in 0..n /\ n - (n - x) = x
      BY <1>0, <2>1
    <2>3. n - x \in D
      BY <2>1, <2>2
    <2>4. D \subseteq Nat
      BY <1>0
    <2> QED
      BY <2>3, <2>4
  <1>2. \E d \in D : \A e \in D : ~(<<e, d>> \in OpToRel(<, Nat))
    <2> HIDE DEF D
    <2> QED
      BY <1>1, WFMin, NatLessThanWellFounded, Zenon
  <1>3. PICK d \in D : \A e \in D : ~(<<e, d>> \in OpToRel(<, Nat))
    BY <1>2
  <1>4. \A e \in D : <<e, d>> \in OpToRel(<, Nat) <=> e < d
    BY <1>1 DEF OpToRel
  <1>5. \A e \in D : d <= e
    <2> TAKE e \in D
    <2>1. ~(e < d)
      BY <1>3, <1>4
    <2>2. e \in Nat /\ d \in Nat
      BY <1>1
    <2> QED
      BY <2>1, <2>2
  <1>6. PICK x \in T : d = n - x
    <2>1. d \in 0..n /\ n - d \in T
      OBVIOUS
    <2>2. d = n - (n - d)
      BY <1>0, <2>1
    <2> QED
      BY <2>1, <2>2
  <1>7. \A y \in T : x >= y
    <2> TAKE y \in T
    <2>2. x \in Int /\ y \in 1..n /\ n \in Nat
      BY <1>0
    <2>3. n - y \in 0..n /\ n - (n - y) = y
      BY <2>2
    <2>4. n - y \in D
      BY <2>3
    <2>1. d <= n - y
      BY <1>5, <2>4
    <2> QED
      BY <1>6, <2>1, <2>2
  <1> QED
    BY <1>7

(* r is xs without its k-th element. *)
Without(xs, k, r) ==
    /\ Len(r) = Len(xs) - 1
    /\ \A i \in 1..Len(r) : r[i] = IF i < k THEN xs[i] ELSE xs[i + 1]

(* RemoveAt leaves all the other elements in their order. *)
LEMMA RemoveAtIs ==
    ASSUME NEW S, NEW xs \in Seq(S), NEW k \in 1..Len(xs)
    PROVE  RemoveAt(xs, k) \in Seq(S) /\ Without(xs, k, RemoveAt(xs, k))
  <1>1. PICK l \in Nat : l = Len(xs)
    OBVIOUS
  <1>2. PICK a, b : a = SubSeq(xs, 1, k - 1) /\ b = SubSeq(xs, k + 1, l)
    OBVIOUS
  <1>3. /\ a \in Seq(S) /\ Len(a) = k - 1
        /\ \A i \in 1..k - 1 : a[i] = xs[i]
    BY <1>1, <1>2
  <1>4. /\ b \in Seq(S) /\ Len(b) = l - k
        /\ \A i \in 1..l - k : b[i] = xs[k + i]
    BY <1>1, <1>2
  <1>5. PICK r : r = a \o b
    OBVIOUS
  <1>6. r \in Seq(S) /\ Len(r) = l - 1
    BY <1>1, <1>3, <1>4, <1>5
  <1>7. \A i \in 1..l - 1 : r[i] = IF i <= k - 1 THEN a[i] ELSE b[i - (k - 1)]
    BY <1>1, <1>3, <1>4, <1>5
  <1>8. ASSUME NEW i \in 1..l - 1
        PROVE  r[i] = IF i < k THEN xs[i] ELSE xs[i + 1]
    <2>1. CASE i < k
      <3>1. i <= k - 1 /\ i \in 1..k - 1
        BY <1>1, <2>1
      <3> QED
        BY <1>3, <1>7, <2>1, <3>1
    <2>2. CASE ~(i < k)
      <3>1. ~(i <= k - 1) /\ i - (k - 1) \in 1..l - k /\ k + (i - (k - 1)) = i + 1
        BY <1>1, <2>2
      <3>2. b[i - (k - 1)] = xs[k + (i - (k - 1))]
        BY <1>4, <3>1
      <3> QED
        BY <1>7, <2>2, <3>1, <3>2
    <2> QED
      BY <2>1, <2>2
  <1>9. r = RemoveAt(xs, k)
    BY <1>1, <1>2, <1>5 DEF RemoveAt
  <1>10. Without(xs, k, r)
    BY <1>1, <1>6, <1>8 DEF Without
  <1> QED
    BY <1>6, <1>9, <1>10

(* Who unsubscribes is the only one whose subscription goes. *)
Left(xs, x, r) ==
    /\ \A y : In(y, r) => In(y, xs)
    /\ \A y : y # x /\ In(y, xs) => In(y, r)
    /\ Injective(xs) => Injective(r)

(* Without an element, a list has lost that subscriber and no other. *)
LEMMA WithoutLeft ==
    ASSUME NEW S, NEW xs \in Seq(S), NEW r \in Seq(S), NEW k \in 1..Len(xs),
           NEW x, xs[k] = x, Without(xs, k, r)
    PROVE  Left(xs, x, r)
  <1>1. PICK l \in Nat : l = Len(xs) /\ Len(r) = l - 1
    BY DEF Without
  <1>2. \A i \in 1..l - 1 : r[i] = IF i < k THEN xs[i] ELSE xs[i + 1]
    BY <1>1 DEF Without
  <1>3. ASSUME NEW y, In(y, r)
        PROVE  In(y, xs)
    <2>1. PICK i \in 1..l - 1 : r[i] = y
      BY <1>1, <1>3 DEF In
    <2>2. i \in 1..l /\ i + 1 \in 1..l /\ (xs[i] = y \/ xs[i + 1] = y)
      BY <1>2, <2>1
    <2> QED
      BY <1>1, <2>2 DEF In
  <1>4. ASSUME NEW y, y # x, In(y, xs)
        PROVE  In(y, r)
    <2>1. PICK i \in 1..l : xs[i] = y
      BY <1>1, <1>4 DEF In
    <2>2. CASE i < k
      <3>1. i \in 1..l - 1 /\ r[i] = xs[i]
        BY <1>1, <1>2, <2>2
      <3> QED
        BY <1>1, <2>1, <3>1 DEF In
    <2>3. CASE i > k
      <3>1. i - 1 \in 1..l - 1 /\ ~(i - 1 < k) /\ (i - 1) + 1 = i
        BY <1>1, <2>3
      <3>2. r[i - 1] = xs[(i - 1) + 1]
        BY <1>2, <3>1
      <3> QED
        BY <1>1, <2>1, <3>1, <3>2 DEF In
    <2> QED
      BY <1>1, <1>4, <2>1, <2>2, <2>3
  <1>5. ASSUME Injective(xs)
        PROVE  Injective(r)
    <2>1. \A i, j \in 1..l : xs[i] = xs[j] => i = j
      BY <1>1, <1>5 DEF Injective
    <2>2. ASSUME NEW i \in 1..l - 1, NEW j \in 1..l - 1, r[i] = r[j]
          PROVE  i = j
      <3>1. i \in 1..l /\ i + 1 \in 1..l /\ j \in 1..l /\ j + 1 \in 1..l
        OBVIOUS
      <3>2. /\ r[i] = IF i < k THEN xs[i] ELSE xs[i + 1]
            /\ r[j] = IF j < k THEN xs[j] ELSE xs[j + 1]
        BY <1>2
      <3>3. CASE i < k /\ j < k
        BY <2>1, <2>2, <3>1, <3>2, <3>3
      <3>4. CASE i < k /\ ~(j < k)
        <4>1. xs[i] = xs[j + 1]
          BY <2>2, <3>2, <3>4
        <4>2. i = j + 1
          BY <2>1, <3>1, <4>1
        <4> QED
          BY <3>4, <4>2
      <3>5. CASE ~(i < k) /\ j < k
        <4>1. xs[i + 1] = xs[j]
          BY <2>2, <3>2, <3>5
        <4>2. i + 1 = j
          BY <2>1, <3>1, <4>1
        <4> QED
          BY <3>5, <4>2
      <3>6. CASE ~(i < k) /\ ~(j < k)
        <4>1. xs[i + 1] = xs[j + 1]
          BY <2>2, <3>2, <3>6
        <4>2. i + 1 = j + 1
          BY <2>1, <3>1, <4>1
        <4> QED
          BY <4>2
      <3> QED
        BY <3>3, <3>4, <3>5, <3>6
    <2> QED
      BY <1>1, <2>2 DEF Injective
  <1> QED
    BY <1>3, <1>4, <1>5 DEF Left

(* So has it after "-=", which may find nothing to remove. *)
LEMMA UnsubscribedIs ==
    ASSUME NEW S, NEW xs \in Seq(S), NEW x
    PROVE  /\ Unsubscribed(xs, x) \in Seq(S)
           /\ Left(xs, x, Unsubscribed(xs, x))
  <1> DEFINE I == {i \in 1..Len(xs) : xs[i] = x}
  <1> DEFINE last == IF I # {} THEN Max(I) ELSE 0
  <1>1. Unsubscribed(xs, x) = IF last = 0 THEN xs ELSE RemoveAt(xs, last)
    BY DEF Unsubscribed, SelectLastInSeq
  <1>2. CASE I = {}
    <2>1. Unsubscribed(xs, x) = xs
      BY <1>1, <1>2
    <2> QED
      BY <2>1 DEF Left
  <1>3. CASE I # {}
    <2>1. Len(xs) \in Nat /\ I \subseteq 1..Len(xs)
      OBVIOUS
    <2>2. \E a \in I : \A b \in I : a >= b
      <3> HIDE DEF I
      <3> QED
        BY <1>3, <2>1, GreatestExists
    <2>3. Max(I) \in I
      BY <2>2 DEF Max
    <2>4. last \in I
      BY <1>3, <2>3
    <2>5. PICK k \in 1..Len(xs) : k = last /\ xs[k] = x
      BY <2>4
    <2>6. PICK r : r = RemoveAt(xs, k)
      OBVIOUS
    <2>7. Unsubscribed(xs, x) = r
      BY <1>1, <2>1, <2>5, <2>6
    <2>8. r \in Seq(S) /\ Without(xs, k, r)
      BY <2>6, RemoveAtIs
    <2>9. Left(xs, x, r)
      BY <2>5, <2>8, WithoutLeft
    <2> QED
      BY <2>7, <2>8, <2>9
  <1> QED
    BY <1>2, <1>3

(* Who subscribes is the only new subscriber. *)
LEMMA AppendIs ==
    ASSUME NEW S, NEW xs \in Seq(S), NEW x \in S
    PROVE  /\ Append(xs, x) \in Seq(S)
           /\ \A y : In(y, Append(xs, x)) <=> In(y, xs) \/ y = x
           /\ Injective(xs) /\ ~In(x, xs) => Injective(Append(xs, x))
  <1>0. PICK l \in Nat : l = Len(xs)
    OBVIOUS
  <1>1. PICK r : r = Append(xs, x)
    OBVIOUS
  <1>2. r \in Seq(S) /\ Len(r) = l + 1 /\ r[l + 1] = x
    BY <1>0, <1>1
  <1>3. \A i \in 1..l : r[i] = xs[i]
    BY <1>0, <1>1
  <1>4. ASSUME NEW y
        PROVE  In(y, r) <=> In(y, xs) \/ y = x
    BY <1>0, <1>2, <1>3 DEF In
  <1>5. ASSUME Injective(xs), ~In(x, xs)
        PROVE  Injective(r)
    BY <1>0, <1>2, <1>3, <1>5 DEF In, Injective
  <1> QED
    BY <1>1, <1>2, <1>4, <1>5

-----------------------------------------------------------------------------
(* The calls that one call makes *)

(* A sequence and another one behind it. *)
Joined(a, b, r) ==
    /\ Len(r) = Len(a) + Len(b) /\ Len(a) \in Nat /\ Len(b) \in Nat
    /\ \A i \in 1..Len(a) : r[i] = a[i]
    /\ \A i \in 1..Len(b) : r[Len(a) + i] = b[i]

(* That is what concatenation makes. *)
LEMMA JoinedIs ==
    ASSUME NEW S, NEW a \in Seq(S), NEW b \in Seq(S)
    PROVE  a \o b \in Seq(S) /\ Joined(a, b, a \o b)
  <1>1. PICK l \in Nat : l = Len(a)
    OBVIOUS
  <1>2. PICK m \in Nat : m = Len(b)
    OBVIOUS
  <1>3. PICK r : r = a \o b
    OBVIOUS
  <1>4. r \in Seq(S) /\ Len(r) = l + m
    BY <1>1, <1>2, <1>3, ConcatProperties
  <1>5. \A i \in 1..l : r[i] = a[i]
    BY <1>1, <1>2, <1>3, ConcatProperties
  <1>6. \A i \in 1..m : r[l + i] = b[i]
    BY <1>1, <1>2, <1>3, ConcatProperties
  <1> QED
    BY <1>1, <1>2, <1>3, <1>4, <1>5, <1>6 DEF Joined

(* fr calls V for each of xs. *)
Calls(fr, V, xs) ==
    /\ \A i \in 1..Len(xs) : fr[i] = [verb |-> V, obj |-> xs[i]]

(* That is what an event sets off. *)
LEMMA EachIs ==
    ASSUME NEW S \in SUBSET Objects, NEW V \in Verbs, NEW xs \in Seq(S)
    PROVE  /\ Each(V, xs) \in Seq(Frames) /\ Len(Each(V, xs)) = Len(xs)
           /\ Calls(Each(V, xs), V, xs)
  <1>1. DOMAIN xs = 1..Len(xs) /\ Len(xs) \in Nat /\ \A i \in 1..Len(xs) : xs[i] \in S
    OBVIOUS
  <1>2. PICK e : e = Each(V, xs)
    OBVIOUS
  <1>3. e = [i \in 1..Len(xs) |-> [verb |-> V, obj |-> xs[i]]]
    BY <1>1, <1>2 DEF Each
  <1>4. \A i \in 1..Len(xs) : [verb |-> V, obj |-> xs[i]] \in Frames
    BY <1>1 DEF Frames
  <1>5. e \in [1..Len(xs) -> Frames]
    BY <1>3, <1>4
  <1>6. e \in Seq(Frames) /\ Len(e) = Len(xs)
    BY <1>1, <1>5
  <1> QED
    BY <1>2, <1>3, <1>6 DEF Calls

(* One more call. *)
LEMMA ThenIs ==
    ASSUME NEW V \in Verbs, NEW x \in Objects
    PROVE  Then(V, x) \in Seq(Frames) /\ Len(Then(V, x)) = 1
             /\ Then(V, x)[1] = [verb |-> V, obj |-> x]
  BY DEF Then, Frames

(* The calls of an event, then one call. *)
OneMore(fr, V, xs, U, x) ==
    /\ fr \in Seq(Frames) /\ Len(fr) = Len(xs) + 1 /\ Len(xs) \in Nat
    /\ Calls(fr, V, xs)
    /\ fr[Len(xs) + 1] = [verb |-> U, obj |-> x]

(* The two together. *)
LEMMA OneMoreIs ==
    ASSUME NEW S \in SUBSET Objects, NEW V \in Verbs, NEW xs \in Seq(S),
           NEW U \in Verbs, NEW x \in Objects
    PROVE  OneMore(Each(V, xs) \o Then(U, x), V, xs, U, x)
  <1>1. PICK e, f : e = Each(V, xs) /\ f = Then(U, x)
    OBVIOUS
  <1>2. /\ e \in Seq(Frames) /\ Len(e) = Len(xs) /\ Calls(e, V, xs)
        /\ f \in Seq(Frames) /\ Len(f) = 1 /\ f[1] = [verb |-> U, obj |-> x]
    BY <1>1, EachIs, ThenIs
  <1>3. PICK l \in Nat : l = Len(xs)
    OBVIOUS
  <1>r. PICK r : r = e \o f
    OBVIOUS
  <1>j. r \in Seq(Frames) /\ Joined(e, f, r)
    BY <1>2, <1>r, JoinedIs
  <1>4. r \in Seq(Frames) /\ Len(r) = l + 1
    BY <1>2, <1>3, <1>j DEF Joined
  <1>5. (\A i \in 1..l : r[i] = e[i]) /\ r[l + 1] = f[1]
    BY <1>2, <1>3, <1>j DEF Joined
  <1> QED
    BY <1>1, <1>2, <1>3, <1>4, <1>5, <1>r DEF OneMore, Calls

(* The calls of an event, then two calls. *)
TwoMore(fr, V, xs, U, x, W, y) ==
    /\ fr \in Seq(Frames) /\ Len(fr) = Len(xs) + 2 /\ Len(xs) \in Nat
    /\ Calls(fr, V, xs)
    /\ fr[Len(xs) + 1] = [verb |-> U, obj |-> x]
    /\ fr[Len(xs) + 2] = [verb |-> W, obj |-> y]

(* The three together. *)
LEMMA TwoMoreIs ==
    ASSUME NEW S \in SUBSET Objects, NEW V \in Verbs, NEW xs \in Seq(S),
           NEW U \in Verbs, NEW x \in Objects, NEW W \in Verbs, NEW y \in Objects
    PROVE  TwoMore(Each(V, xs) \o Then(U, x) \o Then(W, y), V, xs, U, x, W, y)
  <1>1. PICK e, f : e = Each(V, xs) \o Then(U, x) /\ f = Then(W, y)
    OBVIOUS
  <1>2. OneMore(e, V, xs, U, x)
    BY <1>1, OneMoreIs
  <1>3. f \in Seq(Frames) /\ Len(f) = 1 /\ f[1] = [verb |-> W, obj |-> y]
    BY <1>1, ThenIs
  <1>4. PICK l \in Nat : l = Len(xs)
    OBVIOUS
  <1>r. PICK r : r = e \o f
    OBVIOUS
  <1>5. e \in Seq(Frames) /\ Len(e) = l + 1 /\ Calls(e, V, xs)
        /\ e[l + 1] = [verb |-> U, obj |-> x]
    BY <1>2, <1>4 DEF OneMore
  <1>j. r \in Seq(Frames) /\ Joined(e, f, r)
    BY <1>3, <1>5, <1>r, JoinedIs
  <1>6. r \in Seq(Frames) /\ Len(r) = l + 2
    BY <1>3, <1>4, <1>5, <1>j DEF Joined
  <1>7. (\A i \in 1..l + 1 : r[i] = e[i]) /\ r[l + 2] = f[1]
    BY <1>3, <1>4, <1>5, <1>j DEF Joined
  <1>8. \A i \in 1..l : r[i] = [verb |-> V, obj |-> xs[i]]
    <2> TAKE i \in 1..l
    <2>1. i \in 1..l + 1
      BY <1>4
    <2>2. e[i] = [verb |-> V, obj |-> xs[i]]
      BY <1>4, <1>5 DEF Calls
    <2> QED
      BY <1>7, <2>1, <2>2
  <1>9. r[l + 1] = [verb |-> U, obj |-> x] /\ r[l + 2] = [verb |-> W, obj |-> y]
    <2>1. l + 1 \in 1..l + 1
      BY <1>4
    <2> QED
      BY <1>3, <1>5, <1>7, <2>1
  <1> QED
    BY <1>1, <1>4, <1>6, <1>8, <1>9, <1>r DEF TwoMore, Calls

-----------------------------------------------------------------------------
(* Types *)

(* No object is of two classes. *)
LEMMA ObjectsApart ==
    /\ \A t \in Txns : t \notin Cursors /\ t # Env /\ t # Nil
    /\ \A c \in Cursors : c \notin Txns /\ c # Env /\ c # Nil
    /\ Env # Nil
  BY ObjectsAssumption

(* The call that is executed. *)
LEMMA HeadIs ==
    ASSUME TypeOK, NEW V, NEW x, Executing(V, x)
    PROVE  /\ calls \in Seq(Frames) /\ calls # <<>>
           /\ Len(calls) \in Nat /\ Len(calls) > 0
           /\ calls[1] \in Frames /\ calls[1].verb = V /\ calls[1].obj = x
  <1>1. calls \in Seq(Frames)
    BY DEF TypeOK, Frames, Objects
  <1>2. calls # <<>> /\ Head(calls) = [verb |-> V, obj |-> x]
    BY DEF Executing
  <1>3. Head(calls) = calls[1] /\ Len(calls) \in Nat /\ Len(calls) > 0 /\ calls[1] \in Frames
    BY <1>1, <1>2
  <1>4. calls[1] = [verb |-> V, obj |-> x]
    BY <1>2, <1>3
  <1>5. calls[1].verb = V /\ calls[1].obj = x
    BY <1>4
  <1> QED
    BY <1>1, <1>2, <1>3, <1>5

(* How the calls change: by one that returns, by one that makes others. *)
LEMMA Returns ==
    ASSUME TypeOK, calls # <<>>, Return
    PROVE  Shifted(calls, <<>>, calls')
  <1>1. calls \in Seq(Frames)
    BY DEF TypeOK, Frames, Objects
  <1>2. Shifted(calls, <<>>, Tail(calls))
    BY <1>1, ReturnShifts
  <1> QED
    BY <1>2 DEF Return

(* The same of the stack of the model, for a call that makes others. *)
LEMMA Expands ==
    ASSUME TypeOK, calls # <<>>, NEW fr \in Seq(Frames), Expand(fr)
    PROVE  Shifted(calls, fr, calls')
  <1>1. calls \in Seq(Frames)
    BY DEF TypeOK, Frames, Objects
  <1>2. Shifted(calls, fr, fr \o Tail(calls))
    BY <1>1, ExpandShifts
  <1> QED
    BY <1>2 DEF Expand

(* The calls of a transaction that ends. *)
LEMMA EndCalls ==
    ASSUME TypeOK, NEW t \in Txns, NEW U \in Native,
           calls # <<>>, Expand(Each("Abort", StateChanging[t]) \o Then(U, t))
    PROVE  \E fr : /\ Shifted(calls, fr, calls')
                   /\ OneMore(fr, "Abort", StateChanging[t], U, t)
  <1>1. StateChanging[t] \in Seq(Txns) /\ Txns \in SUBSET Objects /\ t \in Objects
    BY DEF TypeOK, Objects
  <1>2. "Abort" \in Verbs /\ U \in Verbs
    BY DEF Verbs, Native
  <1>3. PICK fr : fr = Each("Abort", StateChanging[t]) \o Then(U, t)
    OBVIOUS
  <1>4. PICK xs : xs = StateChanging[t]
    OBVIOUS
  <1>5. OneMore(fr, "Abort", xs, U, t)
    BY <1>1, <1>2, <1>3, <1>4, OneMoreIs
  <1>6. fr \in Seq(Frames)
    BY <1>5 DEF OneMore
  <1>7. Expand(fr)
    BY <1>3
  <1>8. Shifted(calls, fr, calls')
    BY <1>6, <1>7, Expands
  <1> QED
    BY <1>4, <1>5, <1>8

(* The calls of an object that is disposed of. *)
LEMMA DisposeCalls ==
    ASSUME TypeOK, NEW x \in Txns \cup {Env}, NEW U \in Verbs,
           calls # <<>>,
           Expand(Each("Dispose", Disposing[x]) \o Then(U, x) \o Then("ZeroHandle", x))
    PROVE  \E fr : /\ Shifted(calls, fr, calls')
                   /\ TwoMore(fr, "Dispose", Disposing[x], U, x, "ZeroHandle", x)
  <1>1. Disposing[x] \in Seq(Txns \cup Cursors)
        /\ Txns \cup Cursors \in SUBSET Objects /\ x \in Objects
    BY DEF TypeOK, Objects
  <1>2. "Dispose" \in Verbs /\ "ZeroHandle" \in Verbs
    BY DEF Verbs
  <1>3. PICK fr : fr = Each("Dispose", Disposing[x]) \o Then(U, x) \o Then("ZeroHandle", x)
    OBVIOUS
  <1>4. PICK xs : xs = Disposing[x]
    OBVIOUS
  <1>5. TwoMore(fr, "Dispose", xs, U, x, "ZeroHandle", x)
    BY <1>1, <1>2, <1>3, <1>4, TwoMoreIs
  <1>6. fr \in Seq(Frames)
    BY <1>5 DEF TwoMore
  <1>7. Expand(fr)
    BY <1>3
  <1>8. Shifted(calls, fr, calls')
    BY <1>6, <1>7, Expands
  <1> QED
    BY <1>4, <1>5, <1>8

(* A stack so made is a stack. *)
LEMMA ShiftedType ==
    ASSUME NEW w, NEW fr, NEW v, Shifted(w, fr, v)
    PROVE  v \in Seq([verb : Verbs, obj : Txns \cup Cursors \cup {Env}])
  BY DEF Shifted, Frames, Objects

(* Without Disposing, for each kind of step. *)
OtherTypes ==
    /\ State \in [Txns -> States]
    /\ _handle \in [Txns \cup Cursors \cup {Env} -> BOOLEAN]
    /\ ParentTransaction \in [Txns -> Txns \cup {Nil}]
    /\ IsReadOnly \in [Txns -> BOOLEAN]
    /\ Transaction \in [Cursors -> Txns \cup {Nil}]
    /\ mdb_txn \in [Txns -> {"none", "live", "reset", "ended"}]
    /\ mdb_cursor \in [Cursors -> {"none", "open", "freed"}]
    /\ mc_txn \in [Cursors -> Txns \cup {Nil}]
    /\ misuse \in BOOLEAN

EventTypes ==
    /\ Disposing \in [Txns \cup {Env} -> Seq(Txns \cup Cursors)]
    /\ StateChanging \in [Txns -> Seq(Txns)]

CallTypes == calls \in Seq([verb : Verbs, obj : Txns \cup Cursors \cup {Env}])

(* The type invariant in parts. *)
LEMMA Types == TypeOK <=> OtherTypes /\ EventTypes /\ CallTypes
  BY DEF TypeOK, OtherTypes, EventTypes, CallTypes

(* The same after a step. *)
LEMMA TypesNext == TypeOK' <=> OtherTypes' /\ EventTypes' /\ CallTypes'
  BY Types, PTL

(* Steps keep the types of what is not a list. *)
LEMMA OtherTypesInd ==
    ASSUME TypeOK, [Next]_vars
    PROVE  OtherTypes'
  <1> USE DEF TypeOK, OtherTypes
  <1>1. ASSUME NEW t \in Txns, NEW parent \in Txns \cup {Nil}, NEW ro \in BOOLEAN,
               BeginTransaction(t, parent, ro)
        PROVE  OtherTypes'
    BY <1>1 DEF BeginTransaction, States
  <1>2. ASSUME NEW t \in Txns, NEW c \in Cursors, CreateCursor(c, t)
        PROVE  OtherTypes'
    BY <1>2 DEF CreateCursor
  <1>3. ASSUME NEW t \in Txns, NEW c \in Cursors, RenewCursor(c, t)
        PROVE  OtherTypes'
    BY <1>3 DEF RenewCursor, netVars
  <1>4. ASSUME NEW t \in Txns, Reset(t) \/ Renew(t)
        PROVE  OtherTypes'
    BY <1>4 DEF Reset, Renew, States
  <1>5. ASSUME NEW t \in Txns, AskEnd(t)
        PROVE  OtherTypes'
    BY <1>5 DEF AskEnd, netVars, nativeVars
  <1>6. ASSUME NEW t \in Txns, Commit(t) \/ Abort(t)
        PROVE  OtherTypes'
    BY <1>6 DEF Commit, Abort, States, nativeVars
  <1>7. ASSUME NEW t \in Txns, End(t), UNCHANGED netVars
        PROVE  OtherTypes'
    BY <1>7 DEF End, netVars
  <1>8. ASSUME NEW t \in Txns, CommitNative(t) \/ AbortNative(t)
        PROVE  OtherTypes'
    <2>1. UNCHANGED netVars /\ (End(t) \/ UNCHANGED nativeVars)
      BY <1>8 DEF CommitNative, AbortNative
    <2>2. CASE UNCHANGED nativeVars
      BY <2>1, <2>2 DEF netVars, nativeVars
    <2> QED
      BY <2>1, <2>2, <1>7
  <1>9. ASSUME NEW t \in Txns, DisposeTxn(t)
        PROVE  OtherTypes'
    BY <1>9 DEF DisposeTxn, nativeVars
  <1>10. ASSUME NEW t \in Txns, AbortIfActive(t)
        PROVE  OtherTypes'
    BY <1>10 DEF AbortIfActive, netVars, nativeVars
  <1>11. ASSUME NEW c \in Cursors, DisposeCursor(c)
        PROVE  OtherTypes'
    BY <1>11 DEF DisposeCursor, CloseCursor
  <1>12. ASSUME NEW x \in Txns \cup Cursors \cup {Env},
                AskDispose(x) \/ DisposeAgain(x)
        PROVE  OtherTypes'
    BY <1>12 DEF AskDispose, DisposeAgain, netVars, nativeVars
  <1>13. ASSUME NEW x \in Txns \cup Cursors \cup {Env}, ZeroHandle(x)
        PROVE  OtherTypes'
    BY <1>13 DEF ZeroHandle, nativeVars
  <1>14. CASE DisposeEnv \/ CloseEnv
    BY <1>14 DEF DisposeEnv, CloseEnv, netVars, nativeVars
  <1>15. CASE UNCHANGED vars
    BY <1>15 DEF vars, netVars, nativeVars
  <1> QED
    BY <1>1, <1>2, <1>3, <1>4, <1>5, <1>6, <1>8, <1>9, <1>10, <1>11, <1>12,
       <1>13,
       <1>14, <1>15 DEF Next

(* Steps keep the lists of subscribers lists of objects. *)
LEMMA EventTypesInd ==
    ASSUME TypeOK, [Next]_vars
    PROVE  EventTypes'
  <1>0. /\ Disposing \in [Txns \cup {Env} -> Seq(Txns \cup Cursors)]
        /\ StateChanging \in [Txns -> Seq(Txns)]
        /\ Transaction \in [Cursors -> Txns \cup {Nil}]
    BY DEF TypeOK
  <1>1. ASSUME NEW t \in Txns, NEW parent \in Txns \cup {Nil}, NEW ro \in BOOLEAN,
               BeginTransaction(t, parent, ro)
        PROVE  EventTypes'
    <2>1. ASSUME NEW x \in Txns \cup {Env}
          PROVE  /\ Disposing[x] \in Seq(Txns \cup Cursors)
                 /\ Append(Disposing[x], t) \in Seq(Txns \cup Cursors)
      BY <1>0, AppendIs
    <2>2. ASSUME NEW u \in Txns
          PROVE  /\ StateChanging[u] \in Seq(Txns)
                 /\ Append(StateChanging[u], t) \in Seq(Txns)
      BY <1>0, AppendIs
    <2> QED
      BY <1>1, <2>1, <2>2 DEF BeginTransaction, EventTypes
  <1>2. ASSUME NEW t \in Txns, NEW c \in Cursors, CreateCursor(c, t)
        PROVE  EventTypes'
    <2>1. Append(Disposing[t], c) \in Seq(Txns \cup Cursors)
      BY <1>0, AppendIs
    <2> QED
      BY <1>0, <1>2, <2>1 DEF CreateCursor, EventTypes
  <1>9. ASSUME NEW t \in Txns, DisposeTxn(t)
        PROVE  EventTypes'
    <2>1. ASSUME NEW x \in Txns \cup {Env}
          PROVE  /\ Disposing[x] \in Seq(Txns \cup Cursors)
                 /\ Unsubscribed(Disposing[x], t) \in Seq(Txns \cup Cursors)
      BY <1>0, UnsubscribedIs
    <2>2. ASSUME NEW u \in Txns
          PROVE  /\ StateChanging[u] \in Seq(Txns)
                 /\ Unsubscribed(StateChanging[u], t) \in Seq(Txns)
      BY <1>0, UnsubscribedIs
    <2> QED
      BY <1>9, <2>1, <2>2 DEF DisposeTxn, Unsubscribe, EventTypes
  <1>11. ASSUME NEW c \in Cursors, DisposeCursor(c)
        PROVE  EventTypes'
    <2>1. CASE Transaction[c] \in Txns
      <3>1. Unsubscribed(Disposing[Transaction[c]], c) \in Seq(Txns \cup Cursors)
        BY <1>0, <2>1, UnsubscribedIs
      <3> QED
        BY <1>0, <1>11, <3>1 DEF DisposeCursor, EventTypes
    <2>2. CASE Transaction[c] \notin Txns
      <3>1. Transaction[c] \notin Txns \cup {Env}
        BY <1>0, <2>2, ObjectsApart
      <3> QED
        BY <1>0, <1>11, <3>1 DEF DisposeCursor, EventTypes
    <2> QED
      BY <2>1, <2>2
  <1>12. CASE UNCHANGED <<Disposing, StateChanging>>
    BY <1>0, <1>12 DEF EventTypes
  <1> QED
    BY <1>1, <1>2, <1>9, <1>11, <1>12
    DEF Next, RenewCursor, Reset, Renew, AskEnd, Commit, Abort, CommitNative,
        AbortNative, AbortIfActive, AskDispose, DisposeAgain, ZeroHandle, DisposeEnv,
        CloseEnv, netVars, vars

(* The new calls of a step. *)
LEMMA CallTypesInd ==
    ASSUME TypeOK, [Next]_vars
    PROVE  CallTypes'
  <1>0. CallTypes
    BY Types
  <1>1. ASSUME calls # <<>>, Return
        PROVE  CallTypes'
    BY <1>1, Returns, ShiftedType DEF CallTypes
  <1>2. ASSUME NEW V \in Verbs, NEW x \in Objects, Ask(V, x)
        PROVE  CallTypes'
    BY <1>2 DEF Ask, CallTypes, Objects
  <1>3. ASSUME NEW t \in Txns, AskEnd(t)
        PROVE  CallTypes'
    <2>1. t \in Objects /\ "Commit" \in Verbs /\ "Abort" \in Verbs
      BY DEF Objects, Verbs
    <2> QED
      BY <1>2, <1>3, <2>1 DEF AskEnd
  <1>4. ASSUME NEW t \in Txns, Commit(t) \/ Abort(t)
        PROVE  CallTypes'
    <2>1. calls # <<>>
      BY <1>4 DEF Commit, Abort, Executing
    <2>2. \E U \in Native : Expand(Each("Abort", StateChanging[t]) \o Then(U, t))
      BY <1>4 DEF Commit, Abort, Native
    <2>3. \E fr : Shifted(calls, fr, calls')
      BY <2>1, <2>2, EndCalls
    <2> QED
      BY <2>3, ShiftedType DEF CallTypes
  <1>5. ASSUME NEW x \in Txns \cup {Env}, NEW U \in Verbs, calls # <<>>,
               Expand(Each("Dispose", Disposing[x]) \o Then(U, x) \o Then("ZeroHandle", x))
        PROVE  CallTypes'
    <2>1. \E fr : Shifted(calls, fr, calls')
      BY <1>5, DisposeCalls
    <2> QED
      BY <2>1, ShiftedType DEF CallTypes
  <1>6. ASSUME NEW t \in Txns, AbortIfActive(t)
        PROVE  CallTypes'
    <2>1. calls # <<>>
      BY <1>6 DEF AbortIfActive, Executing
    <2>2. "Abort" \in Verbs /\ t \in Objects
      BY DEF Verbs, Objects
    <2>3. Then("Abort", t) \in Seq(Frames)
      BY <2>2, ThenIs
    <2>4. CASE Expand(Then("Abort", t))
      BY <2>1, <2>3, <2>4, Expands, ShiftedType DEF CallTypes
    <2> QED
      BY <1>1, <1>6, <2>1, <2>4 DEF AbortIfActive
  <1>7. ASSUME NEW t \in Txns, DisposeTxn(t)
        PROVE  CallTypes'
    BY <1>5, <1>7 DEF DisposeTxn, Executing, Verbs
  <1>8. CASE DisposeEnv
    BY <1>5, <1>8 DEF DisposeEnv, Executing, Verbs
  <1>9. ASSUME NEW x \in Objects, AskDispose(x)
        PROVE  CallTypes'
    BY <1>2, <1>9 DEF AskDispose, Verbs
  <1>10. CASE UNCHANGED calls
    BY <1>0, <1>10 DEF CallTypes
  <1>11. ASSUME NEW t \in Txns, CommitNative(t) \/ AbortNative(t)
        PROVE  CallTypes'
    BY <1>1, <1>11 DEF CommitNative, AbortNative, Executing
  <1>12. ASSUME NEW x, DisposeAgain(x) \/ ZeroHandle(x) \/ DisposeCursor(x) \/ CloseEnv
        PROVE  CallTypes'
    BY <1>1, <1>12
    DEF DisposeAgain, ZeroHandle, DisposeCursor, CloseEnv, Executing
  <1> QED
    BY <1>3, <1>4, <1>6, <1>7, <1>8, <1>9, <1>10, <1>11, <1>12
    DEF Next, BeginTransaction, CreateCursor, RenewCursor, Reset, Renew,
        Objects, vars

(* Types at the start. *)
LEMMA TypeInit == Init => TypeOK
  <1> SUFFICES ASSUME Init
               PROVE  TypeOK
    OBVIOUS
  <1>1. OtherTypes
    BY DEF Init, OtherTypes, States
  <1>2. EventTypes
    BY DEF Init, EventTypes
  <1>3. CallTypes
    BY DEF Init, CallTypes
  <1> QED
    BY <1>1, <1>2, <1>3, Types

(* Types at every step. *)
LEMMA TypeInd == TypeOK /\ [Next]_vars => TypeOK'
  BY OtherTypesInd, EventTypesInd, CallTypesInd, TypesNext

-----------------------------------------------------------------------------
(* The end of a transaction *)

(* Without a live child a live transaction is the only one of its tree.    *)
LEMMA LiveAlone ==
    ASSUME TypeOK, HeldTxns, NEW t \in Txns,
           \A w \in Txns : LiveIn(mdb_txn, w) => ParentTransaction[w] # t
    PROVE  \A u \in Sub(ParentTransaction, t) : LiveIn(mdb_txn, u) => u = t
  <1> DEFINE X == {u \in Txns : u = t \/ ~LiveIn(mdb_txn, u)}
  <1>1. X \in SUBSET Txns /\ t \in X
    OBVIOUS
  <1>2. Closed(ParentTransaction, X)
    <2> SUFFICES ASSUME NEW v \in Txns, ParentTransaction[v] \in X
                 PROVE  v \in X
      BY DEF Closed
    <2>1. CASE ParentTransaction[v] = t
      BY <2>1
    <2>2. CASE ~LiveIn(mdb_txn, ParentTransaction[v])
      <3>1. ParentTransaction[v] \in Txns
        OBVIOUS
      <3>2. LiveIn(mdb_txn, v) => mdb_txn[ParentTransaction[v]] = "live"
        BY <3>1 DEF HeldTxns
      <3> QED
        BY <2>2, <3>2 DEF LiveIn
    <2> QED
      BY <2>1, <2>2
  <1>3. Sub(ParentTransaction, t) \subseteq X
    <2> HIDE DEF X
    <2> QED
      BY <1>1, <1>2, SubLeast
  <1> QED
    BY <1>3

(* What holds when a native transaction is about to end. *)
LEMMA NativeHead ==
    ASSUME IInv, NEW t \in Txns, NEW U \in Native, Executing(U, t)
    PROVE  /\ Pending(calls, Native, t)
           /\ _handle[t] => LiveIn(mdb_txn, t) /\ State[t] \in Finished
           /\ \A c \in Cursors : _handle[c] => Transaction[c] # t
           /\ \A w \in Txns : LiveIn(mdb_txn, w) => ParentTransaction[w] # t
           /\ \A u \in Sub(ParentTransaction, t) : LiveIn(mdb_txn, u) => u = t
           /\ U = "mdb_txn_commit" => _handle[t]
  <1>1. /\ TypeOK /\ HeldTxns /\ Agree /\ Ends /\ Shape
    BY DEF IInv, Objs, Stack
  <1>2. Len(calls) \in Nat /\ Len(calls) > 0 /\ calls[1].verb = U /\ calls[1].obj = t
    BY <1>1, HeadIs
  <1>3. 1 \in 1..Len(calls)
    BY <1>2
  <1>4. Pending(calls, Native, t)
    BY <1>2, <1>3 DEF Pending
  <1>5. _handle[t] => LiveIn(mdb_txn, t) /\ State[t] \in Finished
    BY <1>1, <1>4 DEF Agree
  <1>6. \A c \in Cursors : _handle[c] => Transaction[c] # t
    BY <1>1, <1>2, <1>3 DEF Ends
  <1>7. ASSUME NEW w \in Txns, LiveIn(mdb_txn, w), ParentTransaction[w] = t
        PROVE  FALSE
    <2>1. Before(calls, 1, {"Abort", "mdb_txn_abort"}, w)
      BY <1>1, <1>2, <1>3, <1>7 DEF Ends
    <2> QED
      BY <2>1 DEF Before
  <1>8. \A u \in Sub(ParentTransaction, t) : LiveIn(mdb_txn, u) => u = t
    BY <1>1, <1>7, LiveAlone
  <1>9. U = "mdb_txn_commit" => _handle[t]
    BY <1>1, <1>2, <1>3 DEF Shape
  <1> QED
    BY <1>4, <1>5, <1>6, <1>7, <1>8, <1>9

(* What a native end does: it ends one transaction.                        *)
Ended(t) ==
    /\ mdb_txn' = [u \in Txns |-> IF u = t THEN "ended" ELSE mdb_txn[u]]
    /\ mdb_cursor' = [c \in Cursors |->
           IF mc_txn[c] = t /\ ~IsReadOnly[mc_txn[c]] THEN "freed" ELSE mdb_cursor[c]]
    /\ mc_txn' = mc_txn
    /\ misuse' = FALSE

(* mdb_txn_end meets no other live transaction in the tree. *)
LEMMA EndIs ==
    ASSUME IInv, NEW t \in Txns, NEW U \in Native, Executing(U, t), _handle[t], End(t)
    PROVE  Ended(t)
  <1> DEFINE ended == {u \in Inside(t) : Live(u)}
  <1>1. TypeOK
    BY DEF IInv
  <1>2. /\ LiveIn(mdb_txn, t)
        /\ \A u \in Sub(ParentTransaction, t) : LiveIn(mdb_txn, u) => u = t
    BY NativeHead
  <1>3. ended = {t}
    <2>1. t \in Sub(ParentTransaction, t)
      BY SubSelf
    <2>2. \A u : Live(u) <=> LiveIn(mdb_txn, u)
      BY DEF Live, LiveIn
    <2> QED
      BY <1>2, <2>1, <2>2, InsideIs
  <1>4. /\ mdb_txn' = [u \in Txns |-> IF u \in ended THEN "ended" ELSE mdb_txn[u]]
        /\ mdb_cursor' = [c \in Cursors |->
              IF mc_txn[c] \in ended /\ ~IsReadOnly[mc_txn[c]]
              THEN "freed" ELSE mdb_cursor[c]]
        /\ misuse' = ~Live(t) /\ mc_txn' = mc_txn
    BY DEF End
  <1>5. misuse' = FALSE
    BY <1>2, <1>4 DEF Live, LiveIn
  <1> QED
    BY <1>3, <1>4, <1>5 DEF Ended

(* A native end in a step: of one transaction, or of a null handle.        *)
NativeStep(U, t) ==
    /\ Executing(U, t)
    /\ UNCHANGED netVars
    /\ Return
    /\ IF _handle[t] THEN Ended(t) ELSE UNCHANGED nativeVars

(* Both native calls are of that kind. *)
LEMMA NativeSteps ==
    ASSUME IInv, NEW t \in Txns, CommitNative(t) \/ AbortNative(t)
    PROVE  \E U \in Native : NativeStep(U, t)
  <1>1. CASE CommitNative(t)
    <2>1. "mdb_txn_commit" \in Native /\ Executing("mdb_txn_commit", t)
      BY <1>1 DEF CommitNative, Native
    <2>2. _handle[t]
      BY <2>1, NativeHead
    <2>3. Ended(t)
      BY <1>1, <2>1, <2>2, EndIs DEF CommitNative
    <2> QED
      BY <1>1, <2>1, <2>2, <2>3 DEF CommitNative, NativeStep
  <1>2. CASE AbortNative(t)
    <2>1. "mdb_txn_abort" \in Native /\ Executing("mdb_txn_abort", t)
      BY <1>2 DEF AbortNative, Native
    <2>2. _handle[t] => Ended(t)
      BY <1>2, <2>1, EndIs DEF AbortNative
    <2> QED
      BY <1>2, <2>1, <2>2 DEF AbortNative, NativeStep
  <1> QED
    BY <1>1, <1>2

(* Nothing hangs from a handle that is given up, and it is not open.       *)
LEMMA ZeroHead ==
    ASSUME IInv, NEW t \in Txns, Executing("ZeroHandle", t)
    PROVE  /\ \A w \in Txns : _handle[w] => ParentTransaction[w] # t
           /\ \A c \in Cursors : _handle[c] => Transaction[c] # t
           /\ ~LiveIn(mdb_txn, t)
  <1>1. TypeOK /\ HeldTxns /\ Agree /\ Shape
        /\ \A i \in 1..Len(calls) : DisposesAt(i)
    BY DEF IInv, Objs, Stack, Disposes
  <1>2. Len(calls) \in Nat /\ Len(calls) > 0
        /\ calls[1].verb = "ZeroHandle" /\ calls[1].obj = t
    BY <1>1, HeadIs
  <1>3. 1 \in 1..Len(calls) /\ \A V, x : ~Before(calls, 1, V, x)
    BY <1>2 DEF Before
  <1>4. ~Pending(calls, Native, t)
    <2> SUFFICES ASSUME NEW i \in 1..Len(calls), calls[i].verb \in Native
                 PROVE  FALSE
      BY DEF Pending
    <2>1. calls[i].verb \in Ending
      BY DEF Native, Ending
    <2>2. i = 1 \/ calls[1].verb \in Ending
      BY <1>1, <1>2, <2>1 DEF Shape
    <2> QED
      BY <1>2, <2>1, <2>2 DEF Ending
  <1>5. State[t] \notin {"Active", "Reseted"}
    BY <1>1, <1>2, <1>3 DEF DisposesAt
  <1>6. ~LiveIn(mdb_txn, t)
    BY <1>1, <1>4, <1>5 DEF HeldTxns, Agree, LiveIn
  <1> QED
    BY <1>1, <1>2, <1>3, <1>6 DEF DisposesAt

-----------------------------------------------------------------------------
(* Objects *)

(* Steps keep transactions trees. *)
LEMMA TreesInd ==
    ASSUME IInv, [Next]_vars, TypeOK'
    PROVE  Trees'
  <1>0. TypeOK /\ Trees
    BY DEF IInv, Objs
  <1>1. ASSUME NEW t \in Txns, NEW parent \in Txns \cup {Nil}, NEW ro \in BOOLEAN,
               BeginTransaction(t, parent, ro)
        PROVE  Trees'
    <2> DEFINE P == ParentTransaction
               Q == ParentTransaction'
    <2>1. /\ Q = [P EXCEPT ![t] = parent] /\ P \in [Txns -> Txns \cup {Nil}]
          /\ State[t] = "none" /\ State' = [State EXCEPT ![t] = "Active"]
          /\ State \in [Txns -> States]
          /\ parent \in Txns => State[parent] = "Active"
          /\ \A u \in Txns \ {t} : _handle'[u] = _handle[u] /\ mdb_txn'[u] = mdb_txn[u]
          /\ UNCHANGED <<mc_txn, Transaction>>
      BY <1>0, <1>1, ObjectsApart DEF BeginTransaction, TypeOK
    <2>2. \A w \in Txns : P[w] # t /\ Q[w] # t
      BY <1>0, <2>1, ObjectsApart DEF Trees
    <2>3. \A w \in Txns \ {t} : Q[w] = P[w]
      BY <2>1
    <2>4. Q[t] = parent
      BY <2>1
    <2>5. ASSUME NEW w \in Txns \ {t}
          PROVE  Sub(Q, w) \subseteq Sub(P, w) \cup {t}
      <3> DEFINE X == Sub(P, w) \cup {t}
      <3>1. X \in SUBSET Txns /\ w \in X
        BY SubTxns, SubSelf
      <3>2. Closed(Q, X)
        <4> SUFFICES ASSUME NEW v \in Txns, Q[v] \in X, v # t
                     PROVE  v \in X
          BY DEF Closed
        <4>1. P[v] \in Sub(P, w)
          BY <2>2, <2>3
        <4> QED
          BY <4>1, SubClosed
      <3> HIDE DEF X, Q
      <3>3. Sub(Q, w) \subseteq X
        BY <3>1, <3>2, SubLeast
      <3> QED
        BY <3>3 DEF X
    <2>6. Sub(Q, t) \subseteq {t}
      <3>1. Closed(Q, {t})
        BY <2>2 DEF Closed
      <3>2. {t} \in SUBSET Txns /\ t \in {t}
        OBVIOUS
      <3> HIDE DEF Q
      <3> QED
        BY <3>1, <3>2, SubLeast
    <2>7. ASSUME NEW w \in Txns, Q[w] \in Txns
          PROVE  State'[Q[w]] # "none" /\ Q[w] \notin Sub(Q, w)
      <3>1. CASE w = t
        BY <2>1, <2>2, <2>4, <2>6, <2>7, <3>1
      <3>2. CASE w # t
        <4>1. Q[w] = P[w] /\ P[w] # t
          BY <2>2, <2>3, <3>2
        <4>2. State[P[w]] # "none" /\ P[w] \notin Sub(P, w)
          BY <1>0, <2>7, <4>1 DEF Trees
        <4>3. P[w] \notin Sub(Q, w)
          BY <2>5, <3>2, <4>1, <4>2
        <4>4. State'[P[w]] # "none"
          BY <2>1, <2>7, <4>1, <4>2
        <4> QED
          BY <4>1, <4>3, <4>4
      <3> QED
        BY <3>1, <3>2
    <2>8. \A u \in Txns : State'[u] = "none" => State[u] = "none" /\ u # t
      BY <2>1
    <2>9. \A u \in Txns : State'[u] = "none" =>
              Q[u] = Nil /\ ~_handle'[u] /\ mdb_txn'[u] = "none"
      BY <1>0, <2>1, <2>3, <2>8 DEF Trees
    <2>10. \A c \in Cursors : mc_txn'[c] \in Txns => State'[mc_txn'[c]] # "none"
      BY <1>0, <2>1, <2>8 DEF Trees
    <2>11. \A c \in Cursors : Transaction'[c] \in Txns => State'[Transaction'[c]] # "none"
      BY <1>0, <2>1, <2>8 DEF Trees
    <2> QED
      BY <2>7, <2>9, <2>10, <2>11 DEF Trees
  <1>2. ASSUME NEW t \in Txns, NEW c \in Cursors, CreateCursor(c, t)
        PROVE  Trees'
    <2>1. State[t] # "none"
      BY <1>2 DEF CreateCursor, Usable
    <2> QED
      BY <1>0, <1>2, <2>1, ObjectsApart DEF CreateCursor, Trees, TypeOK
  <1>3. ASSUME NEW t \in Txns, NEW c \in Cursors, RenewCursor(c, t)
        PROVE  Trees'
    BY <1>0, <1>3 DEF RenewCursor, Usable, Trees, netVars, TypeOK
  <1>4. ASSUME NEW t \in Txns, Reset(t) \/ Renew(t)
        PROVE  Trees'
    <2>1. State[t] # "none" /\ mdb_txn' = [mdb_txn EXCEPT ![t] = mdb_txn'[t]]
      BY <1>0, <1>4 DEF Reset, Renew, Usable, TypeOK
    <2>2. /\ \A u \in Txns : State'[u] = "none" <=> State[u] = "none"
          /\ \A u \in Txns : State[u] = "none" => mdb_txn'[u] = mdb_txn[u]
      BY <1>0, <1>4, <2>1 DEF Reset, Renew, TypeOK
    <2>3. UNCHANGED <<_handle, ParentTransaction, Transaction, mc_txn>>
      BY <1>4 DEF Reset, Renew
    <2> QED
      BY <1>0, <2>2, <2>3 DEF Trees
  <1>5. ASSUME NEW t \in Txns, Commit(t) \/ Abort(t)
        PROVE  Trees'
    BY <1>0, <1>5 DEF Commit, Abort, Trees, TypeOK, nativeVars
  <1>6. ASSUME NEW t \in Txns, CommitNative(t) \/ AbortNative(t)
        PROVE  Trees'
    <2>1. PICK U \in Native : NativeStep(U, t)
      BY <1>6, NativeSteps
    <2>2. CASE ~_handle[t]
      BY <1>0, <2>1, <2>2 DEF NativeStep, Trees, netVars, nativeVars
    <2>3. CASE _handle[t]
      BY <1>0, <2>1, <2>3 DEF NativeStep, Ended, Trees, netVars
    <2> QED
      BY <2>2, <2>3
  <1>7. ASSUME NEW x \in Objects, ZeroHandle(x)
        PROVE  Trees'
    BY <1>0, <1>7 DEF ZeroHandle, Trees, TypeOK, nativeVars
  <1>8. ASSUME NEW c \in Cursors, DisposeCursor(c)
        PROVE  Trees'
    BY <1>0, <1>8, ObjectsApart DEF DisposeCursor, CloseCursor, Trees, TypeOK
  <1>9. CASE UNCHANGED <<State, _handle, ParentTransaction, Transaction, mdb_txn, mc_txn>>
    BY <1>0, <1>9 DEF Trees
  <1> QED
    BY <1>1, <1>2, <1>3, <1>4, <1>5, <1>6, <1>7, <1>8, <1>9
    DEF Next, AskEnd, DisposeTxn, AbortIfActive, AskDispose, DisposeAgain,
        DisposeEnv,
        CloseEnv, netVars, nativeVars, vars, Objects

(* Steps keep what is open held by a transaction object that is held. *)
LEMMA HeldTxnsInd ==
    ASSUME IInv, [Next]_vars, TypeOK'
    PROVE  HeldTxns'
  <1>0. TypeOK /\ Trees /\ HeldTxns
    BY DEF IInv, Objs
  <1>1. ASSUME NEW t \in Txns, NEW parent \in Txns \cup {Nil}, NEW ro \in BOOLEAN,
               BeginTransaction(t, parent, ro)
        PROVE  HeldTxns'
    <2>1. \A w \in Txns : ParentTransaction[w] # t
      BY <1>0, <1>1, ObjectsApart DEF BeginTransaction, Trees
    <2>2. ~_handle[t] /\ mdb_txn[t] = "none"
      BY <1>0, <1>1 DEF BeginTransaction, Trees
    <2>3. parent # t
      BY <1>1, ObjectsApart DEF BeginTransaction
    <2>4. CASE UNCHANGED <<_handle, mdb_txn>>
      BY <1>0, <1>1, <2>1, <2>2, <2>3, <2>4
      DEF BeginTransaction, HeldTxns, TypeOK, LiveIn
    <2>5. CASE /\ parent # Nil => ~Refused(parent, ro)
               /\ _handle' = [_handle EXCEPT ![t] = TRUE]
               /\ mdb_txn' = [mdb_txn EXCEPT ![t] = "live"]
      <3>1. parent \in Txns => ~ro /\ ~IsReadOnly[parent] /\ _handle[parent]
        BY <1>1, <2>5, ObjectsApart DEF BeginTransaction, Refused
      <3>2. parent \in Txns => mdb_txn[parent] = "live"
        <4>1. calls = <<>>
          BY <1>1 DEF BeginTransaction, User
        <4>2. \A u : ~Pending(calls, Native, u)
          BY <4>1 DEF Pending
        <4>3. parent \in Txns => State[parent] = "Active"
          BY <1>1, ObjectsApart DEF BeginTransaction
        <4> QED
          BY <3>1, <4>2, <4>3 DEF IInv, Stack, Agree
      <3> QED
        BY <1>0, <1>1, <2>1, <2>2, <2>3, <2>5, <3>1, <3>2
        DEF BeginTransaction, HeldTxns, TypeOK, LiveIn
    <2> QED
      BY <1>1, <2>4, <2>5 DEF BeginTransaction
  <1>2. ASSUME NEW t \in Txns, NEW c \in Cursors, CreateCursor(c, t)
        PROVE  HeldTxns'
    BY <1>0, <1>2, ObjectsApart DEF CreateCursor, HeldTxns, TypeOK
  <1>3. ASSUME NEW t \in Txns, NEW c \in Cursors, RenewCursor(c, t)
        PROVE  HeldTxns'
    BY <1>0, <1>3 DEF RenewCursor, HeldTxns, netVars
  <1>4. ASSUME NEW t \in Txns, Reset(t)
        PROVE  HeldTxns'
    <2>1. _handle[t] /\ State[t] = "Active" /\ IsReadOnly[t] /\ calls = <<>>
      BY <1>4 DEF Reset, Usable, User
    <2>2. \A u : ~Pending(calls, Native, u)
      BY <2>1 DEF Pending
    <2>3. mdb_txn[t] = "live"
      BY <2>1, <2>2 DEF IInv, Stack, Agree
    <2>4. Children(t) = {}
      BY <1>4 DEF Reset, Usable
    <2>5. \A w \in Txns : ParentTransaction[w] = t => ~LiveIn(mdb_txn, w)
      BY <1>0, <2>1 DEF HeldTxns
    <2>6. Live(t)
      BY <2>3 DEF Live
    <2> QED
      BY <1>0, <1>4, <2>1, <2>3, <2>5 DEF Reset, HeldTxns, TypeOK, LiveIn
  <1>5. ASSUME NEW t \in Txns, Renew(t)
        PROVE  HeldTxns'
    <2>1. _handle[t] /\ State[t] = "Reseted" /\ calls = <<>>
      BY <1>5 DEF Renew, User
    <2>2. \A u : ~Pending(calls, Native, u)
      BY <2>1 DEF Pending
    <2>3. mdb_txn[t] = "reset"
      BY <2>1, <2>2 DEF IInv, Stack, Agree
    <2> QED
      BY <1>0, <1>5, <2>1, <2>3 DEF Renew, HeldTxns, TypeOK, LiveIn
  <1>6. ASSUME NEW t \in Txns, CommitNative(t) \/ AbortNative(t)
        PROVE  HeldTxns'
    <2>1. PICK U \in Native : NativeStep(U, t)
      BY <1>6, NativeSteps
    <2>2. CASE ~_handle[t]
      BY <1>0, <2>1, <2>2 DEF NativeStep, HeldTxns, netVars, nativeVars
    <2>3. CASE _handle[t]
      <3>1. \A w \in Txns : LiveIn(mdb_txn, w) => ParentTransaction[w] # t
        BY <2>1, NativeHead DEF NativeStep
      <3> QED
        BY <1>0, <2>1, <2>3, <3>1
        DEF NativeStep, Ended, HeldTxns, netVars, LiveIn
    <2> QED
      BY <2>2, <2>3
  <1>7. ASSUME NEW x \in Objects, ZeroHandle(x)
        PROVE  HeldTxns'
    <2>1. x \in Txns =>
            (\A w \in Txns : _handle[w] => ParentTransaction[w] # x) /\ ~LiveIn(mdb_txn, x)
      BY <1>7, ZeroHead DEF ZeroHandle
    <2> QED
      BY <1>0, <1>7, <2>1 DEF ZeroHandle, HeldTxns, TypeOK, nativeVars
  <1>8. ASSUME NEW c \in Cursors, DisposeCursor(c)
        PROVE  HeldTxns'
    BY <1>0, <1>8, ObjectsApart DEF DisposeCursor, CloseCursor, HeldTxns, TypeOK
  <1>9. CASE UNCHANGED <<_handle, ParentTransaction, IsReadOnly, mdb_txn>>
    BY <1>0, <1>9 DEF HeldTxns
  <1> QED
    BY <1>1, <1>2, <1>3, <1>4, <1>5, <1>6, <1>7, <1>8, <1>9
    DEF Next, AskEnd, Commit, Abort, DisposeTxn, AbortIfActive, AskDispose,
        DisposeAgain,
        DisposeEnv, CloseEnv, netVars, nativeVars, vars, Objects

(* The same of cursors. *)
LEMMA HeldCursorsInd ==
    ASSUME IInv, [Next]_vars, TypeOK'
    PROVE  HeldCursors'
  <1>0. TypeOK /\ Trees /\ HeldTxns /\ HeldCursors
    BY DEF IInv, Objs
  <1>1. ASSUME NEW t \in Txns, NEW parent \in Txns \cup {Nil}, NEW ro \in BOOLEAN,
               BeginTransaction(t, parent, ro)
        PROVE  HeldCursors'
    <2>1. State[t] = "none" /\ UNCHANGED <<Transaction, mdb_cursor, mc_txn>>
      BY <1>1 DEF BeginTransaction
    <2>2. \A c \in Cursors : Transaction[c] # t /\ mc_txn[c] # t
      BY <1>0, <2>1 DEF Trees
    <2>3. /\ \A x \in Objects \ {t} : _handle'[x] = _handle[x]
          /\ \A u \in Txns \ {t} : mdb_txn'[u] = mdb_txn[u] /\ IsReadOnly'[u] = IsReadOnly[u]
      BY <1>0, <1>1 DEF BeginTransaction, TypeOK, Objects
    <2>4. \A c \in Cursors : c \in Objects /\ c # t
      BY ObjectsApart DEF Objects
    <2>5. \A u \in Txns : u \in Objects
      BY DEF Objects
    <2> QED
      BY <1>0, <2>1, <2>2, <2>3, <2>4, <2>5 DEF HeldCursors, LiveIn
  <1>2. ASSUME NEW t \in Txns, NEW c \in Cursors, CreateCursor(c, t)
        PROVE  HeldCursors'
    <2>1. _handle[t] /\ Transaction[c] = Nil
      BY <1>2 DEF CreateCursor, Usable
    <2> QED
      BY <1>0, <1>2, <2>1, ObjectsApart DEF CreateCursor, HeldCursors, TypeOK
  <1>3. ASSUME NEW t \in Txns, NEW c \in Cursors, RenewCursor(c, t)
        PROVE  HeldCursors'
    BY <1>0, <1>3 DEF RenewCursor, HeldCursors, netVars, TypeOK
  <1>4. ASSUME NEW t \in Txns, Reset(t) \/ Renew(t)
        PROVE  HeldCursors'
    <2>1. \A u \in Txns : LiveIn(mdb_txn, u) => LiveIn(mdb_txn', u)
      BY <1>0, <1>4 DEF Reset, Renew, LiveIn, TypeOK
    <2> QED
      BY <1>0, <1>4, <2>1 DEF Reset, Renew, HeldCursors
  <1>6. ASSUME NEW t \in Txns, CommitNative(t) \/ AbortNative(t)
        PROVE  HeldCursors'
    <2>1. PICK U \in Native : NativeStep(U, t)
      BY <1>6, NativeSteps
    <2>2. CASE ~_handle[t]
      BY <1>0, <2>1, <2>2 DEF NativeStep, HeldCursors, netVars, nativeVars
    <2>3. CASE _handle[t]
      <3>1. \A c \in Cursors : _handle[c] => Transaction[c] # t
        BY <2>1, NativeHead DEF NativeStep
      <3> QED
        BY <1>0, <2>1, <2>3, <3>1
        DEF NativeStep, Ended, HeldCursors, netVars, LiveIn, TypeOK
    <2> QED
      BY <2>2, <2>3
  <1>7. ASSUME NEW x \in Objects, ZeroHandle(x)
        PROVE  HeldCursors'
    <2>1. x \in Txns => \A c \in Cursors : _handle[c] => Transaction[c] # x
      BY <1>7, ZeroHead DEF ZeroHandle
    <2>2. x \notin Cursors
      <3>1. calls[1].verb = "ZeroHandle" /\ calls[1].obj = x /\ Len(calls) \in Nat /\ Len(calls) > 0
        BY <1>0, <1>7, HeadIs DEF ZeroHandle
      <3>2. 1 \in 1..Len(calls)
        BY <3>1
      <3> QED
        BY <3>1, <3>2, ObjectsApart DEF IInv, Stack, Shape
    <2> QED
      BY <1>0, <1>7, <2>1, <2>2 DEF ZeroHandle, HeldCursors, TypeOK, nativeVars
  <1>8. ASSUME NEW c \in Cursors, DisposeCursor(c)
        PROVE  HeldCursors'
    <2>1. _handle[c] /\ mc_txn[c] \in Txns
      BY <1>0, <1>8 DEF DisposeCursor, HeldCursors
    <2>2. Children(mc_txn[c]) # {} =>
             LiveIn(mdb_txn, mc_txn[c]) /\ ~IsReadOnly[mc_txn[c]]
      BY <1>0, <2>1 DEF Children, HeldTxns, LiveIn
    <2>3. mdb_cursor'[c] = IF Children(mc_txn[c]) # {} THEN mdb_cursor[c] ELSE "freed"
      BY <1>0, <1>8 DEF DisposeCursor, CloseCursor, TypeOK
    <2>4. \A d \in Cursors \ {c} : mdb_cursor'[d] = mdb_cursor[d] /\ _handle'[d] = _handle[d]
      BY <1>0, <1>8 DEF DisposeCursor, CloseCursor, TypeOK
    <2>5. ~_handle'[c] /\ \A u \in Txns : _handle'[u] = _handle[u]
      <3>1. _handle' = [_handle EXCEPT ![c] = FALSE]
        BY <1>8 DEF DisposeCursor
      <3>2. _handle \in [Txns \cup Cursors \cup {Env} -> BOOLEAN]
        BY <1>0 DEF TypeOK
      <3> QED
        BY <3>1, <3>2, ObjectsApart
    <2>6. UNCHANGED <<Transaction, mc_txn, mdb_txn, IsReadOnly>>
      BY <1>8 DEF DisposeCursor, CloseCursor
    <2> QED
      BY <1>0, <2>1, <2>2, <2>3, <2>4, <2>5, <2>6 DEF HeldCursors
  <1>9. CASE UNCHANGED <<_handle, IsReadOnly, Transaction, mdb_txn, mdb_cursor, mc_txn>>
    BY <1>0, <1>9 DEF HeldCursors
  <1> QED
    BY <1>1, <1>2, <1>3, <1>4, <1>6, <1>7, <1>8, <1>9
    DEF Next, AskEnd, Commit, Abort, DisposeTxn, AbortIfActive, AskDispose,
        DisposeAgain,
        DisposeEnv, CloseEnv, netVars, nativeVars, vars, Objects

(* A transaction that has just begun is nobody's parent, and nobody's      *)
(* subscriber yet.                                                         *)
LEMMA NewcomerIs ==
    ASSUME IInv, NEW t \in Txns, State[t] = "none"
    PROVE  /\ \A w \in Txns : ParentTransaction[w] # t
           /\ \A u \in Txns : ~In(t, StateChanging[u]) /\ ~In(t, Disposing[u])
           /\ ~_handle[t]
  <1>1. Trees /\ Subscribers
    BY DEF IInv, Objs
  <1>2. \A w \in Txns : ParentTransaction[w] # t
    BY <1>1 DEF Trees
  <1>3. ParentTransaction[t] = Nil /\ ~_handle[t]
    BY <1>1 DEF Trees
  <1> QED
    BY <1>1, <1>2, <1>3, ObjectsApart DEF Subscribers

(* Steps keep subscribers where they hang, each once. *)
LEMMA SubscribersInd ==
    ASSUME IInv, [Next]_vars, TypeOK'
    PROVE  Subscribers'
  <1>0. TypeOK /\ Trees /\ HeldCursors /\ Subscribers
    BY DEF IInv, Objs
  <1>t. /\ Disposing \in [Txns \cup {Env} -> Seq(Txns \cup Cursors)]
        /\ StateChanging \in [Txns -> Seq(Txns)]
    BY <1>0 DEF TypeOK
  <1>i. \A u \in Txns : Injective(StateChanging[u])
    BY <1>0 DEF Subscribers, Injective
  <1>1. ASSUME NEW t \in Txns, NEW parent \in Txns \cup {Nil}, NEW ro \in BOOLEAN,
               BeginTransaction(t, parent, ro)
        PROVE  Subscribers'
    <2>1. /\ \A u \in Txns : ~In(t, StateChanging[u]) /\ ~In(t, Disposing[u])
      BY <1>1, NewcomerIs DEF BeginTransaction
    <2>2. /\ ParentTransaction'[t] = parent
          /\ \A x \in Txns \ {t} : ParentTransaction'[x] = ParentTransaction[x]
          /\ Transaction' = Transaction
      BY <1>0, <1>1 DEF BeginTransaction, TypeOK
    <2>3. ASSUME NEW u \in Txns
          PROVE  /\ u # parent => /\ StateChanging'[u] = StateChanging[u]
                                  /\ Disposing'[u] = Disposing[u]
                 /\ u = parent => /\ StateChanging'[u] = Append(StateChanging[u], t)
                                  /\ Disposing'[u] = Append(Disposing[u], t)
      BY <1>1, ObjectsApart DEF BeginTransaction
    <2>4. ASSUME NEW u \in Txns
          PROVE  /\ \A y : In(y, StateChanging'[u]) <=>
                            In(y, StateChanging[u]) \/ (y = t /\ u = parent)
                 /\ \A y : In(y, Disposing'[u]) <=>
                            In(y, Disposing[u]) \/ (y = t /\ u = parent)
                 /\ Injective(StateChanging'[u])
      <3>1. /\ StateChanging[u] \in Seq(Txns) /\ Disposing[u] \in Seq(Txns \cup Cursors)
            /\ t \in Txns \cup Cursors
        BY <1>t
      <3>2. /\ \A y : In(y, Append(StateChanging[u], t)) <=> In(y, StateChanging[u]) \/ y = t
            /\ Injective(StateChanging[u]) /\ ~In(t, StateChanging[u]) =>
                  Injective(Append(StateChanging[u], t))
        BY <3>1, AppendIs
      <3>3. \A y : In(y, Append(Disposing[u], t)) <=> In(y, Disposing[u]) \/ y = t
        BY <3>1, AppendIs
      <3>4. CASE u = parent
        BY <1>i, <2>1, <2>3, <3>2, <3>3, <3>4
      <3>5. CASE u # parent
        BY <1>i, <2>3, <3>5
      <3> QED
        BY <3>4, <3>5
    <2>5. \A u \in Txns : \A i, j \in 1..Len(StateChanging'[u]) :
             StateChanging'[u][i] = StateChanging'[u][j] => i = j
      BY <2>4 DEF Injective
    <2>6. ASSUME NEW u \in Txns, NEW x \in Txns, In(x, StateChanging'[u])
          PROVE  ParentTransaction'[x] = u
      <3>1. In(x, StateChanging[u]) \/ (x = t /\ u = parent)
        BY <2>4, <2>6
      <3>2. CASE In(x, StateChanging[u])
        <4>1. x # t /\ ParentTransaction[x] = u
          BY <1>0, <2>1, <3>2 DEF Subscribers
        <4> QED
          BY <2>2, <4>1
      <3> QED
        BY <2>2, <3>1, <3>2
    <2>7. ASSUME NEW u \in Txns, NEW x \in Txns, In(x, Disposing'[u])
          PROVE  ParentTransaction'[x] = u
      <3>1. In(x, Disposing[u]) \/ (x = t /\ u = parent)
        BY <2>4, <2>7
      <3>2. CASE In(x, Disposing[u])
        <4>1. x # t /\ ParentTransaction[x] = u
          BY <1>0, <2>1, <3>2 DEF Subscribers
        <4> QED
          BY <2>2, <4>1
      <3> QED
        BY <2>2, <3>1, <3>2
    <2>8. ASSUME NEW u \in Txns, NEW c \in Cursors, In(c, Disposing'[u])
          PROVE  Transaction'[c] = u
      <3>1. c # t
        BY ObjectsApart
      <3>2. In(c, Disposing[u])
        BY <2>4, <2>8, <3>1
      <3> QED
        BY <1>0, <2>2, <3>2 DEF Subscribers
    <2> QED
      BY <2>5, <2>6, <2>7, <2>8 DEF Subscribers
  <1>2. ASSUME NEW t \in Txns, NEW c \in Cursors, CreateCursor(c, t)
        PROVE  Subscribers'
    <2>1. Transaction[c] = Nil
      BY <1>2 DEF CreateCursor
    <2>2. \A u \in Txns : ~In(c, Disposing[u])
      BY <1>0, <2>1, ObjectsApart DEF Subscribers
    <2>3. /\ Transaction'[c] = t
          /\ \A d \in Cursors \ {c} : Transaction'[d] = Transaction[d]
          /\ UNCHANGED <<ParentTransaction, StateChanging>>
      BY <1>0, <1>2 DEF CreateCursor, TypeOK
    <2>4. /\ Disposing'[t] = Append(Disposing[t], c)
          /\ \A u \in Txns \ {t} : Disposing'[u] = Disposing[u]
      BY <1>0, <1>2 DEF CreateCursor, TypeOK
    <2>5. \A y : In(y, Append(Disposing[t], c)) <=> In(y, Disposing[t]) \/ y = c
      <3>1. Disposing[t] \in Seq(Txns \cup Cursors) /\ c \in Txns \cup Cursors
        BY <1>t
      <3> QED
        BY <3>1, AppendIs
    <2>6. \A u \in Txns : \A y : In(y, Disposing'[u]) =>
             In(y, Disposing[u]) \/ (y = c /\ u = t)
      BY <2>4, <2>5
    <2>7. ASSUME NEW u \in Txns, NEW x \in Txns, In(x, Disposing'[u])
          PROVE  ParentTransaction'[x] = u
      <3>1. x # c /\ In(x, Disposing[u])
        BY <2>6, <2>7, ObjectsApart
      <3> QED
        BY <1>0, <2>3, <3>1 DEF Subscribers
    <2>8. ASSUME NEW u \in Txns, NEW d \in Cursors, In(d, Disposing'[u])
          PROVE  Transaction'[d] = u
      <3>1. CASE In(d, Disposing[u])
        BY <1>0, <2>2, <2>3, <3>1 DEF Subscribers
      <3> QED
        BY <2>3, <2>6, <2>8, <3>1
    <2> QED
      BY <1>0, <2>3, <2>7, <2>8 DEF Subscribers
  <1>3. ASSUME UNCHANGED <<ParentTransaction, Transaction>>,
               \A u \in Txns : \A y : In(y, Disposing'[u]) => In(y, Disposing[u]),
               \A u \in Txns : \A y : In(y, StateChanging'[u]) => In(y, StateChanging[u]),
               \A u \in Txns : Injective(StateChanging'[u])
        PROVE  Subscribers'
    BY <1>0, <1>3 DEF Subscribers, Injective
  <1>4. ASSUME NEW t \in Txns, DisposeTxn(t)
        PROVE  Subscribers'
    <2>1. UNCHANGED <<ParentTransaction, Transaction>>
      BY <1>4 DEF DisposeTxn
    <2>2. ASSUME NEW u \in Txns
          PROVE  /\ \A y : In(y, Disposing'[u]) => In(y, Disposing[u])
                 /\ \A y : In(y, StateChanging'[u]) => In(y, StateChanging[u])
                 /\ Injective(StateChanging'[u])
      <3>1. /\ StateChanging[u] \in Seq(Txns) /\ Disposing[u] \in Seq(Txns \cup Cursors)
        BY <1>t
      <3>2. /\ Left(Disposing[u], t, Unsubscribed(Disposing[u], t))
            /\ Left(StateChanging[u], t, Unsubscribed(StateChanging[u], t))
        BY <3>1, UnsubscribedIs
      <3>3. /\ Disposing'[u] = Disposing[u] \/ Disposing'[u] = Unsubscribed(Disposing[u], t)
            /\ \/ StateChanging'[u] = StateChanging[u]
               \/ StateChanging'[u] = Unsubscribed(StateChanging[u], t)
        BY <1>4 DEF DisposeTxn, Unsubscribe
      <3> QED
        BY <1>i, <3>2, <3>3 DEF Left
    <2> QED
      BY <1>3, <2>1, <2>2
  <1>5. ASSUME NEW c \in Cursors, DisposeCursor(c)
        PROVE  Subscribers'
    <2>1. UNCHANGED <<ParentTransaction, Transaction, StateChanging>>
      BY <1>5 DEF DisposeCursor
    <2>2. ASSUME NEW u \in Txns
          PROVE  \A y : In(y, Disposing'[u]) => In(y, Disposing[u])
      <3>1. Disposing[u] \in Seq(Txns \cup Cursors)
        BY <1>t
      <3>2. Left(Disposing[u], c, Unsubscribed(Disposing[u], c))
        BY <3>1, UnsubscribedIs
      <3>3. Disposing'[u] = Disposing[u] \/ Disposing'[u] = Unsubscribed(Disposing[u], c)
        BY <1>t, <1>5 DEF DisposeCursor
      <3> QED
        BY <3>2, <3>3 DEF Left
    <2> QED
      BY <1>3, <1>i, <2>1, <2>2
  <1>6. CASE UNCHANGED <<ParentTransaction, Transaction, Disposing, StateChanging>>
    BY <1>0, <1>6 DEF Subscribers
  <1> QED
    BY <1>1, <1>2, <1>4, <1>5, <1>6
    DEF Next, RenewCursor, Reset, Renew, AskEnd, Commit, Abort, CommitNative,
        AbortNative,
        AbortIfActive, AskDispose, DisposeAgain, ZeroHandle, DisposeEnv, CloseEnv,
        netVars, vars

(* Steps keep all that does not speak of the stack. *)
LEMMA ObjsInd ==
    ASSUME IInv, [Next]_vars
    PROVE  TypeOK' /\ Objs'
  <1>1. TypeOK'
    BY TypeInd DEF IInv
  <1> QED
    BY <1>1, TreesInd, HeldTxnsInd, HeldCursorsInd, SubscribersInd DEF Objs

-----------------------------------------------------------------------------
(* The stack: what any step keeps *)

AllEnding(w) == \A i \in 1..Len(w) : w[i].verb \in Ending
NoneEnding(w) == \A i \in 1..Len(w) : w[i].verb \notin Ending

(* Under a call that ends nothing there is none that does. *)
LEMMA NothingEnds ==
    ASSUME TypeOK, Shape, calls # <<>>, calls[1].verb \notin Ending
    PROVE  NoneEnding(calls)
  <1>1. Len(calls) \in Nat /\ Len(calls) > 0
    BY DEF TypeOK
  <1>2. 1 \in 1..Len(calls)
    BY <1>1
  <1>3. ASSUME NEW i \in 1..Len(calls), calls[i].verb \in Ending
        PROVE  FALSE
    <2>1. i = 1 \/ 1 \in 1..i - 1
      BY <1>1
    <2>2. \A j \in 1..i - 1 : calls[j].verb \in Ending
      BY <1>3 DEF Shape
    <2> QED
      BY <1>3, <2>1, <2>2
  <1> QED
    BY <1>3 DEF NoneEnding

(* The new calls are of the right shape. *)
NewShape(fr, len, h) ==
    \A i \in 1..Len(fr) :
       /\ fr[i].verb \in Ending \cup {"AbortIfActive"} => fr[i].obj \in Txns
       /\ fr[i].verb = "ZeroHandle" => fr[i].obj \in Txns \cup {Env}
       /\ fr[i].verb = "mdb_env_close" => fr[i].obj = Env
       /\ fr[i].verb = "Dispose" => fr[i].obj # Env
       /\ fr[i].verb # "Commit"
       /\ fr[i].verb = "mdb_txn_commit" => i = Len(fr) /\ len = 1 /\ h[fr[i].obj]
       /\ fr[i].verb \in Ending => \A j \in 1..i-1 : fr[j].verb \in Ending

(* New calls of the right shape keep the stack's. *)
LEMMA ShapeStep ==
    ASSUME TypeOK, Shape, NEW fr, Shifted(calls, fr, calls'),
           NewShape(fr, Len(calls), _handle'),
           NoneEnding(calls) \/ AllEnding(fr),
           NoneEnding(calls) \/ _handle' = _handle
    PROVE  Shape'
  <1>1. PICK l \in Nat, m \in Nat : l = Len(calls) /\ m = Len(fr)
    BY DEF Shifted
  <1>2. Len(calls') = m + l - 1 /\ l > 0
    BY <1>1 DEF Shifted
  <1> SUFFICES ASSUME NEW i \in 1..Len(calls')
      PROVE
       /\ calls'[i].verb \in Ending \cup {"AbortIfActive"} => calls'[i].obj \in Txns
       /\ calls'[i].verb = "ZeroHandle" => calls'[i].obj \in Txns \cup {Env}
       /\ calls'[i].verb = "mdb_env_close" => calls'[i].obj = Env
       /\ calls'[i].verb = "Dispose" /\ calls'[i].obj = Env => Len(calls') = 1
       /\ calls'[i].verb \in {"Commit", "mdb_txn_commit"} =>
             i = Len(calls') /\ _handle'[calls'[i].obj]
       /\ calls'[i].verb \in Ending => \A j \in 1..i-1 : calls'[j].verb \in Ending
    BY DEF Shape
  <1>3. Origin(calls, fr, calls', i)
    BY Origins
  <1>4. CASE i \in 1..m /\ calls'[i] = fr[i]
    <2>1. \A j \in 1..i - 1 : j \in 1..m /\ calls'[j] = fr[j]
      BY <1>1, <1>4 DEF Shifted
    <2>2. PICK f : f = fr[i] /\ calls'[i] = f
      BY <1>4
    <2>3. /\ f.verb \in Ending \cup {"AbortIfActive"} => f.obj \in Txns
          /\ f.verb = "ZeroHandle" => f.obj \in Txns \cup {Env}
          /\ f.verb = "mdb_env_close" => f.obj = Env
          /\ f.verb = "Dispose" => f.obj # Env
          /\ f.verb # "Commit"
          /\ f.verb = "mdb_txn_commit" => i = m /\ l = 1 /\ _handle'[f.obj]
          /\ f.verb \in Ending => \A j \in 1..i-1 : fr[j].verb \in Ending
      BY <1>1, <1>4, <2>2 DEF NewShape
    <2>4. f.verb \in Ending => \A j \in 1..i-1 : calls'[j].verb \in Ending
      BY <2>1, <2>3
    <2>5. f.verb \in {"Commit", "mdb_txn_commit"} => i = Len(calls') /\ _handle'[f.obj]
      BY <1>2, <2>3
    <2> QED
      BY <2>2, <2>3, <2>4, <2>5
  <1>5. CASE i - m + 1 \in 2..l /\ calls'[i] = calls[i - m + 1]
    <2>1. PICK k \in 2..l : k = i - m + 1
      BY <1>5
    <2>2. k \in 1..l /\ calls'[i] = calls[k] /\ l # 1 /\ (k = l => i = Len(calls'))
      BY <1>2, <1>5, <2>1
    <2>3. calls[k].verb \in Ending => AllEnding(fr) /\ _handle' = _handle
      BY <1>1, <2>2 DEF NoneEnding
    <2>4. ASSUME calls[k].verb \in Ending, NEW j \in 1..i - 1
          PROVE  calls'[j].verb \in Ending
      <3>1. j \in 1..Len(calls')
        BY <1>2
      <3>2. Origin(calls, fr, calls', j)
        BY <3>1, Origins
      <3>3. CASE j \in 1..m /\ calls'[j] = fr[j]
        BY <1>1, <2>3, <2>4, <3>3 DEF AllEnding
      <3>4. CASE j - m + 1 \in 2..l /\ calls'[j] = calls[j - m + 1]
        <4>1. j - m + 1 \in 1..k - 1
          BY <2>1, <3>4, SMTT(30)
        <4> QED
          BY <1>1, <2>2, <2>4, <3>4, <4>1 DEF Shape
      <3> QED
        BY <1>1, <3>2, <3>3, <3>4 DEF Origin
    <2>5. calls[k].verb \in {"Commit", "mdb_txn_commit"} => calls[k].verb \in Ending
      BY DEF Ending
    <2> QED
      BY <1>1, <2>2, <2>3, <2>4, <2>5 DEF Shape
  <1> QED
    BY <1>1, <1>3, <1>4, <1>5 DEF Origin

(* Where at most the first call ends something, nothing needs to be apart. *)
LEMMA ApartAlone ==
    ASSUME \A i \in 1..Len(calls') : calls'[i].verb \in Ending => i = 1
    PROVE  Apart'
  BY DEF Apart, ApartIn, Ending, Begun, Native

(* New calls that are apart from the old ones keep all apart. *)
LEMMA ApartStep ==
    ASSUME TypeOK, Apart, NEW fr, Shifted(calls, fr, calls'),
           ParentTransaction' = ParentTransaction,
           \A i, j \in 1..Len(fr) : i # j => ApartIn(ParentTransaction, fr[i], fr[j]),
           \A i \in 1..Len(fr), k \in 2..Len(calls) :
              /\ ApartIn(ParentTransaction, fr[i], calls[k])
              /\ ApartIn(ParentTransaction, calls[k], fr[i])
    PROVE  Apart'
  <1>1. PICK l \in Nat, m \in Nat : l = Len(calls) /\ m = Len(fr)
    BY DEF Shifted
  <1> SUFFICES ASSUME NEW i \in 1..Len(calls'), NEW j \in 1..Len(calls'), i # j
               PROVE  ApartIn(ParentTransaction', calls'[i], calls'[j])
    BY DEF Apart
  <1>2. Origin(calls, fr, calls', i) /\ Origin(calls, fr, calls', j)
    BY Origins
  <1>3. CASE i \in 1..m /\ j \in 1..m /\ calls'[i] = fr[i] /\ calls'[j] = fr[j]
    BY <1>1, <1>3
  <1>4. CASE i \in 1..m /\ j - m + 1 \in 2..l /\ calls'[i] = fr[i]
             /\ calls'[j] = calls[j - m + 1]
    BY <1>1, <1>4
  <1>5. CASE j \in 1..m /\ i - m + 1 \in 2..l /\ calls'[j] = fr[j]
             /\ calls'[i] = calls[i - m + 1]
    BY <1>1, <1>5
  <1>6. CASE i - m + 1 \in 2..l /\ j - m + 1 \in 2..l
             /\ calls'[i] = calls[i - m + 1] /\ calls'[j] = calls[j - m + 1]
    <2>1. PICK a \in 2..l, b \in 2..l : a = i - m + 1 /\ b = j - m + 1
      BY <1>6
    <2>2. a # b /\ a \in 1..l /\ b \in 1..l
      BY <2>1
    <2>3. ApartIn(ParentTransaction, calls[a], calls[b])
      BY <1>1, <2>2 DEF Apart
    <2> QED
      BY <1>6, <2>1, <2>3
  <1> QED
    BY <1>1, <1>2, <1>3, <1>4, <1>5, <1>6 DEF Origin

(* What is to be disposed of before another still is. *)
LEMMA DisposesKept ==
    ASSUME TypeOK, Disposes, NEW fr, Shifted(calls, fr, calls'),
           UNCHANGED <<ParentTransaction, Transaction>>,
           \A x \in Txns \cup Cursors : _handle'[x] =>
              /\ _handle[x]
              /\ calls[1].verb \in Gone /\ calls[1].obj = x => Pending(fr, Gone, x),
           \A x \in Txns : State'[x] \in {"Active", "Reseted"} =>
              /\ State[x] \in {"Active", "Reseted"}
              /\ calls[1].verb \in {"AbortIfActive", "Abort"} /\ calls[1].obj = x =>
                    Pending(fr, {"AbortIfActive", "Abort"}, x)
    PROVE  \A i \in 1..Len(calls') : i > Len(fr) => DisposesAt(i)'
  <1> SUFFICES ASSUME NEW i \in 1..Len(calls'), i > Len(fr)
               PROVE  DisposesAt(i)'
    OBVIOUS
  <1>1. PICK k \in 2..Len(calls) : k = i - Len(fr) + 1 /\ calls'[i] = calls[k]
    <2>1. Origin(calls, fr, calls', i)
      BY Origins
    <2>2. i \notin 1..Len(fr)
      BY DEF Shifted
    <2> QED
      BY <2>1, <2>2 DEF Origin
  <1>2. k \in 1..Len(calls)
    BY <1>1 DEF Shifted
  <1>3. DisposesAt(k)
    BY <1>2 DEF Disposes
  <1>4. ASSUME NEW x \in Txns \cup Cursors, _handle'[x], Before(calls, k, Gone, x)
        PROVE  Before(calls', i, Gone, x)
    <2>1. Before(calls, i - Len(fr) + 1, Gone, x)
      BY <1>1, <1>4
    <2>2. calls[1].verb \in Gone /\ calls[1].obj = x => Pending(fr, Gone, x)
      BY <1>4
    <2> QED
      BY <2>1, <2>2, BeforeKept
  <1>5. ASSUME NEW x \in Txns, State'[x] \in {"Active", "Reseted"},
               Before(calls, k, {"AbortIfActive", "Abort"}, x)
        PROVE  Before(calls', i, {"AbortIfActive", "Abort"}, x)
    <2>1. Before(calls, i - Len(fr) + 1, {"AbortIfActive", "Abort"}, x)
      BY <1>1, <1>5
    <2>2. calls[1].verb \in {"AbortIfActive", "Abort"} /\ calls[1].obj = x =>
             Pending(fr, {"AbortIfActive", "Abort"}, x)
      BY <1>5
    <2> QED
      BY <2>1, <2>2, BeforeKept
  <1>6. ASSUME calls'[i].verb \in {"AbortIfActive", "ZeroHandle"}, calls'[i].obj \in Txns
        PROVE  /\ \A x \in Txns : _handle'[x] /\ ParentTransaction'[x] = calls'[i].obj =>
                     Before(calls', i, Gone, x)
               /\ \A c \in Cursors : _handle'[c] /\ Transaction'[c] = calls'[i].obj =>
                     Before(calls', i, Gone, c)
    BY <1>1, <1>3, <1>4, <1>6 DEF DisposesAt
  <1>7. ASSUME calls'[i].verb = "mdb_env_close", NEW x \in Txns, _handle'[x]
        PROVE  Before(calls', i, Gone, x)
    BY <1>1, <1>3, <1>4, <1>7 DEF DisposesAt
  <1>8. ASSUME calls'[i].verb = "ZeroHandle", calls'[i].obj \in Txns,
               State'[calls'[i].obj] \in {"Active", "Reseted"}
        PROVE  Before(calls', i, {"AbortIfActive", "Abort"}, calls'[i].obj)
    BY <1>1, <1>3, <1>5, <1>8 DEF DisposesAt
  <1> QED
    BY <1>6, <1>7, <1>8 DEF DisposesAt

(* New calls that are neither: what hangs from what is as it was. *)
LEMMA UnderKept ==
    ASSUME TypeOK, DisposesUnder, NEW fr, Shifted(calls, fr, calls'),
           UNCHANGED <<ParentTransaction, Transaction>>,
           \A i \in 1..Len(fr) : fr[i].verb \notin {"Dispose", "ZeroHandle"}
    PROVE  DisposesUnder'
  <1>1. PICK l \in Nat, m \in Nat : l = Len(calls) /\ m = Len(fr)
    BY DEF Shifted
  <1> SUFFICES ASSUME NEW k \in 1..Len(calls'), NEW i \in 1..k - 1,
                      calls'[k].verb = "ZeroHandle", calls'[k].obj \in Txns,
                      calls'[i].verb = "Dispose"
               PROVE  Under(ParentTransaction', Transaction', calls'[i].obj, calls'[k].obj)
    BY DEF DisposesUnder
  <1>2. i \in 1..Len(calls')
    BY DEF Shifted
  <1>3. Origin(calls, fr, calls', i) /\ Origin(calls, fr, calls', k)
    BY <1>2, Origins
  <1>4. /\ i - m + 1 \in 2..l /\ calls'[i] = calls[i - m + 1]
        /\ k - m + 1 \in 2..l /\ calls'[k] = calls[k - m + 1]
    BY <1>1, <1>3 DEF Origin
  <1>5. PICK a \in 2..l, b \in 2..l : a = i - m + 1 /\ b = k - m + 1
    BY <1>4
  <1>6. b \in 1..l /\ a \in 1..b - 1
    BY <1>5
  <1>7. Under(ParentTransaction, Transaction, calls[a].obj, calls[b].obj)
    BY <1>1, <1>4, <1>5, <1>6 DEF DisposesUnder
  <1> QED
    BY <1>4, <1>5, <1>7

-----------------------------------------------------------------------------
(* The stack: Commit and Abort *)

(* What holds when they are executed. *)
BegunHeadIs(t) ==
    /\ 1 \in 1..Len(calls) /\ calls[1].verb \in Begun /\ calls[1].obj = t
    /\ Ready(State, _handle, ParentTransaction, Transaction, StateChanging, t)
    /\ ~Pending(calls, Native, t)
    /\ \A k \in 2..Len(calls) :
          /\ ApartIn(ParentTransaction, calls[1], calls[k])
          /\ ApartIn(ParentTransaction, calls[k], calls[1])
    /\ _handle[t] => LiveIn(mdb_txn, t)

(* It holds by the invariant. *)
LEMMA BegunHead ==
    ASSUME IInv, NEW t \in Txns, NEW V \in Begun, Executing(V, t)
    PROVE  BegunHeadIs(t)
  <1>1. TypeOK /\ HeldTxns /\ Agree /\ Ends /\ Apart
    BY DEF IInv, Objs, Stack
  <1>2. Len(calls) \in Nat /\ Len(calls) > 0 /\ calls[1].verb = V /\ calls[1].obj = t
    BY <1>1, HeadIs
  <1>3. 1 \in 1..Len(calls)
    BY <1>2
  <1>4. Ready(State, _handle, ParentTransaction, Transaction, StateChanging, t)
    BY <1>1, <1>2, <1>3 DEF Ends
  <1>5. \A k \in 2..Len(calls) :
          /\ ApartIn(ParentTransaction, calls[1], calls[k])
          /\ ApartIn(ParentTransaction, calls[k], calls[1])
    BY <1>1, <1>3 DEF Apart
  <1>6. t \in Sub(ParentTransaction, t)
    BY SubSelf
  <1>7. ~Pending(calls, Native, t)
    <2> SUFFICES ASSUME NEW k \in 1..Len(calls), calls[k].verb \in Native, calls[k].obj = t
                 PROVE  FALSE
      BY DEF Pending
    <2>1. k # 1
      BY <1>2 DEF Begun, Native
    <2>2. ApartIn(ParentTransaction, calls[1], calls[k])
      BY <1>2, <1>5, <2>1
    <2> QED
      BY <1>2, <1>6, <2>2 DEF ApartIn
  <1>8. _handle[t] => State[t] \in {"Active", "Reseted"}
    BY <1>4, <1>6 DEF Ready
  <1>9. _handle[t] => LiveIn(mdb_txn, t)
    BY <1>1, <1>7, <1>8 DEF Agree, LiveIn
  <1> QED
    BY <1>2, <1>3, <1>4, <1>5, <1>7, <1>9 DEF BegunHeadIs

(* What such a step does. *)
BegunStep(t, U, fr) ==
    /\ Shifted(calls, fr, calls')
    /\ OneMore(fr, "Abort", StateChanging[t], U, t)
    /\ U \in Native
    /\ calls[1].verb = "Commit" \/ (calls[1].verb = "Abort" /\ U = "mdb_txn_abort")
    /\ State'[t] \in Finished
    /\ \A u \in Txns \ {t} : State'[u] = State[u]
    /\ UNCHANGED <<_handle, ParentTransaction, IsReadOnly, Transaction, Disposing,
                   StateChanging, nativeVars>>

(* Both calls do that. *)
LEMMA BegunSteps ==
    ASSUME IInv, NEW t \in Txns, Commit(t) \/ Abort(t)
    PROVE  BegunHeadIs(t) /\ \E U \in Native, fr \in Seq(Frames) : BegunStep(t, U, fr)
  <1>1. TypeOK
    BY DEF IInv
  <1>2. ASSUME NEW V \in Begun, NEW U \in Native, NEW s \in Finished, Executing(V, t),
               V = "Commit" \/ U = "mdb_txn_abort",
               State' = [State EXCEPT ![t] = s],
               Expand(Each("Abort", StateChanging[t]) \o Then(U, t)),
               UNCHANGED <<_handle, ParentTransaction, IsReadOnly, Transaction, Disposing,
                           StateChanging, nativeVars>>
        PROVE  BegunHeadIs(t) /\ \E W \in Native, fr \in Seq(Frames) : BegunStep(t, W, fr)
    <2>1. BegunHeadIs(t)
      BY <1>2, BegunHead
    <2>2. calls # <<>>
      BY <1>2 DEF Executing
    <2>3. PICK fr : /\ Shifted(calls, fr, calls')
                    /\ OneMore(fr, "Abort", StateChanging[t], U, t)
      BY <1>1, <1>2, <2>2, EndCalls
    <2>4. calls[1].verb = V
      BY <1>1, <1>2, HeadIs
    <2>5. State'[t] \in Finished /\ \A u \in Txns \ {t} : State'[u] = State[u]
      BY <1>1, <1>2 DEF TypeOK
    <2>6. fr \in Seq(Frames)
      BY <2>3 DEF OneMore
    <2>7. BegunStep(t, U, fr)
      BY <1>2, <2>3, <2>4, <2>5 DEF BegunStep, Begun
    <2> QED
      BY <2>1, <2>6, <2>7
  <1>3. CASE Commit(t)
    <2>1. "Commit" \in Begun /\ "mdb_txn_commit" \in Native /\ "Commited" \in Finished
      BY DEF Begun, Native, Finished
    <2> QED
      BY <1>2, <1>3, <2>1 DEF Commit
  <1>4. CASE Abort(t)
    <2>1. "Abort" \in Begun /\ "mdb_txn_abort" \in Native /\ "Aborted" \in Finished
      BY DEF Begun, Native, Finished
    <2> QED
      BY <1>2, <1>4, <2>1 DEF Abort
  <1> QED
    BY <1>3, <1>4

(* The new calls: the children are aborted, then the native call. *)
LEMMA BegunFrames ==
    ASSUME IInv, NEW t \in Txns, NEW U, NEW fr, BegunStep(t, U, fr)
    PROVE  \A i \in 1..Len(fr) :
              \/ /\ i < Len(fr)
                 /\ fr[i].verb = "Abort" /\ fr[i].obj = StateChanging[t][i]
                 /\ fr[i].obj \in Txns /\ ParentTransaction[fr[i].obj] = t
              \/ i = Len(fr) /\ fr[i].verb = U /\ fr[i].obj = t
  <1>1. PICK xs : xs = StateChanging[t]
    OBVIOUS
  <1>2. xs \in Seq(Txns) /\ Len(xs) \in Nat
    BY <1>1 DEF IInv, TypeOK
  <1>3. PICK n \in Nat : n = Len(xs)
    BY <1>2
  <1>4. /\ Len(fr) = n + 1 /\ Calls(fr, "Abort", xs)
        /\ fr[n + 1] = [verb |-> U, obj |-> t]
    BY <1>1, <1>3 DEF BegunStep, OneMore
  <1> SUFFICES ASSUME NEW i \in 1..Len(fr)
               PROVE  \/ /\ i < Len(fr)
                         /\ fr[i].verb = "Abort" /\ fr[i].obj = xs[i]
                         /\ fr[i].obj \in Txns /\ ParentTransaction[fr[i].obj] = t
                      \/ i = Len(fr) /\ fr[i].verb = U /\ fr[i].obj = t
    BY <1>1
  <1>5. CASE i \in 1..n
    <2>1. fr[i] = [verb |-> "Abort", obj |-> xs[i]]
      BY <1>3, <1>4, <1>5 DEF Calls
    <2>2. xs[i] \in Txns /\ In(xs[i], xs)
      BY <1>2, <1>3, <1>5 DEF In
    <2>3. ParentTransaction[xs[i]] = t
      BY <1>1, <2>2 DEF IInv, Objs, Subscribers
    <2> QED
      BY <1>4, <1>5, <2>1, <2>2, <2>3
  <1>6. CASE i = n + 1
    <2>1. fr[i].verb = U /\ fr[i].obj = t
      BY <1>4, <1>6
    <2> QED
      BY <1>4, <1>6, <2>1
  <1> QED
    BY <1>4, <1>5, <1>6

(* Aborts of children and a native call: of the right shape. *)
LEMMA BegunShape ==
    ASSUME IInv, NEW t \in Txns, NEW U \in Native, NEW fr, BegunStep(t, U, fr),
           BegunHeadIs(t)
    PROVE  Shape' /\ AllEnding(fr)
  <1>1. TypeOK /\ Shape
    BY DEF IInv, Stack
  <1>2. /\ Shifted(calls, fr, calls')
        /\ calls[1].verb = "Commit" \/ (calls[1].verb = "Abort" /\ U = "mdb_txn_abort")
        /\ _handle' = _handle
    BY DEF BegunStep
  <1>3. 1 \in 1..Len(calls) /\ calls[1].obj = t
    BY DEF BegunHeadIs
  <1>4. calls[1].verb = "Commit" => Len(calls) = 1 /\ _handle[t]
    BY <1>1, <1>3 DEF Shape
  <1>5. AllEnding(fr)
    BY BegunFrames DEF AllEnding, Ending, Native
  <1>6. NewShape(fr, Len(calls), _handle')
    <2> SUFFICES ASSUME NEW i \in 1..Len(fr)
        PROVE
          /\ fr[i].verb \in Ending \cup {"AbortIfActive"} => fr[i].obj \in Txns
          /\ fr[i].verb = "ZeroHandle" => fr[i].obj \in Txns \cup {Env}
          /\ fr[i].verb = "mdb_env_close" => fr[i].obj = Env
          /\ fr[i].verb = "Dispose" => fr[i].obj # Env
          /\ fr[i].verb # "Commit"
          /\ fr[i].verb = "mdb_txn_commit" =>
                i = Len(fr) /\ Len(calls) = 1 /\ _handle'[fr[i].obj]
          /\ fr[i].verb \in Ending => \A j \in 1..i-1 : fr[j].verb \in Ending
      BY DEF NewShape
    <2>1. \/ i < Len(fr) /\ fr[i].verb = "Abort" /\ fr[i].obj \in Txns
          \/ i = Len(fr) /\ fr[i].verb = U /\ fr[i].obj = t
      BY BegunFrames
    <2>2. \A j \in 1..i - 1 : fr[j].verb \in Ending
      <3>1. \A j \in 1..i - 1 : j \in 1..Len(fr)
        BY <1>2 DEF Shifted
      <3> QED
        BY <1>5, <3>1 DEF AllEnding
    <2> QED
      BY <1>2, <1>4, <2>1, <2>2 DEF Native
  <1> QED
    BY <1>1, <1>2, <1>5, <1>6, ShapeStep

(* Children end apart from each other and from what was to end already. *)
LEMMA BegunApart ==
    ASSUME IInv, NEW t \in Txns, NEW U \in Native, NEW fr, BegunStep(t, U, fr),
           BegunHeadIs(t)
    PROVE  Apart'
  <1> DEFINE P == ParentTransaction
  <1>1. TypeOK /\ Apart /\ Trees /\ Subscribers
    BY DEF IInv, Stack, Objs
  <1>2. Shifted(calls, fr, calls') /\ P' = P
    BY DEF BegunStep
  <1>3. /\ calls[1].verb \in Begun /\ calls[1].obj = t
        /\ \A k \in 2..Len(calls) : ApartIn(P, calls[1], calls[k]) /\ ApartIn(P, calls[k], calls[1])
    BY DEF BegunHeadIs
  <1>4. \A w \in Txns : P[w] = t => /\ Sub(P, w) \subseteq Sub(P, t)
                                    /\ w \in Sub(P, t) /\ t \notin Sub(P, w)
    BY <1>1, SubChild DEF Trees
  <1>5. t \in Sub(P, t)
    BY SubSelf
  <1>6. \A i \in 1..Len(fr) :
           \/ i < Len(fr) /\ fr[i].verb = "Abort" /\ fr[i].obj = StateChanging[t][i]
                /\ fr[i].obj \in Txns /\ P[fr[i].obj] = t
           \/ i = Len(fr) /\ fr[i].verb = U /\ fr[i].obj = t
    BY BegunFrames
  <1>7. ASSUME NEW i \in 1..Len(fr), NEW j \in 1..Len(fr), i # j
        PROVE  ApartIn(P, fr[i], fr[j])
    <2>1. CASE i < Len(fr) /\ j < Len(fr)
      <3>1. PICK w \in Txns, z \in Txns :
                /\ w = fr[i].obj /\ z = fr[j].obj /\ P[w] = t /\ P[z] = t
                /\ w = StateChanging[t][i] /\ z = StateChanging[t][j]
                /\ fr[i].verb = "Abort" /\ fr[j].verb = "Abort"
        BY <1>6, <2>1
      <3>2. i \in 1..Len(StateChanging[t]) /\ j \in 1..Len(StateChanging[t])
        BY <2>1 DEF BegunStep, OneMore
      <3>3. w # z
        BY <1>1, <1>7, <3>1, <3>2 DEF Subscribers
      <3>4. Sub(P, w) \cap Sub(P, z) = {}
        BY <1>4, <3>1, <3>3, SubApart
      <3> QED
        BY <3>1, <3>4 DEF ApartIn, Native
    <2>2. CASE i < Len(fr) /\ ~(j < Len(fr))
      BY <1>4, <1>6, <2>2 DEF ApartIn, Begun, Native
    <2>3. CASE ~(i < Len(fr)) /\ j < Len(fr)
      BY <1>6, <2>3 DEF ApartIn, Begun, Native
    <2>4. CASE ~(i < Len(fr)) /\ ~(j < Len(fr))
      BY <1>6, <1>7, <2>4
    <2> QED
      BY <2>1, <2>2, <2>3, <2>4
  <1>8. ASSUME NEW i \in 1..Len(fr), NEW k \in 2..Len(calls)
        PROVE  ApartIn(P, fr[i], calls[k]) /\ ApartIn(P, calls[k], fr[i])
    <2>1. ApartIn(P, calls[1], calls[k]) /\ ApartIn(P, calls[k], calls[1])
      BY <1>3
    <2>2. PICK g : g = calls[k]
      OBVIOUS
    <2>3. /\ g.verb \in Begun => Sub(P, t) \cap Sub(P, g.obj) = {}
          /\ g.verb \in Native => g.obj \notin Sub(P, t)
      BY <1>3, <2>1, <2>2 DEF ApartIn
    <2>4. CASE fr[i].verb = "Abort" /\ fr[i].obj \in Txns /\ P[fr[i].obj] = t
      <3>1. PICK w \in Txns : w = fr[i].obj /\ P[w] = t
        BY <2>4
      <3>2. Sub(P, w) \subseteq Sub(P, t) /\ w \in Sub(P, t)
        BY <1>4, <3>1
      <3>3. ApartIn(P, fr[i], g)
        BY <2>3, <2>4, <3>1, <3>2 DEF ApartIn, Native
      <3>4. ApartIn(P, g, fr[i])
        BY <2>3, <2>4, <3>1, <3>2 DEF ApartIn, Native
      <3> QED
        BY <2>2, <3>3, <3>4
    <2>5. CASE fr[i].verb = U /\ fr[i].obj = t
      <3>1. U \notin Begun
        BY DEF Begun, Native
      <3>2. ApartIn(P, fr[i], g)
        BY <1>5, <2>3, <2>5, <3>1 DEF ApartIn
      <3>3. ApartIn(P, g, fr[i])
        BY <1>5, <2>3, <2>5, <3>1 DEF ApartIn
      <3> QED
        BY <2>2, <3>2, <3>3
    <2> QED
      BY <1>6, <2>4, <2>5
  <1> QED
    BY <1>1, <1>2, <1>7, <1>8, ApartStep

(* A child is as ready to end as its parent was; before the native call    *)
(* all live children are aborted.                                          *)
LEMMA BegunEnds ==
    ASSUME IInv, NEW t \in Txns, NEW U \in Native, NEW fr, BegunStep(t, U, fr),
           BegunHeadIs(t)
    PROVE  Ends'
  <1> DEFINE P == ParentTransaction
  <1>1. TypeOK /\ Ends /\ Trees /\ HeldTxns /\ HeldCursors /\ Shape
    BY DEF IInv, Stack, Objs
  <1>2. /\ Shifted(calls, fr, calls')
        /\ UNCHANGED <<_handle, ParentTransaction, Transaction, StateChanging, mdb_txn>>
        /\ \A u \in Txns \ {t} : State'[u] = State[u]
    BY DEF BegunStep, nativeVars
  <1>3. /\ 1 \in 1..Len(calls) /\ calls[1].verb \in Begun /\ calls[1].obj = t
        /\ Ready(State, _handle, ParentTransaction, Transaction, StateChanging, t)
        /\ \A k \in 2..Len(calls) : ApartIn(P, calls[1], calls[k]) /\ ApartIn(P, calls[k], calls[1])
    BY DEF BegunHeadIs
  <1>4. \A w \in Txns : P[w] = t => /\ Sub(P, w) \subseteq Sub(P, t)
                                    /\ w \in Sub(P, t) /\ t \notin Sub(P, w)
    BY <1>1, SubChild DEF Trees
  <1>5. t \in Sub(P, t)
    BY SubSelf
  <1>6. \A i \in 1..Len(fr) :
           \/ i < Len(fr) /\ fr[i].verb = "Abort" /\ fr[i].obj = StateChanging[t][i]
                /\ fr[i].obj \in Txns /\ P[fr[i].obj] = t
           \/ i = Len(fr) /\ fr[i].verb = U /\ fr[i].obj = t
    BY BegunFrames
  <1>7. ASSUME NEW y \in Txns, t \notin Sub(P, y),
               Ready(State, _handle, ParentTransaction, Transaction, StateChanging, y)
        PROVE  Ready(State', _handle', ParentTransaction', Transaction', StateChanging', y)
    <2>1. Sub(P, y) \in SUBSET Txns
      BY SubTxns
    <2> QED
      BY <1>2, <1>7, <2>1 DEF Ready
  <1>8. ASSUME NEW w \in Txns, P[w] = t
        PROVE  Ready(State', _handle', ParentTransaction', Transaction', StateChanging', w)
    <2>1. Sub(P, w) \subseteq Sub(P, t) /\ t \notin Sub(P, w)
      BY <1>4, <1>8
    <2>2. \A x \in Sub(P, w) : x # t
      BY <2>1
    <2>3. Ready(State, _handle, ParentTransaction, Transaction, StateChanging, w)
      BY <1>3, <2>1, <2>2 DEF Ready
    <2> QED
      BY <1>7, <2>1, <2>3
  <1>9. \A c \in Cursors : _handle[c] => Transaction[c] # t
    BY <1>1, <1>3, <1>5 DEF Ready, HeldCursors
  <1>10. ASSUME NEW w \in Txns, LiveIn(mdb_txn, w), P[w] = t
         PROVE  \E i \in 1..Len(fr) - 1 : fr[i].verb = "Abort" /\ fr[i].obj = w
    <2>1. w # t /\ w \in Sub(P, t) /\ _handle[w]
      BY <1>1, <1>4, <1>5, <1>10 DEF HeldTxns, Trees
    <2>2. In(w, StateChanging[t])
      BY <1>3, <1>10, <2>1 DEF Ready
    <2>3. PICK i \in 1..Len(StateChanging[t]) : StateChanging[t][i] = w
      BY <2>2 DEF In
    <2>4. Len(fr) = Len(StateChanging[t]) + 1 /\ Len(StateChanging[t]) \in Nat
      BY DEF BegunStep, OneMore
    <2>5. i \in 1..Len(fr) - 1 /\ i \in 1..Len(fr) /\ i # Len(fr)
      BY <2>4
    <2> QED
      BY <1>6, <2>3, <2>5
  <1> SUFFICES ASSUME NEW i \in 1..Len(calls')
      PROVE
       /\ calls'[i].verb \in Begun =>
             Ready(State', _handle', ParentTransaction', Transaction', StateChanging', calls'[i].obj)
       /\ calls'[i].verb \in Native =>
             /\ \A c \in Cursors : _handle'[c] => Transaction'[c] # calls'[i].obj
             /\ \A w \in Txns : LiveIn(mdb_txn', w) /\ P'[w] = calls'[i].obj =>
                   Before(calls', i, {"Abort", "mdb_txn_abort"}, w)
    BY DEF Ends
  <1>11. Origin(calls, fr, calls', i)
    BY <1>2, Origins
  <1>12. CASE i \in 1..Len(fr) /\ calls'[i] = fr[i]
    <2>1. CASE fr[i].verb = "Abort" /\ fr[i].obj \in Txns /\ P[fr[i].obj] = t
      <3>1. Ready(State', _handle', ParentTransaction', Transaction', StateChanging', fr[i].obj)
        BY <1>8, <2>1
      <3> QED
        BY <1>12, <2>1, <3>1 DEF Native
    <2>2. CASE i = Len(fr) /\ fr[i].verb = U /\ fr[i].obj = t
      <3>1. ASSUME NEW w \in Txns, LiveIn(mdb_txn, w), P[w] = t
            PROVE  Before(calls', i, {"Abort", "mdb_txn_abort"}, w)
        <4>1. PICK j \in 1..Len(fr) - 1 : fr[j].verb = "Abort" /\ fr[j].obj = w
          BY <1>10, <3>1
        <4>2. j \in 1..Len(fr) /\ j \in 1..i - 1
          BY <1>2, <2>2 DEF Shifted
        <4>3. calls'[j] = fr[j]
          BY <1>2, <4>2 DEF Shifted
        <4> QED
          BY <4>1, <4>2, <4>3 DEF Before
      <3> QED
        BY <1>2, <1>9, <1>12, <2>2, <3>1 DEF Begun, Native
    <2> QED
      BY <1>6, <1>12, <2>1, <2>2
  <1>13. CASE i > Len(fr) /\ i - Len(fr) + 1 \in 2..Len(calls)
              /\ calls'[i] = calls[i - Len(fr) + 1]
    <2>1. PICK k \in 2..Len(calls) : k = i - Len(fr) + 1 /\ calls'[i] = calls[k]
      BY <1>13
    <2>2. k \in 1..Len(calls) /\ ApartIn(P, calls[k], calls[1]) /\ ApartIn(P, calls[1], calls[k])
      BY <1>3, <2>1 DEF Shifted
    <2>3. ASSUME calls[k].verb \in Begun
          PROVE  Ready(State', _handle', ParentTransaction', Transaction', StateChanging', calls[k].obj)
      <3>1. Ready(State, _handle, ParentTransaction, Transaction, StateChanging, calls[k].obj)
        BY <1>1, <2>2, <2>3 DEF Ends
      <3>2. t \notin Sub(P, calls[k].obj)
        BY <1>3, <1>5, <2>2, <2>3 DEF ApartIn
      <3>3. calls[k].obj \in Txns
        BY <1>1, <2>2, <2>3 DEF Shape, Begun, Ending
      <3> QED
        BY <1>7, <3>1, <3>2, <3>3
    <2>4. ASSUME calls[k].verb \in Native, NEW w \in Txns, LiveIn(mdb_txn, w),
                 P[w] = calls[k].obj
          PROVE  Before(calls', i, {"Abort", "mdb_txn_abort"}, w)
      <3>1. Before(calls, k, {"Abort", "mdb_txn_abort"}, w)
        BY <1>1, <2>2, <2>4 DEF Ends
      <3>2. calls[1].verb \in {"Abort", "mdb_txn_abort"} /\ calls[1].obj = w =>
               Pending(fr, {"Abort", "mdb_txn_abort"}, w)
        <4> SUFFICES ASSUME calls[1].verb = "Abort", w = t
                     PROVE  Pending(fr, {"Abort", "mdb_txn_abort"}, w)
          BY <1>3 DEF Begun
        <4>1. U = "mdb_txn_abort"
          BY DEF BegunStep
        <4>2. Len(fr) \in 1..Len(fr)
          BY DEF BegunStep, OneMore
        <4>3. fr[Len(fr)].verb = U /\ fr[Len(fr)].obj = t
          BY <1>6, <4>2
        <4> QED
          BY <4>1, <4>2, <4>3 DEF Pending
      <3>3. Before(calls, i - Len(fr) + 1, {"Abort", "mdb_txn_abort"}, w)
        BY <2>1, <3>1
      <3> QED
        BY <1>2, <1>13, <3>2, <3>3, BeforeKept
    <2>5. calls[k].verb \in Native => \A c \in Cursors : _handle[c] => Transaction[c] # calls[k].obj
      BY <1>1, <2>2 DEF Ends
    <2> QED
      BY <1>2, <2>1, <2>3, <2>4, <2>5
  <1> QED
    BY <1>11, <1>12, <1>13 DEF Origin

(* The object that has been told, and not yet ended, has a native call     *)
(* pending.                                                                *)
LEMMA BegunAgree ==
    ASSUME IInv, NEW t \in Txns, NEW U \in Native, NEW fr, BegunStep(t, U, fr),
           BegunHeadIs(t)
    PROVE  Agree' /\ Subscribed'
  <1>1. TypeOK /\ Agree /\ Subscribed
    BY DEF IInv, Stack
  <1>2. /\ Shifted(calls, fr, calls')
        /\ UNCHANGED <<_handle, ParentTransaction, Transaction, Disposing, StateChanging, mdb_txn>>
        /\ State'[t] \in Finished
        /\ \A u \in Txns \ {t} : State'[u] = State[u]
    BY DEF BegunStep, nativeVars
  <1>3. /\ calls[1].verb \in Begun /\ calls[1].obj = t
        /\ _handle[t] => LiveIn(mdb_txn, t)
    BY DEF BegunHeadIs
  <1>4. \A i \in 1..Len(fr) :
           \/ i < Len(fr) /\ fr[i].verb = "Abort" /\ fr[i].obj = StateChanging[t][i]
           \/ i = Len(fr) /\ fr[i].verb = U /\ fr[i].obj = t
    BY BegunFrames
  <1>5. Len(fr) \in 1..Len(fr)
    BY DEF BegunStep, OneMore
  <1>6. Pending(fr, Native, t) /\ \A u : Pending(fr, Native, u) => u = t
    <2>1. fr[Len(fr)].verb \in Native /\ fr[Len(fr)].obj = t
      BY <1>4, <1>5
    <2> QED
      BY <1>4, <1>5, <2>1 DEF Pending, Native
  <1>7. Pending(calls', Native, t)
    BY <1>2, <1>6, PendingNew
  <1>8. \A u \in Txns \ {t} : Pending(calls', Native, u) <=> Pending(calls, Native, u)
    <2> TAKE u \in Txns \ {t}
    <2>1. ~Pending(fr, Native, u) /\ ~(calls[1].verb \in Native)
      BY <1>3, <1>6 DEF Begun, Native
    <2> QED
      BY <1>2, <2>1, PendingNew
  <1>9. \A u : Pending(calls, {"ZeroHandle"}, u) => Pending(calls', {"ZeroHandle"}, u)
    <2> TAKE u
    <2>1. calls[1].verb \notin {"ZeroHandle"}
      BY <1>3 DEF Begun
    <2> QED
      BY <1>2, <2>1, PendingNew
  <1>10. Agree'
    BY <1>1, <1>2, <1>3, <1>7, <1>8 DEF Agree
  <1>11. Subscribed'
    BY <1>1, <1>2, <1>9 DEF Subscribed
  <1> QED
    BY <1>10, <1>11

(* What waits to be disposed of is not touched, and what is aborted is not *)
(* active.                                                                 *)
LEMMA BegunDisposes ==
    ASSUME IInv, NEW t \in Txns, NEW U \in Native, NEW fr, BegunStep(t, U, fr),
           BegunHeadIs(t)
    PROVE  Disposes'
  <1>1. TypeOK /\ Disposes
    BY DEF IInv, Stack
  <1>2. /\ Shifted(calls, fr, calls')
        /\ UNCHANGED <<_handle, ParentTransaction, Transaction>>
        /\ State'[t] \in Finished
        /\ \A u \in Txns \ {t} : State'[u] = State[u]
    BY DEF BegunStep
  <1>3. calls[1].verb \in Begun /\ calls[1].obj = t
    BY DEF BegunHeadIs
  <1>4. \A i \in 1..Len(fr) : fr[i].verb \in {"Abort", "mdb_txn_abort", "mdb_txn_commit"}
    BY BegunFrames DEF Native
  <1>5. \A x \in Txns \cup Cursors : _handle'[x] =>
              /\ _handle[x]
              /\ calls[1].verb \in Gone /\ calls[1].obj = x => Pending(fr, Gone, x)
    BY <1>2, <1>3 DEF Begun, Gone
  <1>6. \A x \in Txns : State'[x] \in {"Active", "Reseted"} =>
              /\ State[x] \in {"Active", "Reseted"}
              /\ calls[1].verb \in {"AbortIfActive", "Abort"} /\ calls[1].obj = x =>
                    Pending(fr, {"AbortIfActive", "Abort"}, x)
    <2> TAKE x \in Txns
    <2>1. State'[x] \in {"Active", "Reseted"} => x # t
      BY <1>2 DEF Finished
    <2> QED
      BY <1>2, <1>3, <2>1
  <1>7. \A i \in 1..Len(calls') : i > Len(fr) => DisposesAt(i)'
    BY <1>1, <1>2, <1>5, <1>6, DisposesKept
  <1>8. ASSUME NEW i \in 1..Len(calls'), ~(i > Len(fr))
        PROVE  DisposesAt(i)'
    <2>1. i \in 1..Len(fr)
      BY <1>2, <1>8 DEF Shifted
    <2>2. calls'[i] = fr[i]
      BY <1>2, <2>1 DEF Shifted
    <2>3. calls'[i].verb \in {"Abort", "mdb_txn_abort", "mdb_txn_commit"}
      BY <1>4, <2>1, <2>2
    <2> QED
      BY <2>3 DEF DisposesAt
  <1>9. DisposesUnder'
    BY <1>1, <1>2, <1>4, UnderKept DEF Disposes
  <1> QED
    BY <1>7, <1>8, <1>9 DEF Disposes

(* Commit and Abort keep the invariant of the stack. *)
LEMMA BegunInd ==
    ASSUME IInv, NEW t \in Txns, Commit(t) \/ Abort(t)
    PROVE  Stack'
  <1>1. BegunHeadIs(t)
    BY BegunSteps
  <1>2. PICK U \in Native, fr \in Seq(Frames) : BegunStep(t, U, fr)
    BY BegunSteps
  <1> QED
    BY <1>1, <1>2, BegunShape, BegunApart, BegunEnds, BegunAgree,
       BegunDisposes DEF Stack

-----------------------------------------------------------------------------
(* The stack: mdb_txn_commit and mdb_txn_abort *)

(* What such a step changes. *)
NativeDone(t) ==
    /\ Shifted(calls, <<>>, calls')
    /\ 1 \in 1..Len(calls) /\ calls[1].verb \in Native /\ calls[1].obj = t
    /\ UNCHANGED <<State, _handle, ParentTransaction, Transaction, Disposing, StateChanging>>
    /\ ~LiveIn(mdb_txn', t)
    /\ \A u \in Txns \ {t} : mdb_txn'[u] = mdb_txn[u]
    /\ _handle[t] => mdb_txn'[t] = "ended" /\ State[t] \in Finished

(* Both native calls do that. *)
LEMMA NativeDoneIs ==
    ASSUME IInv, NEW t \in Txns, NEW U \in Native, NativeStep(U, t)
    PROVE  NativeDone(t)
  <1>1. TypeOK /\ HeldTxns
    BY DEF IInv, Objs
  <1>2. Len(calls) \in Nat /\ Len(calls) > 0 /\ calls # <<>>
        /\ calls[1].verb = U /\ calls[1].obj = t
    BY <1>1, HeadIs DEF NativeStep
  <1>3. Shifted(calls, <<>>, calls')
    BY <1>1, <1>2, Returns DEF NativeStep
  <1>4. _handle[t] => State[t] \in Finished
    BY NativeHead DEF NativeStep
  <1>5. CASE _handle[t]
    BY <1>2, <1>3, <1>4, <1>5 DEF NativeStep, NativeDone, Ended, netVars, LiveIn
  <1>6. CASE ~_handle[t]
    <2>1. ~LiveIn(mdb_txn, t)
      BY <1>1, <1>6 DEF HeldTxns
    <2> QED
      BY <1>2, <1>3, <1>6, <2>1
      DEF NativeStep, NativeDone, netVars, nativeVars, LiveIn
  <1> QED
    BY <1>5, <1>6

(* The calls that are left are as they were. *)
LEMMA NativeShape ==
    ASSUME IInv, NEW t \in Txns, NativeDone(t)
    PROVE  Shape' /\ Apart'
  <1>1. TypeOK /\ Shape /\ Apart
    BY DEF IInv, Stack
  <1>2. PICK fr : fr = <<>>
    OBVIOUS
  <1>3. Len(fr) = 0
    BY <1>2
  <1>4. /\ Shifted(calls, fr, calls') /\ _handle' = _handle
        /\ ParentTransaction' = ParentTransaction
    BY <1>2 DEF NativeDone
  <1>5. NewShape(fr, Len(calls), _handle') /\ AllEnding(fr)
    BY <1>3 DEF NewShape, AllEnding
  <1>6. Shape'
    BY <1>1, <1>4, <1>5, ShapeStep
  <1>7. \A i \in 1..Len(fr) : FALSE
    BY <1>3
  <1>8. Apart'
    BY <1>1, <1>4, <1>7, ApartStep
  <1> QED
    BY <1>6, <1>8

(* A transaction that has ended need not be waited for. *)
LEMMA NativeEnds ==
    ASSUME IInv, NEW t \in Txns, NativeDone(t)
    PROVE  Ends'
  <1>1. TypeOK /\ Ends
    BY DEF IInv, Stack
  <1>2. PICK fr : fr = <<>>
    OBVIOUS
  <1>3. Len(fr) = 0
    BY <1>2
  <1>4. Shifted(calls, fr, calls')
    BY <1>2 DEF NativeDone
  <1> SUFFICES ASSUME NEW i \in 1..Len(calls')
      PROVE
       /\ calls'[i].verb \in Begun =>
             Ready(State', _handle', ParentTransaction', Transaction', StateChanging',
                   calls'[i].obj)
       /\ calls'[i].verb \in Native =>
             /\ \A c \in Cursors : _handle'[c] => Transaction'[c] # calls'[i].obj
             /\ \A w \in Txns :
                   LiveIn(mdb_txn', w) /\ ParentTransaction'[w] = calls'[i].obj =>
                   Before(calls', i, {"Abort", "mdb_txn_abort"}, w)
    BY DEF Ends
  <1>5. Origin(calls, fr, calls', i)
    BY <1>4, Origins
  <1>6. PICK k \in 2..Len(calls) : k = i - Len(fr) + 1 /\ calls'[i] = calls[k] /\ i > Len(fr)
    BY <1>3, <1>5 DEF Origin
  <1>7. k \in 1..Len(calls)
    BY <1>4 DEF Shifted
  <1>8. /\ calls[k].verb \in Begun =>
             Ready(State, _handle, ParentTransaction, Transaction, StateChanging,
                   calls[k].obj)
        /\ calls[k].verb \in Native => \A c \in Cursors : _handle[c] =>
             Transaction[c] # calls[k].obj
    BY <1>1, <1>7 DEF Ends
  <1>9. ASSUME calls[k].verb \in Native, NEW w \in Txns, LiveIn(mdb_txn', w),
               ParentTransaction[w] = calls[k].obj
        PROVE  Before(calls', i, {"Abort", "mdb_txn_abort"}, w)
    <2>1. w # t /\ LiveIn(mdb_txn, w)
      BY <1>9 DEF NativeDone, LiveIn
    <2>2. Before(calls, k, {"Abort", "mdb_txn_abort"}, w)
      BY <1>1, <1>7, <1>9, <2>1 DEF Ends
    <2>3. Before(calls, i - Len(fr) + 1, {"Abort", "mdb_txn_abort"}, w) /\ calls[1].obj # w
      BY <1>6, <2>1, <2>2 DEF NativeDone
    <2> QED
      BY <1>4, <1>6, <2>3, BeforeKept
  <1>10. UNCHANGED <<State, _handle, ParentTransaction, Transaction, StateChanging>>
    BY DEF NativeDone
  <1> QED
    BY <1>6, <1>8, <1>9, <1>10

(* Object and native transaction agree again. *)
LEMMA NativeAgree ==
    ASSUME IInv, NEW t \in Txns, NativeDone(t)
    PROVE  Agree' /\ Subscribed'
  <1>1. TypeOK /\ Agree /\ Subscribed /\ Apart
    BY DEF IInv, Stack
  <1>2. PICK fr : fr = <<>>
    OBVIOUS
  <1>3. \A V, x : ~Pending(fr, V, x)
    BY <1>2 DEF Pending
  <1>4. Shifted(calls, fr, calls')
    BY <1>2 DEF NativeDone
  <1>5. calls[1].verb \in Native /\ calls[1].obj = t /\ 1 \in 1..Len(calls)
    BY DEF NativeDone
  <1>6. ~Pending(calls', Native, t)
    <2> SUFFICES ASSUME NEW i \in 1..Len(calls'), calls'[i].verb \in Native,
                        calls'[i].obj = t
                 PROVE  FALSE
      BY DEF Pending
    <2>1. Origin(calls, fr, calls', i)
      BY <1>4, Origins
    <2>2. i \notin 1..Len(fr)
      BY <1>2
    <2>3. PICK k \in 2..Len(calls) : calls'[i] = calls[k]
      BY <2>1, <2>2 DEF Origin
    <2>4. k \in 1..Len(calls) /\ k # 1
      BY <1>4 DEF Shifted
    <2>5. ApartIn(ParentTransaction, calls[1], calls[k])
      BY <1>1, <1>5, <2>4 DEF Apart
    <2> QED
      BY <1>5, <2>3, <2>5 DEF ApartIn
  <1>7. \A u \in Txns \ {t} : Pending(calls', Native, u) <=> Pending(calls, Native, u)
    BY <1>3, <1>4, <1>5, PendingNew
  <1>8. \A u : Pending(calls, {"ZeroHandle"}, u) => Pending(calls', {"ZeroHandle"}, u)
    <2> TAKE u
    <2>1. calls[1].verb \notin {"ZeroHandle"}
      BY <1>5 DEF Native
    <2> QED
      BY <1>4, <2>1, PendingNew
  <1>9. UNCHANGED <<State, _handle, ParentTransaction, Transaction, Disposing, StateChanging>>
    BY DEF NativeDone
  <1>10. \A u \in Txns \ {t} : mdb_txn'[u] = mdb_txn[u]
    BY DEF NativeDone
  <1>11. _handle[t] => mdb_txn'[t] = "ended" /\ State[t] \in Finished
    BY DEF NativeDone
  <1>12. ASSUME NEW u \in Txns, _handle[u]
         PROVE  /\ Pending(calls', Native, u) => LiveIn(mdb_txn', u) /\ State[u] \in Finished
                /\ ~Pending(calls', Native, u) =>
                      /\ State[u] = "Active" <=> mdb_txn'[u] = "live"
                      /\ State[u] = "Reseted" <=> mdb_txn'[u] = "reset"
    <2>1. CASE u = t
      BY <1>6, <1>11, <1>12, <2>1 DEF Finished
    <2>2. CASE u # t
      BY <1>1, <1>7, <1>10, <1>12, <2>2 DEF Agree, LiveIn
    <2> QED
      BY <2>1, <2>2
  <1>13. Agree'
    BY <1>9, <1>12 DEF Agree
  <1>14. Subscribed'
    BY <1>1, <1>8, <1>9 DEF Subscribed
  <1> QED
    BY <1>13, <1>14

(* Nothing that is disposed of waits for a native end. *)
LEMMA NativeDisposes ==
    ASSUME IInv, NEW t \in Txns, NativeDone(t)
    PROVE  Disposes'
  <1>1. TypeOK /\ Disposes
    BY DEF IInv, Stack
  <1>2. PICK fr : fr = <<>>
    OBVIOUS
  <1>3. Len(fr) = 0 /\ \A i \in 1..Len(fr) : FALSE
    BY <1>2
  <1>4. /\ Shifted(calls, fr, calls')
        /\ UNCHANGED <<State, _handle, ParentTransaction, Transaction>>
    BY <1>2 DEF NativeDone
  <1>5. calls[1].verb \notin Gone /\ calls[1].verb \notin {"AbortIfActive", "Abort"}
    BY DEF NativeDone, Native, Gone
  <1>6. \A i \in 1..Len(calls') : i > Len(fr) => DisposesAt(i)'
    BY <1>1, <1>4, <1>5, DisposesKept
  <1>7. DisposesUnder'
    BY <1>1, <1>3, <1>4, UnderKept DEF Disposes
  <1>8. \A i \in 1..Len(calls') : i > Len(fr)
    BY <1>3
  <1> QED
    BY <1>6, <1>7, <1>8 DEF Disposes

(* The native calls keep the invariant of the stack. *)
LEMMA NativeInd ==
    ASSUME IInv, NEW t \in Txns, CommitNative(t) \/ AbortNative(t)
    PROVE  Stack'
  <1>1. PICK U \in Native : NativeStep(U, t)
    BY NativeSteps
  <1>2. NativeDone(t)
    BY <1>1, NativeDoneIs
  <1> QED
    BY <1>2, NativeShape, NativeEnds, NativeAgree, NativeDisposes DEF Stack

-----------------------------------------------------------------------------
(* The stack: calls that end nothing *)

(* The first call, and with it all others, ends nothing. *)
LEMMA QuietHead ==
    ASSUME IInv, NEW V, NEW x, Executing(V, x), V \notin Ending
    PROVE  /\ NoneEnding(calls) /\ calls # <<>> /\ 1 \in 1..Len(calls)
           /\ calls[1].verb = V /\ calls[1].obj = x
  <1>1. TypeOK /\ Shape
    BY DEF IInv, Stack
  <1>2. Len(calls) \in Nat /\ Len(calls) > 0 /\ calls # <<>>
        /\ calls[1].verb = V /\ calls[1].obj = x
    BY <1>1, HeadIs
  <1>3. NoneEnding(calls)
    BY <1>1, <1>2, NothingEnds
  <1> QED
    BY <1>2, <1>3

(* New calls that end nothing, above such calls. *)
LEMMA NoneEndingNext ==
    ASSUME NEW w, NEW fr, NEW v, Shifted(w, fr, v), NoneEnding(w), NoneEnding(fr)
    PROVE  NoneEnding(v)
  <1> SUFFICES ASSUME NEW i \in 1..Len(v)
               PROVE  v[i].verb \notin Ending
    BY DEF NoneEnding
  <1>1. Origin(w, fr, v, i)
    BY Origins
  <1>2. CASE i \in 1..Len(fr) /\ v[i] = fr[i]
    BY <1>2 DEF NoneEnding
  <1>3. CASE i - Len(fr) + 1 \in 2..Len(w) /\ v[i] = w[i - Len(fr) + 1]
    <2>1. i - Len(fr) + 1 \in 1..Len(w)
      BY <1>3 DEF Shifted
    <2> QED
      BY <1>3, <2>1 DEF NoneEnding
  <1> QED
    BY <1>1, <1>2, <1>3 DEF Origin

(* No native end is pending then. *)
LEMMA NoneEndingNative ==
    ASSUME NEW w, NoneEnding(w), NEW x
    PROVE  ~Pending(w, Native, x)
  BY DEF NoneEnding, Pending, Native, Ending

(* Where nothing ends, nothing can be said of what ends, and every object  *)
(* tells the truth.                                                        *)
LEMMA QuietEnds ==
    ASSUME IInv, NoneEnding(calls), NoneEnding(calls'),
           UNCHANGED <<State, mdb_txn>>,
           \A u \in Txns : _handle'[u] => _handle[u]
    PROVE  Apart' /\ Ends' /\ Agree'
  <1>1. Agree
    BY DEF IInv, Stack
  <1>2. \A i \in 1..Len(calls') : calls'[i].verb \notin Ending
    BY DEF NoneEnding
  <1>3. Apart'
    BY <1>2, ApartAlone
  <1>4. Ends'
    BY <1>2 DEF Ends, Ending, Begun, Native
  <1>5. \A u : ~Pending(calls, Native, u) /\ ~Pending(calls', Native, u)
    BY NoneEndingNative
  <1>6. Agree'
    BY <1>1, <1>5 DEF Agree
  <1> QED
    BY <1>3, <1>4, <1>6

(* Subscriptions that a step does not take away. *)
LEMMA SubscribedKept ==
    ASSUME IInv, UNCHANGED <<ParentTransaction, Transaction>>,
           \A u \in Txns : _handle'[u] /\ ~Pending(calls', {"ZeroHandle"}, u) =>
              /\ _handle[u] /\ ~Pending(calls, {"ZeroHandle"}, u)
              /\ \A s \in Txns \cup {Env} : In(u, Disposing[s]) => In(u, Disposing'[s])
              /\ \A s \in Txns : In(u, StateChanging[s]) => In(u, StateChanging'[s]),
           \A c \in Cursors : _handle'[c] =>
              /\ _handle[c]
              /\ \A s \in Txns : In(c, Disposing[s]) => In(c, Disposing'[s])
    PROVE  Subscribed'
  <1>1. HeldCursors /\ Subscribed
    BY DEF IInv, Objs, Stack
  <1>2. ASSUME NEW t \in Txns, _handle'[t], ~Pending(calls', {"ZeroHandle"}, t)
        PROVE  /\ In(t, Disposing'[Env])
               /\ ParentTransaction[t] \in Txns =>
                     /\ In(t, Disposing'[ParentTransaction[t]])
                     /\ In(t, StateChanging'[ParentTransaction[t]])
    <2>1. /\ _handle[t] /\ ~Pending(calls, {"ZeroHandle"}, t)
          /\ \A s \in Txns \cup {Env} : In(t, Disposing[s]) => In(t, Disposing'[s])
          /\ \A s \in Txns : In(t, StateChanging[s]) => In(t, StateChanging'[s])
      BY <1>2
    <2> QED
      BY <1>1, <2>1 DEF Subscribed
  <1>3. ASSUME NEW c \in Cursors, _handle'[c]
        PROVE  In(c, Disposing'[Transaction[c]])
    <2>1. /\ _handle[c]
          /\ \A s \in Txns : In(c, Disposing[s]) => In(c, Disposing'[s])
      BY <1>3
    <2>2. Transaction[c] \in Txns /\ In(c, Disposing[Transaction[c]])
      BY <1>1, <2>1 DEF HeldCursors, Subscribed
    <2> QED
      BY <2>1, <2>2
  <1> QED
    BY <1>2, <1>3 DEF Subscribed

(* A call that only returns, of what has no handle any more or is not      *)
(* active any more.                                                        *)
LEMMA QuietReturn ==
    ASSUME IInv, NoneEnding(calls), calls # <<>>, Return,
           UNCHANGED <<State, ParentTransaction, Transaction, mdb_txn>>,
           \A x \in Txns \cup Cursors : _handle'[x] =>
              _handle[x] /\ ~(calls[1].verb \in Gone /\ calls[1].obj = x),
           \A x \in Txns : State[x] \in {"Active", "Reseted"} =>
              ~(calls[1].verb \in {"AbortIfActive", "Abort"} /\ calls[1].obj = x)
    PROVE  /\ Shifted(calls, <<>>, calls')
           /\ Shape' /\ Apart' /\ Ends' /\ Agree' /\ Disposes'
  <1>1. TypeOK /\ Shape /\ Disposes
    BY DEF IInv, Stack
  <1>2. PICK fr : fr = <<>>
    OBVIOUS
  <1>3. Len(fr) = 0 /\ \A i \in 1..Len(fr) : FALSE
    BY <1>2
  <1>4. Shifted(calls, fr, calls')
    BY <1>1, <1>2, Returns
  <1>5. NewShape(fr, Len(calls), _handle')
    BY <1>3 DEF NewShape
  <1>6. Shape'
    <2>1. NoneEnding(calls) \/ AllEnding(fr)
      OBVIOUS
    <2>2. NoneEnding(calls) \/ _handle' = _handle
      OBVIOUS
    <2> QED
      BY <1>1, <1>4, <1>5, <2>1, <2>2, ShapeStep
  <1>7. NoneEnding(fr)
    BY <1>3 DEF NoneEnding
  <1>8. NoneEnding(calls')
    BY <1>4, <1>7, NoneEndingNext
  <1>9. Apart' /\ Ends' /\ Agree'
    BY <1>8, QuietEnds
  <1>10. \A i \in 1..Len(calls') : i > Len(fr) => DisposesAt(i)'
    BY <1>1, <1>4, DisposesKept
  <1>11. DisposesUnder'
    BY <1>1, <1>3, <1>4, UnderKept DEF Disposes
  <1>12. \A i \in 1..Len(calls') : i > Len(fr)
    BY <1>3
  <1>13. Disposes'
    BY <1>10, <1>11, <1>12 DEF Disposes
  <1> QED
    BY <1>2, <1>4, <1>6, <1>9, <1>13

(* What is given up is kept in mind no longer than it has its handle. *)
LEMMA ReturnPending ==
    ASSUME Shifted(calls, <<>>, calls'), NEW u,
           calls[1].verb = "ZeroHandle" => calls[1].obj # u,
           ~Pending(calls', {"ZeroHandle"}, u)
    PROVE  ~Pending(calls, {"ZeroHandle"}, u)
  <1>1. PICK fr : fr = <<>>
    OBVIOUS
  <1>2. Shifted(calls, fr, calls')
    BY <1>1
  <1> QED
    BY <1>2, PendingNew

(* Calls about what needs no call. *)
LEMMA NothingToDo ==
    ASSUME IInv, NEW V \in {"Dispose", "AbortIfActive", "mdb_env_close"},
           NEW x \in Objects, Executing(V, x), Return, UNCHANGED <<netVars, nativeVars>>,
           V = "Dispose" => ~_handle[x],
           V = "AbortIfActive" => x \in Txns /\ State[x] \notin {"Active", "Reseted"}
    PROVE  Stack'
  <1>1. /\ NoneEnding(calls) /\ calls # <<>> /\ 1 \in 1..Len(calls)
        /\ calls[1].verb = V /\ calls[1].obj = x
    <2>1. V \notin Ending
      BY DEF Ending
    <2> QED
      BY <2>1, QuietHead
  <1>2. UNCHANGED <<State, _handle, ParentTransaction, Transaction, Disposing,
                    StateChanging, mdb_txn>>
    BY DEF netVars, nativeVars
  <1>3. \A y \in Txns \cup Cursors : _handle'[y] =>
           _handle[y] /\ ~(calls[1].verb \in Gone /\ calls[1].obj = y)
    BY <1>1, <1>2 DEF Gone
  <1>4. \A y \in Txns : State[y] \in {"Active", "Reseted"} =>
           ~(calls[1].verb \in {"AbortIfActive", "Abort"} /\ calls[1].obj = y)
    BY <1>1
  <1>5. /\ Shifted(calls, <<>>, calls')
        /\ Shape' /\ Apart' /\ Ends' /\ Agree' /\ Disposes'
    BY <1>1, <1>2, <1>3, <1>4, QuietReturn
  <1>6. \A u \in Txns : ~Pending(calls', {"ZeroHandle"}, u) => ~Pending(calls, {"ZeroHandle"}, u)
    BY <1>1, <1>5, ReturnPending
  <1>7. Subscribed'
    BY <1>2, <1>6, SubscribedKept
  <1> QED
    BY <1>5, <1>7 DEF Stack

(* A handle is given up: of something that nothing hangs from. *)
LEMMA ZeroHandleInd ==
    ASSUME IInv, NEW x \in Objects, ZeroHandle(x)
    PROVE  Stack'
  <1>1. /\ NoneEnding(calls) /\ calls # <<>> /\ 1 \in 1..Len(calls)
        /\ calls[1].verb = "ZeroHandle" /\ calls[1].obj = x
    <2>1. "ZeroHandle" \notin Ending
      BY DEF Ending
    <2> QED
      BY <2>1, QuietHead DEF ZeroHandle
  <1>2. /\ UNCHANGED <<State, ParentTransaction, Transaction, Disposing,
                       StateChanging, mdb_txn>>
        /\ Return
    BY DEF ZeroHandle, nativeVars
  <1>3. \A y \in Txns \cup Cursors : _handle'[y] => _handle[y] /\ x # y
    <2>1. _handle \in [Txns \cup Cursors \cup {Env} -> BOOLEAN]
      BY DEF IInv, TypeOK
    <2>2. _handle' = [_handle EXCEPT ![x] = FALSE]
      BY DEF ZeroHandle
    <2> QED
      BY <2>1, <2>2
  <1>4. \A y \in Txns \cup Cursors : _handle'[y] =>
           _handle[y] /\ ~(calls[1].verb \in Gone /\ calls[1].obj = y)
    BY <1>1, <1>3
  <1>5. \A y \in Txns : State[y] \in {"Active", "Reseted"} =>
           ~(calls[1].verb \in {"AbortIfActive", "Abort"} /\ calls[1].obj = y)
    BY <1>1
  <1>6. /\ Shifted(calls, <<>>, calls')
        /\ Shape' /\ Apart' /\ Ends' /\ Agree' /\ Disposes'
    BY <1>1, <1>2, <1>4, <1>5, QuietReturn
  <1>7. \A u \in Txns : _handle'[u] /\ ~Pending(calls', {"ZeroHandle"}, u) =>
           _handle[u] /\ ~Pending(calls, {"ZeroHandle"}, u)
    BY <1>1, <1>3, <1>6, ReturnPending
  <1>8. Subscribed'
    BY <1>2, <1>3, <1>7, SubscribedKept
  <1> QED
    BY <1>6, <1>8 DEF Stack

(* A cursor is closed once; nothing else leaves its transaction. *)
LEMMA DisposeCursorInd ==
    ASSUME IInv, NEW c \in Cursors, DisposeCursor(c)
    PROVE  Stack' /\ ~misuse'
  <1>1. /\ NoneEnding(calls) /\ calls # <<>> /\ 1 \in 1..Len(calls)
        /\ calls[1].verb = "Dispose" /\ calls[1].obj = c
    <2>1. "Dispose" \notin Ending
      BY DEF Ending
    <2> QED
      BY <2>1, QuietHead DEF DisposeCursor
  <1>2. /\ UNCHANGED <<State, ParentTransaction, Transaction, StateChanging, mdb_txn>>
        /\ Return
    BY DEF DisposeCursor, CloseCursor
  <1>3. \A y \in Txns \cup Cursors : _handle'[y] => _handle[y] /\ c # y
    <2>1. _handle \in [Txns \cup Cursors \cup {Env} -> BOOLEAN]
      BY DEF IInv, TypeOK
    <2>2. _handle' = [_handle EXCEPT ![c] = FALSE]
      BY DEF DisposeCursor
    <2> QED
      BY <2>1, <2>2
  <1>4. \A y \in Txns \cup Cursors : _handle'[y] =>
           _handle[y] /\ ~(calls[1].verb \in Gone /\ calls[1].obj = y)
    BY <1>1, <1>3
  <1>5. \A y \in Txns : State[y] \in {"Active", "Reseted"} =>
           ~(calls[1].verb \in {"AbortIfActive", "Abort"} /\ calls[1].obj = y)
    BY <1>1
  <1>6. /\ Shifted(calls, <<>>, calls')
        /\ Shape' /\ Apart' /\ Ends' /\ Agree' /\ Disposes'
    BY <1>1, <1>2, <1>4, <1>5, QuietReturn
  <1>7. \A u \in Txns : _handle'[u] /\ ~Pending(calls', {"ZeroHandle"}, u) =>
           _handle[u] /\ ~Pending(calls, {"ZeroHandle"}, u)
    BY <1>1, <1>3, <1>6, ReturnPending
  <1>8. ASSUME NEW s \in Txns \cup {Env}, NEW y, y # c, In(y, Disposing[s])
        PROVE  In(y, Disposing'[s])
    <2>1. Disposing \in [Txns \cup {Env} -> Seq(Txns \cup Cursors)]
      BY DEF IInv, TypeOK
    <2>2. Left(Disposing[s], c, Unsubscribed(Disposing[s], c))
      BY <2>1, UnsubscribedIs
    <2>3. Disposing'[s] = Disposing[s] \/ Disposing'[s] = Unsubscribed(Disposing[s], c)
      BY <2>1 DEF DisposeCursor
    <2> QED
      BY <1>8, <2>2, <2>3 DEF Left
  <1>9. Subscribed'
    <2>1. \A u \in Txns : u # c
      BY ObjectsApart
    <2> QED
      BY <1>2, <1>3, <1>7, <1>8, <2>1, SubscribedKept
  <1>10. ~misuse'
    <2>1. _handle[c] /\ mdb_cursor[c] = "open"
      BY DEF DisposeCursor, IInv, Objs, HeldCursors
    <2> QED
      BY <2>1 DEF DisposeCursor, CloseCursor
  <1> QED
    BY <1>6, <1>9, <1>10 DEF Stack

-----------------------------------------------------------------------------
(* The stack: Dispose of a transaction or of the environment *)

(* The new calls: the subscribers are disposed of, then x closes. *)
DisposeFrames(fr, xs, U, x) ==
    \A i \in 1..Len(fr) :
       \/ /\ i < Len(fr) - 1
          /\ fr[i].verb = "Dispose" /\ In(fr[i].obj, xs) /\ fr[i].obj \in Txns \cup Cursors
       \/ i = Len(fr) - 1 /\ fr[i].verb = U /\ fr[i].obj = x
       \/ i = Len(fr) /\ fr[i].verb = "ZeroHandle" /\ fr[i].obj = x

(* Every subscriber is disposed of. *)
DisposesAll(fr, xs) ==
    \A y : In(y, xs) =>
       \E i \in 1..Len(fr) : i < Len(fr) - 1 /\ fr[i].verb = "Dispose" /\ fr[i].obj = y

(* That is what OnDisposing sets off. *)
LEMMA DisposeFramesAre ==
    ASSUME NEW fr, NEW xs \in Seq(Txns \cup Cursors), NEW U, NEW x,
           TwoMore(fr, "Dispose", xs, U, x, "ZeroHandle", x)
    PROVE  /\ DisposeFrames(fr, xs, U, x) /\ DisposesAll(fr, xs)
           /\ Len(fr) \in Nat /\ Len(fr) > 1
  <1>1. PICK n \in Nat : n = Len(xs)
    BY DEF TwoMore
  <1>2. /\ Len(fr) = n + 2 /\ Calls(fr, "Dispose", xs)
        /\ fr[n + 1] = [verb |-> U, obj |-> x]
        /\ fr[n + 2] = [verb |-> "ZeroHandle", obj |-> x]
    BY <1>1 DEF TwoMore
  <1>3. \A i \in 1..n : fr[i] = [verb |-> "Dispose", obj |-> xs[i]]
    BY <1>1, <1>2 DEF Calls
  <1>4. ASSUME NEW i \in 1..n
        PROVE  /\ fr[i].verb = "Dispose" /\ fr[i].obj = xs[i]
               /\ In(xs[i], xs) /\ xs[i] \in Txns \cup Cursors
    <2>1. In(xs[i], xs)
      BY <1>1 DEF In
    <2>2. xs[i] \in Txns \cup Cursors
      BY <1>1
    <2>3. fr[i] = [verb |-> "Dispose", obj |-> xs[i]]
      BY <1>3
    <2>4. fr[i].verb = "Dispose" /\ fr[i].obj = xs[i]
      BY <2>3
    <2> QED
      BY <2>1, <2>2, <2>4
  <1>5. /\ fr[n + 1].verb = U /\ fr[n + 1].obj = x
        /\ fr[n + 2].verb = "ZeroHandle" /\ fr[n + 2].obj = x
    BY <1>2
  <1>6. DisposeFrames(fr, xs, U, x)
    <2> SUFFICES ASSUME NEW i \in 1..n + 2
        PROVE
           \/ /\ i < n + 1
              /\ fr[i].verb = "Dispose" /\ In(fr[i].obj, xs) /\ fr[i].obj \in Txns \cup Cursors
           \/ i = n + 1 /\ fr[i].verb = U /\ fr[i].obj = x
           \/ i = n + 2 /\ fr[i].verb = "ZeroHandle" /\ fr[i].obj = x
      BY <1>1, <1>2 DEF DisposeFrames
    <2>1. i \in 1..n \/ i = n + 1 \/ i = n + 2
      BY <1>1
    <2>2. CASE i \in 1..n
      BY <1>1, <1>4, <2>2
    <2> QED
      BY <1>5, <2>1, <2>2
  <1>7. DisposesAll(fr, xs)
    <2> SUFFICES ASSUME NEW y, In(y, xs)
                 PROVE  \E i \in 1..n + 2 :
                           i < n + 1 /\ fr[i].verb = "Dispose" /\ fr[i].obj = y
      BY <1>1, <1>2 DEF DisposesAll
    <2>1. PICK i \in 1..n : xs[i] = y
      BY <1>1 DEF In
    <2>2. i \in 1..n + 2 /\ i < n + 1
      BY <1>1, <2>1
    <2> QED
      BY <1>4, <2>1, <2>2
  <1> QED
    BY <1>1, <1>2, <1>6, <1>7

(* What is disposed of is under what waits for its handle to be given up,  *)
(* so nothing that hangs from it is waiting.                               *)
LEMMA DisposeHead ==
    ASSUME IInv, NEW t \in Txns, Executing("Dispose", t)
    PROVE  /\ \A w \in Txns : ParentTransaction[w] = t => ~Pending(calls, {"ZeroHandle"}, w)
           /\ \A k \in 2..Len(calls) :
                 calls[k].verb = "ZeroHandle" /\ calls[k].obj \in Txns =>
                    t \in Sub(ParentTransaction, calls[k].obj) /\ t # calls[k].obj
  <1>1. TypeOK /\ Trees /\ DisposesUnder
    BY DEF IInv, Objs, Stack, Disposes
  <1>2. Len(calls) \in Nat /\ Len(calls) > 0 /\ calls[1].verb = "Dispose" /\ calls[1].obj = t
    BY <1>1, HeadIs
  <1>3. ASSUME NEW k \in 2..Len(calls), calls[k].verb = "ZeroHandle", calls[k].obj \in Txns
        PROVE  t \in Sub(ParentTransaction, calls[k].obj) /\ t # calls[k].obj
    <2>1. k \in 1..Len(calls) /\ 1 \in 1..k - 1
      BY <1>2
    <2>2. Under(ParentTransaction, Transaction, calls[1].obj, calls[k].obj)
      BY <1>1, <1>2, <1>3, <2>1 DEF DisposesUnder
    <2> QED
      BY <1>2, <2>2, ObjectsApart DEF Under
  <1>4. ASSUME NEW w \in Txns, ParentTransaction[w] = t, Pending(calls, {"ZeroHandle"}, w)
        PROVE  FALSE
    <2>1. PICK k \in 1..Len(calls) : calls[k].verb = "ZeroHandle" /\ calls[k].obj = w
      BY <1>4 DEF Pending
    <2>2. k \in 2..Len(calls)
      BY <1>2, <2>1
    <2>3. t \in Sub(ParentTransaction, w)
      BY <1>3, <2>1, <2>2
    <2> QED
      BY <1>1, <1>4, <2>3 DEF Trees
  <1> QED
    BY <1>3, <1>4

(* What a Dispose step does to the stack. *)
DisposeStep(x, U, fr) ==
    /\ Shifted(calls, fr, calls')
    /\ DisposeFrames(fr, Disposing[x], U, x) /\ DisposesAll(fr, Disposing[x])
    /\ Len(fr) > 1
    /\ NoneEnding(calls) /\ 1 \in 1..Len(calls)
    /\ calls[1].verb = "Dispose" /\ calls[1].obj = x
    /\ UNCHANGED <<State, _handle, ParentTransaction, IsReadOnly, Transaction, nativeVars>>

(* Both Dispose calls do that. *)
LEMMA DisposeStepIs ==
    ASSUME IInv, NEW x \in Txns \cup {Env}, NEW U \in Verbs, Executing("Dispose", x),
           Expand(Each("Dispose", Disposing[x]) \o Then(U, x) \o Then("ZeroHandle", x)),
           UNCHANGED <<State, _handle, ParentTransaction, IsReadOnly, Transaction, nativeVars>>
    PROVE  \E fr : DisposeStep(x, U, fr)
  <1>1. TypeOK
    BY DEF IInv
  <1>2. /\ NoneEnding(calls) /\ calls # <<>> /\ 1 \in 1..Len(calls)
        /\ calls[1].verb = "Dispose" /\ calls[1].obj = x
    <2>1. "Dispose" \notin Ending
      BY DEF Ending
    <2> QED
      BY <2>1, QuietHead
  <1>3. PICK fr : /\ Shifted(calls, fr, calls')
                  /\ TwoMore(fr, "Dispose", Disposing[x], U, x, "ZeroHandle", x)
    BY <1>1, <1>2, DisposeCalls
  <1>4. Disposing[x] \in Seq(Txns \cup Cursors)
    BY <1>1 DEF TypeOK
  <1>5. PICK xs : xs = Disposing[x]
    OBVIOUS
  <1>6. DisposeFrames(fr, xs, U, x) /\ DisposesAll(fr, xs) /\ Len(fr) > 1
    BY <1>3, <1>4, <1>5, DisposeFramesAre
  <1>7. DisposeStep(x, U, fr)
    BY <1>2, <1>3, <1>5, <1>6 DEF DisposeStep
  <1> QED
    BY <1>7

(* Nothing ends yet. *)
LEMMA DisposeShape ==
    ASSUME IInv, NEW x \in Txns \cup {Env}, NEW U, NEW fr, DisposeStep(x, U, fr),
           (U = "AbortIfActive" /\ x \in Txns) \/ (U = "mdb_env_close" /\ x = Env)
    PROVE  Shape' /\ Apart' /\ Ends' /\ Agree'
  <1>1. TypeOK /\ Shape
    BY DEF IInv, Stack
  <1>2. /\ Shifted(calls, fr, calls') /\ DisposeFrames(fr, Disposing[x], U, x)
        /\ NoneEnding(calls)
        /\ UNCHANGED <<State, _handle, mdb_txn>>
    BY DEF DisposeStep, nativeVars
  <1>3. \A i \in 1..Len(fr) :
           \/ fr[i].verb = "Dispose" /\ fr[i].obj \in Txns \cup Cursors
           \/ fr[i].verb = U /\ fr[i].obj = x
           \/ fr[i].verb = "ZeroHandle" /\ fr[i].obj = x
    BY <1>2 DEF DisposeFrames
  <1>4. NoneEnding(fr)
    BY <1>3 DEF NoneEnding, Ending
  <1>5. NewShape(fr, Len(calls), _handle')
    <2>1. ASSUME NEW i \in 1..Len(fr)
          PROVE  /\ fr[i].verb \in Ending \cup {"AbortIfActive"} => fr[i].obj \in Txns
                 /\ fr[i].verb = "ZeroHandle" => fr[i].obj \in Txns \cup {Env}
                 /\ fr[i].verb = "mdb_env_close" => fr[i].obj = Env
                 /\ fr[i].verb = "Dispose" => fr[i].obj # Env
                 /\ fr[i].verb # "Commit" /\ fr[i].verb # "mdb_txn_commit"
                 /\ fr[i].verb \notin Ending
      <3>1. fr[i].verb \notin Ending
        BY <1>4 DEF NoneEnding
      <3>2. CASE fr[i].verb = "Dispose" /\ fr[i].obj \in Txns \cup Cursors
        BY <3>1, <3>2, ObjectsApart
      <3>3. CASE fr[i].verb = U /\ fr[i].obj = x
        BY <3>1, <3>3
      <3>4. CASE fr[i].verb = "ZeroHandle" /\ fr[i].obj = x
        BY <3>1, <3>4
      <3> QED
        BY <1>3, <3>2, <3>3, <3>4
    <2> QED
      BY <2>1 DEF NewShape
  <1>6. Shape'
    BY <1>1, <1>2, <1>5, ShapeStep
  <1>7. NoneEnding(calls')
    BY <1>2, <1>4, NoneEndingNext
  <1>8. Apart' /\ Ends' /\ Agree'
    BY <1>2, <1>7, QuietEnds
  <1> QED
    BY <1>6, <1>8

(* The old calls of the stack still come after what they wait for. *)
LEMMA DisposeKeeps ==
    ASSUME IInv, NEW x \in Txns \cup {Env}, NEW U, NEW fr, DisposeStep(x, U, fr)
    PROVE  \A i \in 1..Len(calls') : i > Len(fr) => DisposesAt(i)'
  <1>1. TypeOK /\ Disposes
    BY DEF IInv, Stack
  <1>2. /\ Shifted(calls, fr, calls')
        /\ UNCHANGED <<State, _handle, ParentTransaction, Transaction>>
        /\ calls[1].verb = "Dispose" /\ calls[1].obj = x
    BY DEF DisposeStep
  <1>3. Pending(fr, Gone, x)
    <2>1. Len(fr) \in 1..Len(fr) /\ fr[Len(fr)].verb = "ZeroHandle" /\ fr[Len(fr)].obj = x
      BY DEF DisposeStep, DisposeFrames, Shifted
    <2> QED
      BY <2>1 DEF Pending, Gone
  <1> QED
    BY <1>1, <1>2, <1>3, DisposesKept

(* Who is subscribed is disposed of before x closes. *)
LEMMA DisposeBefore ==
    ASSUME NEW x, NEW U, NEW fr, DisposeStep(x, U, fr), NEW y, In(y, Disposing[x]),
           NEW i \in 1..Len(fr), i >= Len(fr) - 1
    PROVE  Before(calls', i, Gone, y)
  <1>1. PICK m \in Nat : m = Len(fr)
    BY DEF DisposeStep, Shifted
  <1>2. PICK j \in 1..m : j < m - 1 /\ fr[j].verb = "Dispose" /\ fr[j].obj = y
    BY <1>1 DEF DisposeStep, DisposesAll
  <1>3. j \in 1..i - 1 /\ calls'[j] = fr[j]
    BY <1>1, <1>2 DEF DisposeStep, Shifted
  <1> QED
    BY <1>2, <1>3 DEF Before, Gone

(* The subscribers of t are under whatever t is under. *)
LEMMA DisposeTxnUnder ==
    ASSUME IInv, NEW t \in Txns, NEW fr, DisposeStep(t, "AbortIfActive", fr),
           Executing("Dispose", t)
    PROVE  DisposesUnder'
  <1> DEFINE P == ParentTransaction
  <1>1. Trees /\ Subscribers /\ DisposesUnder
    BY DEF IInv, Objs, Stack, Disposes
  <1>2. /\ Shifted(calls, fr, calls') /\ UNCHANGED <<ParentTransaction, Transaction>>
        /\ DisposeFrames(fr, Disposing[t], "AbortIfActive", t)
    BY DEF DisposeStep
  <1>3. PICK l \in Nat, m \in Nat : l = Len(calls) /\ m = Len(fr)
    BY <1>2 DEF Shifted
  <1>4. t \in Sub(P, t)
    BY SubSelf
  (* What is disposed of is under t and under all that t is under. *)
  <1>5. ASSUME NEW y \in Txns \cup Cursors, In(y, Disposing[t]), NEW z \in Txns,
               t \in Sub(P, z)
        PROVE  Under(P, Transaction, y, z)
    <2>1. CASE y \in Cursors
      <3>1. Transaction[y] = t
        BY <1>1, <1>5, <2>1 DEF Subscribers
      <3> QED
        BY <1>5, <2>1, <3>1 DEF Under
    <2>2. CASE y \in Txns
      <3>1. P[y] = t
        BY <1>1, <1>5, <2>2 DEF Subscribers
      <3>2. y \in Sub(P, z)
        BY <1>5, <2>2, <3>1, SubClosed
      <3>3. t \notin Sub(P, y)
        BY <1>1, <2>2, <3>1 DEF Trees
      <3> QED
        BY <1>5, <3>2, <3>3 DEF Under
    <2> QED
      BY <2>1, <2>2
  <1>6. \A k \in 2..Len(calls) :
           calls[k].verb = "ZeroHandle" /\ calls[k].obj \in Txns => t \in Sub(P, calls[k].obj)
    BY DisposeHead
  <1> SUFFICES ASSUME NEW k \in 1..Len(calls'), NEW i \in 1..k - 1,
                      calls'[k].verb = "ZeroHandle", calls'[k].obj \in Txns,
                      calls'[i].verb = "Dispose"
               PROVE  Under(ParentTransaction, Transaction, calls'[i].obj, calls'[k].obj)
    BY <1>2 DEF DisposesUnder
  <1>7. i \in 1..Len(calls')
    BY <1>2 DEF Shifted
  <1>8. Origin(calls, fr, calls', i) /\ Origin(calls, fr, calls', k)
    BY <1>2, <1>7, Origins
  <1>9. CASE i \in 1..m /\ calls'[i] = fr[i]
    <2>1. calls'[i].obj \in Txns \cup Cursors /\ In(calls'[i].obj, Disposing[t])
      BY <1>2, <1>3, <1>9 DEF DisposeFrames
    <2>2. CASE k \in 1..m /\ calls'[k] = fr[k]
      <3>1. calls'[k].obj = t
        BY <1>2, <1>3, <2>2 DEF DisposeFrames
      <3> QED
        BY <1>4, <1>5, <2>1, <3>1
    <2>3. CASE k - m + 1 \in 2..l /\ calls'[k] = calls[k - m + 1]
      <3>1. t \in Sub(P, calls'[k].obj)
        BY <1>3, <1>6, <2>3
      <3> QED
        BY <1>5, <2>1, <3>1
    <2> QED
      BY <1>3, <1>8, <2>2, <2>3 DEF Origin
  <1>10. CASE i > m /\ i - m + 1 \in 2..l /\ calls'[i] = calls[i - m + 1]
    <2>1. k > m
      BY <1>3, <1>10
    <2>2. k - m + 1 \in 2..l /\ calls'[k] = calls[k - m + 1]
      BY <1>3, <1>8, <2>1 DEF Origin
    <2>3. PICK a \in 2..l, b \in 2..l : a = i - m + 1 /\ b = k - m + 1
      BY <1>10, <2>2
    <2>4. b \in 1..l /\ a \in 1..b - 1
      BY <2>3
    <2>5. Under(ParentTransaction, Transaction, calls[a].obj, calls[b].obj)
      BY <1>1, <1>3, <1>10, <2>2, <2>3, <2>4 DEF DisposesUnder
    <2> QED
      BY <1>10, <2>2, <2>3, <2>5
  <1> QED
    BY <1>3, <1>8, <1>9, <1>10 DEF Origin

(* What has a handle and hangs from t is subscribed, so it goes first. *)
LEMMA DisposeTxnFirst ==
    ASSUME IInv, NEW t \in Txns, NEW fr, DisposeStep(t, "AbortIfActive", fr),
           Executing("Dispose", t), NEW i \in 1..Len(fr)
    PROVE  DisposesAt(i)'
  <1>1. Subscribed /\ HeldCursors
    BY DEF IInv, Objs, Stack
  <1>2. /\ Shifted(calls, fr, calls')
        /\ UNCHANGED <<State, _handle, ParentTransaction, Transaction>>
        /\ DisposeFrames(fr, Disposing[t], "AbortIfActive", t) /\ Len(fr) > 1
    BY DEF DisposeStep
  <1>3. PICK m \in Nat : m = Len(fr)
    BY <1>2 DEF Shifted
  <1>4. \A j \in 1..m : calls'[j] = fr[j]
    BY <1>2, <1>3 DEF Shifted
  <1>5. CASE i < m - 1 /\ fr[i].verb = "Dispose"
    BY <1>3, <1>4, <1>5 DEF DisposesAt
  <1>6. CASE i >= m - 1
    <2>1. calls'[i].obj = t /\ calls'[i].verb \in {"AbortIfActive", "ZeroHandle"}
      BY <1>2, <1>3, <1>4, <1>6 DEF DisposeFrames
    <2>2. ASSUME NEW w \in Txns, _handle[w], ParentTransaction[w] = t
          PROVE  Before(calls', i, Gone, w)
      <3>1. ~Pending(calls, {"ZeroHandle"}, w)
        BY <2>2, DisposeHead
      <3>2. In(w, Disposing[t])
        BY <1>1, <2>2, <3>1 DEF Subscribed
      <3> QED
        BY <1>3, <1>6, <3>2, DisposeBefore
    <2>3. ASSUME NEW c \in Cursors, _handle[c], Transaction[c] = t
          PROVE  Before(calls', i, Gone, c)
      <3>1. In(c, Disposing[t])
        BY <1>1, <2>3 DEF Subscribed
      <3> QED
        BY <1>3, <1>6, <3>1, DisposeBefore
    <2>4. ASSUME calls'[i].verb = "ZeroHandle"
          PROVE  Before(calls', i, {"AbortIfActive", "Abort"}, t)
      <3>1. i = m
        BY <1>2, <1>3, <1>4, <1>6, <2>4 DEF DisposeFrames
      <3>2. m - 1 \in 1..m /\ m - 1 \in 1..i - 1
        BY <1>2, <1>3, <3>1
      <3>3. calls'[m - 1].verb = "AbortIfActive" /\ calls'[m - 1].obj = t
        BY <1>2, <1>3, <1>4, <3>2 DEF DisposeFrames
      <3> QED
        BY <3>2, <3>3 DEF Before
    <2> QED
      BY <1>2, <2>1, <2>2, <2>3, <2>4 DEF DisposesAt
  <1> QED
    BY <1>2, <1>3, <1>5, <1>6 DEF DisposeFrames

(* Dispose of a transaction keeps the invariant of the stack. *)
LEMMA DisposeTxnInd ==
    ASSUME IInv, NEW t \in Txns, DisposeTxn(t)
    PROVE  Stack'
  <1>1. TypeOK
    BY DEF IInv
  <1>2. Executing("Dispose", t) /\ "AbortIfActive" \in Verbs
    BY DEF DisposeTxn, Verbs
  <1>3. PICK fr : DisposeStep(t, "AbortIfActive", fr)
    BY <1>2, DisposeStepIs DEF DisposeTxn
  <1>4. Shape' /\ Apart' /\ Ends' /\ Agree'
    BY <1>3, DisposeShape
  <1>5. Disposes'
    <2>1. \A i \in 1..Len(calls') : i > Len(fr) => DisposesAt(i)'
      BY <1>3, DisposeKeeps
    <2>2. \A i \in 1..Len(fr) : DisposesAt(i)'
      BY <1>2, <1>3, DisposeTxnFirst
    <2>3. \A i \in 1..Len(calls') : i > Len(fr) \/ i \in 1..Len(fr)
      BY <1>3 DEF DisposeStep, Shifted
    <2>4. DisposesUnder'
      BY <1>2, <1>3, DisposeTxnUnder
    <2> QED
      BY <2>1, <2>2, <2>3, <2>4 DEF Disposes
  <1>6. /\ Shifted(calls, fr, calls') /\ calls[1].verb = "Dispose"
        /\ UNCHANGED <<_handle, ParentTransaction, Transaction>>
        /\ DisposeFrames(fr, Disposing[t], "AbortIfActive", t) /\ Len(fr) > 1
    BY <1>3 DEF DisposeStep
  <1>7. \A u : Pending(calls, {"ZeroHandle"}, u) => Pending(calls', {"ZeroHandle"}, u)
    BY <1>6, PendingNew
  <1>8. Pending(calls', {"ZeroHandle"}, t)
    <2>1. Len(fr) \in 1..Len(fr) /\ fr[Len(fr)].verb = "ZeroHandle" /\ fr[Len(fr)].obj = t
      BY <1>6 DEF DisposeFrames, Shifted
    <2>2. Pending(fr, {"ZeroHandle"}, t)
      BY <2>1 DEF Pending
    <2> QED
      BY <1>6, <2>2, PendingNew
  <1>9. ASSUME NEW s \in Txns \cup {Env}, NEW y, y # t, In(y, Disposing[s])
        PROVE  In(y, Disposing'[s])
    <2>1. Disposing[s] \in Seq(Txns \cup Cursors)
      BY <1>1 DEF TypeOK
    <2>2. Left(Disposing[s], t, Unsubscribed(Disposing[s], t))
      BY <2>1, UnsubscribedIs
    <2>3. Disposing'[s] = Disposing[s] \/ Disposing'[s] = Unsubscribed(Disposing[s], t)
      BY DEF DisposeTxn, Unsubscribe
    <2> QED
      BY <1>9, <2>2, <2>3 DEF Left
  <1>10. ASSUME NEW s \in Txns, NEW y, y # t, In(y, StateChanging[s])
         PROVE  In(y, StateChanging'[s])
    <2>1. StateChanging[s] \in Seq(Txns)
      BY <1>1 DEF TypeOK
    <2>2. Left(StateChanging[s], t, Unsubscribed(StateChanging[s], t))
      BY <2>1, UnsubscribedIs
    <2>3. \/ StateChanging'[s] = StateChanging[s]
          \/ StateChanging'[s] = Unsubscribed(StateChanging[s], t)
      BY DEF DisposeTxn, Unsubscribe
    <2> QED
      BY <1>10, <2>2, <2>3 DEF Left
  <1>11. Subscribed'
    <2>1. \A c \in Cursors : c # t
      BY ObjectsApart
    <2> QED
      BY <1>6, <1>7, <1>8, <1>9, <1>10, <2>1, SubscribedKept
  <1> QED
    BY <1>4, <1>5, <1>11 DEF Stack

(* Dispose of the environment is the only call, and reaches every          *)
(* transaction.                                                            *)
LEMMA DisposeEnvInd ==
    ASSUME IInv, DisposeEnv
    PROVE  Stack'
  <1>1. TypeOK /\ Shape /\ Subscribed
    BY DEF IInv, Stack
  <1>2. Executing("Dispose", Env) /\ "mdb_env_close" \in Verbs
        /\ UNCHANGED <<netVars, nativeVars>>
    BY DEF DisposeEnv, Verbs
  <1>3. UNCHANGED <<State, _handle, ParentTransaction, IsReadOnly, Transaction, nativeVars>>
    BY <1>2 DEF netVars
  <1>4. PICK fr : DisposeStep(Env, "mdb_env_close", fr)
    BY <1>2, <1>3, DisposeStepIs DEF DisposeEnv
  <1>5. Shape' /\ Apart' /\ Ends' /\ Agree'
    BY <1>4, DisposeShape
  <1>6. /\ Shifted(calls, fr, calls') /\ 1 \in 1..Len(calls)
        /\ calls[1].verb = "Dispose" /\ calls[1].obj = Env
        /\ DisposeFrames(fr, Disposing[Env], "mdb_env_close", Env) /\ Len(fr) > 1
    BY <1>4 DEF DisposeStep
  <1>7. PICK m \in Nat : m = Len(fr)
    BY <1>6 DEF Shifted
  <1>8. Len(calls) = 1
    BY <1>1, <1>6 DEF Shape
  <1>9. Len(calls') = m /\ \A i \in 1..m : calls'[i] = fr[i]
    BY <1>6, <1>7, <1>8 DEF Shifted
  <1>10. \A i \in 1..m :
            \/ i < m - 1 /\ fr[i].verb = "Dispose"
            \/ i = m - 1 /\ fr[i].verb = "mdb_env_close" /\ fr[i].obj = Env
            \/ i = m /\ fr[i].verb = "ZeroHandle" /\ fr[i].obj = Env
    BY <1>6, <1>7 DEF DisposeFrames
  <1>11. \A x : ~Pending(calls, {"ZeroHandle"}, x)
    BY <1>6, <1>8 DEF Pending
  <1>12. ASSUME NEW i \in 1..m, i >= m - 1, NEW x \in Txns, _handle[x]
         PROVE  Before(calls', i, Gone, x)
    <2>1. In(x, Disposing[Env])
      BY <1>1, <1>11, <1>12 DEF Subscribed
    <2> QED
      BY <1>4, <1>7, <1>12, <2>1, DisposeBefore
  <1>13. ASSUME NEW i \in 1..m
         PROVE  DisposesAt(i)'
    <2>1. CASE i < m - 1 /\ calls'[i].verb = "Dispose"
      BY <2>1 DEF DisposesAt
    <2>2. CASE i = m - 1 /\ calls'[i].verb = "mdb_env_close" /\ calls'[i].obj = Env
      <3>1. \A x \in Txns : _handle'[x] => Before(calls', i, Gone, x)
        BY <1>3, <1>7, <1>12, <2>2
      <3> QED
        BY <2>2, <3>1 DEF DisposesAt
    <2>3. CASE i = m /\ calls'[i].verb = "ZeroHandle" /\ calls'[i].obj = Env
      BY <2>3, ObjectsApart DEF DisposesAt
    <2> QED
      BY <1>9, <1>10, <2>1, <2>2, <2>3
  <1>14. DisposesUnder'
    BY <1>9, <1>10, ObjectsApart DEF DisposesUnder
  <1>15. Disposes'
    BY <1>9, <1>13, <1>14 DEF Disposes
  <1>16. \A u : Pending(calls, {"ZeroHandle"}, u) => Pending(calls', {"ZeroHandle"}, u)
    BY <1>11
  <1>17. Subscribed'
    BY <1>1, <1>2, <1>11 DEF Subscribed, netVars
  <1> QED
    BY <1>5, <1>15, <1>17 DEF Stack

-----------------------------------------------------------------------------
(* The stack: AbortIfActive *)

(* Where no child has a handle, nothing deeper has one. *)
LEMMA HandledAlone ==
    ASSUME TypeOK, HeldTxns, NEW t \in Txns,
           \A w \in Txns : _handle[w] => ParentTransaction[w] # t
    PROVE  \A u \in Sub(ParentTransaction, t) : _handle[u] => u = t
  <1> DEFINE X == {u \in Txns : u = t \/ ~_handle[u]}
  <1>1. X \in SUBSET Txns /\ t \in X
    OBVIOUS
  <1>2. Closed(ParentTransaction, X)
    BY DEF Closed, HeldTxns
  <1>3. Sub(ParentTransaction, t) \subseteq X
    <2> HIDE DEF X
    <2> QED
      BY <1>1, <1>2, SubLeast
  <1> QED
    BY <1>3

(* What is aborted as it is disposed of is alone: nothing hangs from it.   *)
LEMMA ActiveReady ==
    ASSUME IInv, NEW t \in Txns, Executing("AbortIfActive", t),
           State[t] \in {"Active", "Reseted"}
    PROVE  Ready(State, _handle, ParentTransaction, Transaction, StateChanging, t)
  <1>1. TypeOK /\ HeldTxns /\ Disposes
    BY DEF IInv, Objs, Stack
  <1>2. Len(calls) \in Nat /\ Len(calls) > 0
        /\ calls[1].verb = "AbortIfActive" /\ calls[1].obj = t
    BY <1>1, HeadIs
  <1>3. DisposesAt(1) /\ \A V, x : ~Before(calls, 1, V, x)
    BY <1>1, <1>2 DEF Disposes, Before
  <1>4. /\ \A w \in Txns : _handle[w] => ParentTransaction[w] # t
        /\ \A c \in Cursors : _handle[c] => Transaction[c] # t
    BY <1>2, <1>3 DEF DisposesAt
  <1>5. \A u \in Sub(ParentTransaction, t) : _handle[u] => u = t
    BY <1>1, <1>4, HandledAlone
  <1> QED
    BY <1>4, <1>5 DEF Ready

(* The abort of what is disposed of while active. *)
LEMMA AbortIfActiveInd ==
    ASSUME IInv, NEW t \in Txns, AbortIfActive(t), State[t] \in {"Active", "Reseted"}
    PROVE  Stack'
  <1>1. TypeOK /\ Shape /\ Agree /\ Disposes
    BY DEF IInv, Stack
  <1>2. /\ Executing("AbortIfActive", t) /\ Expand(Then("Abort", t))
        /\ UNCHANGED <<State, _handle, ParentTransaction, Transaction, Disposing,
                       StateChanging, mdb_txn>>
    BY DEF AbortIfActive, netVars, nativeVars
  <1>3. /\ NoneEnding(calls) /\ calls # <<>> /\ 1 \in 1..Len(calls)
        /\ calls[1].verb = "AbortIfActive" /\ calls[1].obj = t
    <2>1. "AbortIfActive" \notin Ending
      BY DEF Ending
    <2> QED
      BY <1>2, <2>1, QuietHead
  <1>4. PICK fr : fr = Then("Abort", t)
    OBVIOUS
  <1>5. /\ fr \in Seq(Frames) /\ Len(fr) = 1
        /\ fr[1].verb = "Abort" /\ fr[1].obj = t
    <2>1. "Abort" \in Verbs /\ t \in Objects
      BY DEF Verbs, Objects
    <2>2. /\ fr \in Seq(Frames) /\ Len(fr) = 1
          /\ fr[1] = [verb |-> "Abort", obj |-> t]
      BY <1>4, <2>1, ThenIs
    <2> QED
      BY <2>2
  <1>6. Shifted(calls, fr, calls')
    BY <1>1, <1>2, <1>3, <1>4, <1>5, Expands
  <1>7. \A i \in 1..Len(fr) : i = 1 /\ fr[i].verb = "Abort" /\ fr[i].obj = t
    BY <1>5
  <1>8. NewShape(fr, Len(calls), _handle')
    BY <1>7 DEF NewShape
  <1>9. Shape'
    BY <1>1, <1>3, <1>6, <1>8, ShapeStep
  <1>10. \A i \in 1..Len(calls') : calls'[i].verb \in Ending =>
            i = 1 /\ calls'[i].verb = "Abort" /\ calls'[i].obj = t
    <2> TAKE i \in 1..Len(calls')
    <2>1. Origin(calls, fr, calls', i)
      BY <1>6, Origins
    <2>2. CASE i \in 1..Len(fr) /\ calls'[i] = fr[i]
      BY <1>7, <2>2
    <2>3. CASE i - Len(fr) + 1 \in 2..Len(calls) /\ calls'[i] = calls[i - Len(fr) + 1]
      <3>1. i - Len(fr) + 1 \in 1..Len(calls)
        BY <1>6, <2>3 DEF Shifted
      <3> QED
        BY <1>3, <2>3, <3>1 DEF NoneEnding
    <2> QED
      BY <2>1, <2>2, <2>3 DEF Origin
  <1>11. Apart'
    BY <1>10, ApartAlone
  <1>12. Ready(State, _handle, ParentTransaction, Transaction, StateChanging, t)
    BY <1>2, ActiveReady
  <1>13. Ends'
    <2>1. ASSUME NEW i \in 1..Len(calls'), calls'[i].verb \in Begun
          PROVE  calls'[i].obj = t
      BY <1>10, <2>1 DEF Begun, Ending
    <2>2. \A i \in 1..Len(calls') : calls'[i].verb \notin Native
      BY <1>10 DEF Native, Ending
    <2> QED
      BY <1>2, <1>12, <2>1, <2>2 DEF Ends
  <1>14. Agree'
    <2>1. \A u : ~Pending(calls, Native, u)
      BY <1>3, NoneEndingNative
    <2>2. \A u : ~Pending(calls', Native, u)
      BY <1>10 DEF Pending, Native, Ending
    <2> QED
      BY <1>1, <1>2, <2>1, <2>2 DEF Agree
  <1>15. Disposes'
    <2>1. Pending(fr, {"AbortIfActive", "Abort"}, t)
      BY <1>5 DEF Pending
    <2>2. \A i \in 1..Len(calls') : i > Len(fr) => DisposesAt(i)'
      BY <1>1, <1>2, <1>3, <1>6, <2>1, DisposesKept DEF Gone
    <2>3. calls'[1].verb = "Abort"
      BY <1>5, <1>6 DEF Shifted
    <2>4. DisposesAt(1)'
      BY <2>3 DEF DisposesAt
    <2>5. \A i \in 1..Len(calls') : i > Len(fr) \/ i = 1
      BY <1>5
    <2>6. DisposesUnder'
      BY <1>1, <1>2, <1>6, <1>7, UnderKept DEF Disposes
    <2> QED
      BY <2>2, <2>4, <2>5, <2>6 DEF Disposes
  <1>16. \A u : Pending(calls, {"ZeroHandle"}, u) => Pending(calls', {"ZeroHandle"}, u)
    BY <1>3, <1>6, PendingNew
  <1>17. Subscribed'
    BY <1>2, <1>16, SubscribedKept
  <1> QED
    BY <1>9, <1>11, <1>13, <1>14, <1>15, <1>17 DEF Stack

-----------------------------------------------------------------------------
(* The stack: what the user does *)

(* Without calls there is nothing to say of them. *)
LEMMA EmptyStack ==
    ASSUME calls' = <<>>
    PROVE  Shape' /\ Apart' /\ Ends' /\ Disposes'
  <1>1. PICK w : w = calls'
    OBVIOUS
  <1>2. Len(w) = 0
    BY <1>1
  <1>3. \A i \in 1..Len(w) : FALSE
    BY <1>2
  <1>4. \A i \in 1..Len(calls') : FALSE
    BY <1>1, <1>3
  <1>5. Shape'
    BY <1>4 DEF Shape
  <1>6. Apart'
    BY <1>4 DEF Apart
  <1>7. Ends'
    BY <1>4 DEF Ends
  <1>8. Disposes'
    BY <1>4 DEF Disposes, DisposesUnder
  <1> QED
    BY <1>5, <1>6, <1>7, <1>8

(* Nor is anything pending. *)
LEMMA EmptyPending ==
    ASSUME NEW w, w = <<>>
    PROVE  \A V, x : ~Pending(w, V, x)
  BY DEF Pending

(* A new transaction is subscribed, and active if it could begin. *)
LEMMA BeginInd ==
    ASSUME IInv, NEW t \in Txns, NEW parent \in Txns \cup {Nil}, NEW ro \in BOOLEAN,
           BeginTransaction(t, parent, ro)
    PROVE  Stack'
  <1>1. TypeOK /\ HeldCursors /\ Subscribed /\ Agree
    BY DEF IInv, Objs, Stack
  <1>2. /\ calls = <<>> /\ calls' = <<>> /\ UNCHANGED <<Transaction, calls>>
        /\ State[t] = "none"
    BY DEF BeginTransaction, User
  <1>3. \A V, x : ~Pending(calls, V, x) /\ ~Pending(calls', V, x)
    BY <1>2, EmptyPending
  <1>4. /\ ParentTransaction'[t] = parent /\ State'[t] = "Active"
        /\ \A u \in Txns \ {t} :
              /\ ParentTransaction'[u] = ParentTransaction[u]
              /\ State'[u] = State[u] /\ mdb_txn'[u] = mdb_txn[u]
        /\ \A u \in (Txns \cup Cursors) \ {t} : _handle'[u] = _handle[u]
        /\ _handle'[t] => mdb_txn'[t] = "live"
    <2>1. ~_handle[t]
      BY <1>2, NewcomerIs
    <2>2. /\ State' = [State EXCEPT ![t] = "Active"]
          /\ ParentTransaction' = [ParentTransaction EXCEPT ![t] = parent]
          /\ \/ UNCHANGED <<_handle, mdb_txn>>
             \/ /\ _handle' = [_handle EXCEPT ![t] = TRUE]
                /\ mdb_txn' = [mdb_txn EXCEPT ![t] = "live"]
      BY DEF BeginTransaction
    <2>3. CASE UNCHANGED <<_handle, mdb_txn>>
      BY <1>1, <2>1, <2>2, <2>3 DEF TypeOK
    <2>4. CASE /\ _handle' = [_handle EXCEPT ![t] = TRUE]
               /\ mdb_txn' = [mdb_txn EXCEPT ![t] = "live"]
      BY <1>1, <2>2, <2>4 DEF TypeOK
    <2> QED
      BY <2>2, <2>3, <2>4
  <1>5. ASSUME NEW s \in Txns \cup {Env}
        PROVE  /\ \A y : In(y, Disposing[s]) => In(y, Disposing'[s])
               /\ s \in {Env, parent} => In(t, Disposing'[s])
    <2>1. Disposing[s] \in Seq(Txns \cup Cursors) /\ t \in Txns \cup Cursors
      BY <1>1 DEF TypeOK
    <2>2. \A y : In(y, Append(Disposing[s], t)) <=> In(y, Disposing[s]) \/ y = t
      BY <2>1, AppendIs
    <2>3. Disposing'[s] = IF s \in {Env, parent} THEN Append(Disposing[s], t)
                          ELSE Disposing[s]
      BY DEF BeginTransaction
    <2> QED
      BY <2>2, <2>3
  <1>6. ASSUME NEW s \in Txns
        PROVE  /\ \A y : In(y, StateChanging[s]) => In(y, StateChanging'[s])
               /\ s = parent => In(t, StateChanging'[s])
    <2>1. StateChanging[s] \in Seq(Txns)
      BY <1>1 DEF TypeOK
    <2>2. \A y : In(y, Append(StateChanging[s], t)) <=> In(y, StateChanging[s]) \/ y = t
      BY <2>1, AppendIs
    <2>3. StateChanging'[s] = IF s = parent THEN Append(StateChanging[s], t)
                              ELSE StateChanging[s]
      BY DEF BeginTransaction
    <2> QED
      BY <2>2, <2>3
  <1>7. ASSUME NEW u \in Txns, _handle'[u]
        PROVE  /\ In(u, Disposing'[Env])
               /\ ParentTransaction'[u] \in Txns =>
                     /\ In(u, Disposing'[ParentTransaction'[u]])
                     /\ In(u, StateChanging'[ParentTransaction'[u]])
    <2>1. CASE u = t
      BY <1>4, <1>5, <1>6, <2>1
    <2>2. CASE u # t
      <3>1. _handle[u] /\ ParentTransaction'[u] = ParentTransaction[u]
        BY <1>4, <1>7, <2>2
      <3>2. /\ In(u, Disposing[Env])
            /\ ParentTransaction[u] \in Txns =>
                  /\ In(u, Disposing[ParentTransaction[u]])
                  /\ In(u, StateChanging[ParentTransaction[u]])
        BY <1>1, <1>3, <3>1 DEF Subscribed
      <3> QED
        BY <1>5, <1>6, <3>1, <3>2
    <2> QED
      BY <2>1, <2>2
  <1>8. ASSUME NEW c \in Cursors, _handle'[c]
        PROVE  In(c, Disposing'[Transaction[c]])
    <2>1. _handle[c]
      BY <1>4, <1>8, ObjectsApart
    <2>2. Transaction[c] \in Txns /\ In(c, Disposing[Transaction[c]])
      BY <1>1, <2>1 DEF HeldCursors, Subscribed
    <2> QED
      BY <1>5, <2>2
  <1>9. Subscribed'
    BY <1>2, <1>7, <1>8 DEF Subscribed
  <1>10. ASSUME NEW u \in Txns, _handle'[u]
         PROVE  /\ State'[u] = "Active" <=> mdb_txn'[u] = "live"
                /\ State'[u] = "Reseted" <=> mdb_txn'[u] = "reset"
    <2>1. CASE u = t
      BY <1>4, <1>10, <2>1
    <2>2. CASE u # t
      <3>1. _handle[u] /\ State'[u] = State[u] /\ mdb_txn'[u] = mdb_txn[u]
        BY <1>4, <1>10, <2>2
      <3> QED
        BY <1>1, <1>3, <3>1 DEF Agree
    <2> QED
      BY <2>1, <2>2
  <1>11. Agree'
    BY <1>3, <1>10 DEF Agree
  <1> QED
    BY <1>2, <1>9, <1>11, EmptyStack DEF Stack

(* A new cursor is subscribed. *)
LEMMA CreateCursorInd ==
    ASSUME IInv, NEW t \in Txns, NEW c \in Cursors, CreateCursor(c, t)
    PROVE  Stack'
  <1>1. TypeOK /\ HeldCursors /\ Subscribed /\ Agree
    BY DEF IInv, Objs, Stack
  <1>2. /\ calls = <<>> /\ calls' = <<>>
        /\ UNCHANGED <<State, ParentTransaction, StateChanging, mdb_txn>>
    BY DEF CreateCursor, User
  <1>3. \A V, x : ~Pending(calls, V, x) /\ ~Pending(calls', V, x)
    BY <1>2, EmptyPending
  <1>4. /\ Transaction'[c] = t
        /\ \A d \in Cursors \ {c} : Transaction'[d] = Transaction[d]
        /\ \A u \in (Txns \cup Cursors) \ {c} : _handle'[u] = _handle[u]
    BY <1>1 DEF CreateCursor, TypeOK
  <1>5. /\ Disposing'[t] = Append(Disposing[t], c)
        /\ \A u \in (Txns \cup {Env}) \ {t} : Disposing'[u] = Disposing[u]
    BY <1>1 DEF CreateCursor, TypeOK
  <1>6. \A y : In(y, Append(Disposing[t], c)) <=> In(y, Disposing[t]) \/ y = c
    <2>1. Disposing[t] \in Seq(Txns \cup Cursors) /\ c \in Txns \cup Cursors
      BY <1>1 DEF TypeOK
    <2> QED
      BY <2>1, AppendIs
  <1>7. \A s \in Txns \cup {Env} : \A y : In(y, Disposing[s]) => In(y, Disposing'[s])
    BY <1>5, <1>6
  <1>8. ASSUME NEW d \in Cursors, _handle'[d]
        PROVE  In(d, Disposing'[Transaction'[d]])
    <2>1. CASE d = c
      BY <1>4, <1>5, <1>6, <2>1
    <2>2. CASE d # c
      <3>1. _handle[d] /\ Transaction'[d] = Transaction[d]
        BY <1>4, <1>8, <2>2
      <3>2. Transaction[d] \in Txns /\ In(d, Disposing[Transaction[d]])
        BY <1>1, <3>1 DEF HeldCursors, Subscribed
      <3> QED
        BY <1>7, <3>1, <3>2
    <2> QED
      BY <2>1, <2>2
  <1>9. \A u \in Txns : _handle'[u] = _handle[u]
    BY <1>4, ObjectsApart
  <1>10. ASSUME NEW u \in Txns, _handle'[u]
         PROVE  /\ In(u, Disposing'[Env])
                /\ ParentTransaction'[u] \in Txns =>
                      /\ In(u, Disposing'[ParentTransaction'[u]])
                      /\ In(u, StateChanging'[ParentTransaction'[u]])
    <2>1. /\ In(u, Disposing[Env])
          /\ ParentTransaction[u] \in Txns =>
                /\ In(u, Disposing[ParentTransaction[u]])
                /\ In(u, StateChanging[ParentTransaction[u]])
      BY <1>1, <1>3, <1>9, <1>10 DEF Subscribed
    <2> QED
      BY <1>2, <1>7, <2>1
  <1>11. Subscribed'
    BY <1>8, <1>10 DEF Subscribed
  <1>12. Agree'
    BY <1>1, <1>2, <1>3, <1>9 DEF Agree
  <1> QED
    BY <1>2, <1>11, <1>12, EmptyStack DEF Stack

(* RenewCursor, Reset, Renew: no subscription changes. *)
LEMMA IdleInd ==
    ASSUME IInv, calls = <<>>, calls' = <<>>,
           UNCHANGED <<_handle, ParentTransaction, Transaction, Disposing, StateChanging>>,
           \A u \in Txns : _handle[u] =>
              /\ State'[u] = "Active" <=> mdb_txn'[u] = "live"
              /\ State'[u] = "Reseted" <=> mdb_txn'[u] = "reset"
    PROVE  Stack'
  <1>1. \A V, x : ~Pending(calls, V, x) /\ ~Pending(calls', V, x)
    BY EmptyPending
  <1>2. Subscribed'
    BY <1>1 DEF IInv, Stack, Subscribed
  <1>3. Agree'
    BY <1>1 DEF Agree
  <1> QED
    BY <1>2, <1>3, EmptyStack DEF Stack

(* Without calls every handled object tells the truth. *)
LEMMA IdleTruth ==
    ASSUME IInv, calls = <<>>, NEW u \in Txns, _handle[u]
    PROVE  /\ State[u] = "Active" <=> mdb_txn[u] = "live"
           /\ State[u] = "Reseted" <=> mdb_txn[u] = "reset"
  BY EmptyPending DEF IInv, Stack, Agree

(* Reset and Renew change object and native transaction together. *)
LEMMA ResetInd ==
    ASSUME IInv, NEW t \in Txns, Reset(t) \/ Renew(t)
    PROVE  Stack'
  <1>1. TypeOK
    BY DEF IInv
  <1>2. /\ calls = <<>> /\ calls' = <<>>
        /\ UNCHANGED <<_handle, ParentTransaction, Transaction, Disposing, StateChanging>>
    BY DEF Reset, Renew, User
  <1>3. /\ \/ State'[t] = "Reseted" /\ mdb_txn'[t] = "reset"
           \/ State'[t] = "Active" /\ mdb_txn'[t] = "live"
        /\ \A u \in Txns \ {t} : State'[u] = State[u] /\ mdb_txn'[u] = mdb_txn[u]
    <2>1. CASE Reset(t)
      BY <1>1, <2>1 DEF Reset, TypeOK
    <2>2. CASE Renew(t)
      BY <1>1, <2>2 DEF Renew, TypeOK
    <2> QED
      BY <2>1, <2>2
  <1>4. ASSUME NEW u \in Txns, _handle[u]
        PROVE  /\ State'[u] = "Active" <=> mdb_txn'[u] = "live"
               /\ State'[u] = "Reseted" <=> mdb_txn'[u] = "reset"
    <2>1. CASE u = t
      BY <1>3, <2>1
    <2>2. CASE u # t
      <3>1. /\ State[u] = "Active" <=> mdb_txn[u] = "live"
            /\ State[u] = "Reseted" <=> mdb_txn[u] = "reset"
        BY <1>2, <1>4, IdleTruth
      <3> QED
        BY <1>3, <2>2, <3>1
    <2> QED
      BY <2>1, <2>2
  <1> QED
    BY <1>2, <1>4, IdleInd

(* Only the native cursor changes. *)
LEMMA RenewCursorInd ==
    ASSUME IInv, NEW t \in Txns, NEW c \in Cursors, RenewCursor(c, t)
    PROVE  Stack'
  <1>1. /\ calls = <<>> /\ calls' = <<>> /\ UNCHANGED <<State, mdb_txn>>
        /\ UNCHANGED <<_handle, ParentTransaction, Transaction, Disposing, StateChanging>>
    BY DEF RenewCursor, User, netVars
  <1>2. \A u \in Txns : _handle[u] =>
           /\ State'[u] = "Active" <=> mdb_txn'[u] = "live"
           /\ State'[u] = "Reseted" <=> mdb_txn'[u] = "reset"
    BY <1>1, IdleTruth
  <1> QED
    BY <1>1, <1>2, IdleInd

(* One call of the user is a stack of its own. *)
LEMMA AskInd ==
    ASSUME IInv, NEW V, NEW x \in Objects, Ask(V, x), UNCHANGED <<netVars, nativeVars>>,
           \/ V = "Dispose"
           \/ /\ V \in Begun /\ x \in Txns /\ _handle[x]
              /\ Ready(State, _handle, ParentTransaction, Transaction, StateChanging, x)
    PROVE  Stack'
  <1>1. UNCHANGED <<State, _handle, ParentTransaction, Transaction, Disposing,
                    StateChanging, mdb_txn>>
    BY DEF netVars, nativeVars
  <1>2. calls = <<>>
    BY DEF Ask, User
  <1>3. PICK w : w = <<[verb |-> V, obj |-> x]>> /\ w = calls'
    BY DEF Ask
  <1>4. Len(w) = 1 /\ w[1].verb = V /\ w[1].obj = x
    BY <1>3
  <1>5. Len(calls') = 1
        /\ \A i \in 1..Len(calls') : i = 1 /\ calls'[i].verb = V /\ calls'[i].obj = x
    BY <1>3, <1>4
  <1>6. \A W, y : ~Pending(calls, W, y)
    BY <1>2, EmptyPending
  <1>7. V \in {"Dispose", "Commit", "Abort"}
    BY DEF Begun
  <1>8. /\ \A y : ~Pending(calls', Native, y)
        /\ \A i \in 1..Len(calls') : calls'[i].verb \notin Native
    BY <1>5, <1>7 DEF Pending, Native
  <1>9. Subscribed'
    BY <1>1, <1>6 DEF IInv, Stack, Subscribed
  <1>10. Agree'
    BY <1>1, <1>6, <1>8 DEF IInv, Stack, Agree
  <1>11. Shape'
    <2>1. ASSUME NEW i \in 1..Len(calls')
          PROVE
           /\ calls'[i].verb \in Ending \cup {"AbortIfActive"} => calls'[i].obj \in Txns
           /\ calls'[i].verb = "ZeroHandle" => calls'[i].obj \in Txns \cup {Env}
           /\ calls'[i].verb = "mdb_env_close" => calls'[i].obj = Env
           /\ calls'[i].verb = "Dispose" /\ calls'[i].obj = Env => Len(calls') = 1
           /\ calls'[i].verb \in {"Commit", "mdb_txn_commit"} =>
                 i = Len(calls') /\ _handle'[calls'[i].obj]
           /\ calls'[i].verb \in Ending => \A j \in 1..i-1 : calls'[j].verb \in Ending
      <3>1. i = 1 /\ calls'[i].verb = V /\ calls'[i].obj = x
        BY <1>5
      <3>2. V # "Dispose" => x \in Txns /\ _handle'[x]
        BY <1>1
      <3>3. V \notin {"ZeroHandle", "mdb_env_close", "mdb_txn_commit", "AbortIfActive"}
        BY <1>7
      <3>4. V \in Ending => V # "Dispose"
        BY DEF Ending
      <3>5. \A j \in 1..i-1 : FALSE
        BY <3>1
      <3> QED
        BY <1>5, <3>1, <3>2, <3>3, <3>4, <3>5
    <2> QED
      BY <2>1 DEF Shape
  <1>12. Apart'
    BY <1>5 DEF Apart
  <1>13. Ends'
    BY <1>1, <1>5, <1>8 DEF Ends, Begun
  <1>14. Disposes'
    BY <1>5, <1>7 DEF Disposes, DisposesAt, DisposesUnder
  <1> QED
    BY <1>9, <1>10, <1>11, <1>12, <1>13, <1>14 DEF Stack

(* A user who disposes what has ended leaves nothing in a transaction that *)
(* is to end but what is active and subscribed.                            *)
LEMMA TidyReady ==
    ASSUME IInv, calls = <<>>, ChildrenFirst, CursorsFirst, NEW t \in Txns, Tidy(t)
    PROVE  Ready(State, _handle, ParentTransaction, Transaction, StateChanging, t)
  <1>1. TypeOK /\ Trees /\ Subscribed
    BY DEF IInv, Objs, Stack
  <1>2. Inside(t) = Sub(ParentTransaction, t)
    BY InsideIs
  <1> SUFFICES ASSUME NEW x \in Sub(ParentTransaction, t), _handle[x]
      PROVE
       /\ State[x] \in {"Active", "Reseted"}
       /\ \A c \in Cursors : _handle[c] => Transaction[c] # x
       /\ x # t => In(x, StateChanging[ParentTransaction[x]])
    BY DEF Ready
  <1>3. x \in Txns
    BY SubTxns
  <1>4. State[x] \in {"Active", "Reseted"}
    BY <1>1, <1>2, <1>3 DEF Tidy, Trees, TypeOK, States
  <1>5. \A c \in Cursors : _handle[c] => Transaction[c] # x
    BY <1>2 DEF Tidy
  <1>6. ASSUME x # t
        PROVE  In(x, StateChanging[ParentTransaction[x]])
    <2>1. ParentTransaction[x] \in Txns
      BY <1>6, SubParent, SubTxns
    <2> QED
      BY <1>1, <1>3, <2>1, EmptyPending DEF Subscribed
  <1> QED
    BY <1>4, <1>5, <1>6

-----------------------------------------------------------------------------
(* Every step *)

(* Steps keep the invariant of the stack. *)
LEMMA StackInd ==
    ASSUME IInv, ChildrenFirst, CursorsFirst, [Next]_vars
    PROVE  Stack'
  <1>1. ASSUME NEW t \in Txns, AskEnd(t)
        PROVE  Stack'
    <2>1. /\ calls = <<>> /\ _handle[t] /\ t \in Objects
          /\ \E V \in Begun : Ask(V, t)
          /\ Tidy(t) /\ UNCHANGED <<netVars, nativeVars>>
      BY <1>1 DEF AskEnd, Ask, User, Objects, Begun
    <2>2. Ready(State, _handle, ParentTransaction, Transaction, StateChanging, t)
      BY <2>1, TidyReady
    <2> QED
      BY <2>1, <2>2, AskInd
  <1>2. ASSUME NEW x \in Objects, AskDispose(x)
        PROVE  Stack'
    BY <1>2, AskInd DEF AskDispose
  <1>3. ASSUME NEW t \in Txns, AbortIfActive(t)
        PROVE  Stack'
    <2>1. CASE State[t] \in {"Active", "Reseted"}
      BY <1>3, <2>1, AbortIfActiveInd
    <2>2. CASE State[t] \notin {"Active", "Reseted"}
      <3>1. t \in Objects
        BY DEF Objects
      <3>2. Executing("AbortIfActive", t) /\ Return /\ UNCHANGED <<netVars, nativeVars>>
        BY <1>3, <2>2 DEF AbortIfActive
      <3> QED
        BY <2>2, <3>1, <3>2, NothingToDo
    <2> QED
      BY <2>1, <2>2
  <1>4. ASSUME NEW x \in Objects, DisposeAgain(x)
        PROVE  Stack'
    BY <1>4, NothingToDo DEF DisposeAgain
  <1>5. CASE CloseEnv
    <2>1. Env \in Objects
      BY DEF Objects
    <2> QED
      BY <1>5, <2>1, NothingToDo DEF CloseEnv
  <1>6. CASE UNCHANGED vars
    BY <1>6
    DEF vars, netVars, nativeVars, IInv, Stack, Subscribed, Agree, Shape, Apart,
       Ends, Disposes, DisposesAt, DisposesUnder
  <1> QED
    BY <1>1, <1>2, <1>3, <1>4, <1>5, <1>6, BeginInd, CreateCursorInd,
       RenewCursorInd,
       ResetInd, BegunInd, NativeInd, DisposeTxnInd, DisposeCursorInd, ZeroHandleInd,
       DisposeEnvInd
    DEF Next, Objects

(* No step is a misuse. *)
LEMMA MisuseInd ==
    ASSUME IInv, [Next]_vars
    PROVE  ~misuse'
  <1>1. ~misuse
    BY DEF IInv
  <1>2. ASSUME NEW t \in Txns, CommitNative(t) \/ AbortNative(t)
        PROVE  ~misuse'
    <2>1. PICK U \in Native : NativeStep(U, t)
      BY <1>2, NativeSteps
    <2> QED
      BY <1>1, <2>1 DEF NativeStep, Ended, nativeVars
  <1>3. ASSUME NEW c \in Cursors, DisposeCursor(c)
        PROVE  ~misuse'
    BY <1>3, DisposeCursorInd
  <1>4. CASE UNCHANGED misuse
    BY <1>1, <1>4
  <1> QED
    BY <1>2, <1>3, <1>4
    DEF Next, BeginTransaction, CreateCursor, RenewCursor, Reset, Renew,
        AskEnd, Commit,
        Abort, DisposeTxn, AbortIfActive, AskDispose, DisposeAgain, ZeroHandle,
        DisposeEnv, CloseEnv, nativeVars, vars

(* The invariant at the start. *)
LEMMA IInvInit == Init => IInv
  <1> SUFFICES ASSUME Init
               PROVE  IInv
    OBVIOUS
  <1>1. TypeOK /\ ~misuse
    BY TypeInit DEF Init
  <1>2. \A x : ~In(x, <<>>)
    BY DEF In
  <1>3. /\ \A t \in Txns : /\ State[t] = "none" /\ ~_handle[t] /\ mdb_txn[t] = "none"
                           /\ ParentTransaction[t] = Nil
                           /\ StateChanging[t] = <<>> /\ Disposing[t] = <<>>
        /\ \A c \in Cursors : /\ ~_handle[c] /\ mdb_cursor[c] = "none"
                              /\ mc_txn[c] = Nil /\ Transaction[c] = Nil
        /\ calls = <<>>
    BY ObjectsApart DEF Init
  <1>4. Trees
    BY <1>3, ObjectsApart DEF Trees
  <1>5. HeldTxns /\ HeldCursors
    BY <1>3 DEF HeldTxns, HeldCursors, LiveIn
  <1>6. Subscribers
    <2>1. \A t \in Txns : \A i \in 1..Len(StateChanging[t]) : FALSE
      BY <1>3
    <2> QED
      BY <1>2, <1>3, <2>1 DEF Subscribers
  <1>7. \A V, x : ~Pending(calls, V, x)
    BY <1>3, EmptyPending
  <1>8. \A i \in 1..Len(calls) : FALSE
    BY <1>3
  <1>9. Subscribed /\ Agree
    BY <1>3 DEF Subscribed, Agree
  <1>10. Shape /\ Apart /\ Ends
    BY <1>8 DEF Shape, Apart, Ends
  <1>11. Disposes
    BY <1>8 DEF Disposes, DisposesUnder
  <1> QED
    BY <1>1, <1>4, <1>5, <1>6, <1>9, <1>10, <1>11 DEF IInv, Objs, Stack

(* The invariant at every step. *)
LEMMA IInvNext ==
    ASSUME ChildrenFirst, CursorsFirst
    PROVE  IInv /\ [Next]_vars => IInv'
  <1> SUFFICES ASSUME IInv, [Next]_vars
               PROVE  IInv'
    OBVIOUS
  <1>1. TypeOK' /\ Objs'
    BY ObjsInd
  <1>2. Stack'
    BY StackInd
  <1>3. ~misuse'
    BY MisuseInd
  <1> QED
    BY <1>1, <1>2, <1>3 DEF IInv

(* The invariant. *)
LEMMA IInvAlways ==
    ASSUME ChildrenFirst, CursorsFirst
    PROVE  Spec => []IInv
  <1>1. IInv /\ [Next]_vars => IInv'
    BY IInvNext
  <1> QED
    BY <1>1, IInvInit, PTL DEF Spec

-----------------------------------------------------------------------------
(* Theorems *)

(* No cascade of events gives mdb.c a handle that has ended: whatever the  *)
(* user begins, nests, disposes of or ends, in any order, if only what has *)
(* ended is disposed of before the transaction around it ends.             *)
THEOREM NetNoMisuse ==
    ASSUME ChildrenFirst, CursorsFirst
    PROVE  Spec => []NoMisuse
  <1>1. IInv => NoMisuse
    BY DEF IInv, NoMisuse
  <1> QED
    BY <1>1, IInvAlways, PTL

(* Between the calls of its user every object that has its handle tells    *)
(* the truth about it.                                                     *)
THEOREM NetHandlesAgree ==
    ASSUME ChildrenFirst, CursorsFirst
    PROVE  Spec => []HandlesAgree
  <1>1. IInv => HandlesAgree
    <2> SUFFICES ASSUME IInv
                 PROVE  HandlesAgree
      OBVIOUS
    <2>1. TypeOK /\ HeldCursors
      BY DEF IInv, Objs
    <2>2. ASSUME calls = <<>>, NEW t \in Txns, _handle[t]
          PROVE  /\ State[t] = "Active" <=> mdb_txn[t] = "live"
                 /\ State[t] = "Reseted" <=> mdb_txn[t] = "reset"
      BY <2>2, IdleTruth
    <2>3. \A c \in Cursors : _handle[c] => mdb_cursor[c] = "open"
      BY <2>1 DEF HeldCursors
    <2> QED
      BY <2>1, <2>2, <2>3 DEF HandlesAgree
  <1> QED
    BY <1>1, IInvAlways, PTL

(* When the environment is closed nothing of it is open, whatever the user *)
(* has left to Dispose.                                                    *)
THEOREM NetNothingLeft ==
    ASSUME ChildrenFirst, CursorsFirst
    PROVE  Spec => []NothingLeft
  <1>1. IInv => NothingLeft
    <2> SUFFICES ASSUME IInv, Executing("mdb_env_close", Env)
                 PROVE  /\ \A t \in Txns : ~Live(t)
                        /\ \A c \in Cursors : mdb_cursor[c] # "open"
      BY DEF NothingLeft
    <2>1. TypeOK /\ HeldTxns /\ HeldCursors /\ Disposes
      BY DEF IInv, Objs, Stack
    <2>2. Len(calls) \in Nat /\ Len(calls) > 0 /\ calls[1].verb = "mdb_env_close"
      BY <2>1, HeadIs
    <2>3. DisposesAt(1) /\ \A V, x : ~Before(calls, 1, V, x)
      BY <2>1, <2>2 DEF Disposes, Before
    <2>4. \A t \in Txns : ~_handle[t]
      BY <2>2, <2>3 DEF DisposesAt
    <2>5. \A t \in Txns : ~LiveIn(mdb_txn, t)
      BY <2>1, <2>4 DEF HeldTxns
    <2>6. \A c \in Cursors : mdb_cursor[c] # "open"
      BY <2>1, <2>4, <2>5 DEF HeldCursors
    <2> QED
      BY <2>5, <2>6 DEF Live, LiveIn
  <1> QED
    BY <1>1, IInvAlways, PTL

(* Only a native call about a transaction itself ends it. *)
LEMMA EndsItself ==
    ASSUME IInv, [Next]_vars, NEW u \in Txns, Live(u), mdb_txn'[u] = "ended"
    PROVE  \E U \in Native : Executing(U, u)
  <1>1. TypeOK
    BY DEF IInv
  <1>2. ASSUME NEW t \in Txns, CommitNative(t) \/ AbortNative(t)
        PROVE  \E U \in Native : Executing(U, u)
    <2>1. PICK U \in Native : NativeStep(U, t)
      BY <1>2, NativeSteps
    <2>2. u = t
      BY <2>1 DEF NativeStep, Ended, nativeVars, Live
    <2> QED
      BY <2>1, <2>2 DEF NativeStep
  <1>3. ASSUME NEW t \in Txns, NEW s \in {"live", "reset"}, mdb_txn' = [mdb_txn EXCEPT ![t] = s]
        PROVE  FALSE
    BY <1>1, <1>3 DEF TypeOK, Live
  <1>4. CASE UNCHANGED mdb_txn
    BY <1>4 DEF Live
  <1>5. ASSUME NEW t \in Txns, NEW parent \in Txns \cup {Nil}, NEW ro \in BOOLEAN,
               BeginTransaction(t, parent, ro)
        PROVE  FALSE
    BY <1>3, <1>4, <1>5 DEF BeginTransaction, Live
  <1>6. ASSUME NEW t \in Txns, Reset(t) \/ Renew(t)
        PROVE  FALSE
    BY <1>3, <1>6 DEF Reset, Renew
  <1> QED
    BY <1>2, <1>4, <1>5, <1>6
    DEF Next, CreateCursor, RenewCursor, AskEnd, Commit, Abort, DisposeTxn,
        AbortIfActive, AskDispose, DisposeAgain, ZeroHandle, DisposeCursor, CloseCursor,
        DisposeEnv, CloseEnv, nativeVars, vars

(* A commit of the native library ends the transaction it is about and no  *)
(* other one: those nested in it have been aborted before.                 *)
THEOREM NetOnlyAskedCommits ==
    ASSUME ChildrenFirst, CursorsFirst
    PROVE  Spec => OnlyAskedCommits
  <1>1. IInv /\ [Next]_vars =>
           [\A t, u \in Txns :
              Executing("mdb_txn_commit", t) /\ Live(u) /\ mdb_txn'[u] = "ended" => u = t]_vars
    <2> SUFFICES ASSUME IInv, [Next]_vars, NEW t \in Txns, NEW u \in Txns,
                        Executing("mdb_txn_commit", t), Live(u), mdb_txn'[u] = "ended"
                 PROVE  u = t
      OBVIOUS
    <2>1. PICK U \in Native : Executing(U, u)
      BY EndsItself
    <2>2. TypeOK
      BY DEF IInv
    <2> QED
      BY <2>1, <2>2, HeadIs
  <1> QED
    BY <1>1, IInvAlways, PTL DEF Spec, OnlyAskedCommits
=============================================================================
