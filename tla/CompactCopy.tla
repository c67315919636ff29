----------------------------- MODULE CompactCopy -----------------------------
(* The compacting copy of an environment (mdb_env_copyfd1).  The calling    *)
(* thread, the walker, goes depth first through the trees of a snapshot,    *)
(* gives every page the next number of the copy and puts it in one of two   *)
(* buffers; a writer thread writes the full buffers to the file.  mc_new    *)
(* counts the buffers to write, one mutex and one event are all they share, *)
(* and either may fail the copy through mc_error, which no lock protects.   *)
(*                                                                          *)
(* A page is the pages it leads to: its children, the overflow pages of its *)
(* items and the roots of their sub-databases; plain items are left out.    *)
(* The snapshot does not change while its transaction is open (MDBTxn).     *)
EXTENDS Integers, Sequences, FiniteSets

CONSTANTS Snapshots,   \* the environments to copy
          BufPages,    \* pages that fit into a buffer (MDB_WBUF)
          Faults,      \* what may fail: "thread", "begin", "page", "write"
          NoPage       \* P_INVALID

(* A snapshot is what a commit has left: a tree, whose pages but the root   *)
(* are referred to once, by a page that is nearer to the root.              *)
Items == [kind : {"child", "sub", "big"}, to : Nat \cup {NoPage}, n : Nat \ {0}]
IsTree(s) ==
    LET ps == DOMAIN s.pages IN
    /\ s.root \in ps \cup {NoPage} /\ s.next \in Nat /\ s.free \in Nat
    /\ \A p \in ps : p \in Nat /\ p >= 2 /\ s.pages[p] \in Seq(Items)
    /\ \A p \in ps : \A i \in DOMAIN s.pages[p] : LET q == s.pages[p][i] IN
         /\ q.kind = "big" => q.to \notin ps \cup {NoPage} /\ q.to >= 2
         /\ q.kind # "big" => q.to \in (ps \ {s.root}) \cup {NoPage}
    /\ \A p, r \in ps :
         \A i \in DOMAIN s.pages[p], j \in DOMAIN s.pages[r] :
            s.pages[p][i].to = s.pages[r][j].to /\ s.pages[p][i].to # NoPage
              => p = r /\ i = j
    /\ \E depth \in [ps -> 0..s.next] : \A p \in ps \ {s.root} :
         \E r \in ps : /\ depth[r] < depth[p]
                      /\ \E i \in DOMAIN s.pages[r] : s.pages[r][i].to = p

ASSUME CopyAssumption ==
    /\ BufPages \in Nat /\ BufPages >= 2 /\ NoPage \notin Nat
    /\ \A s \in Snapshots : IsTree(s)

VARIABLES snap,        \* the snapshot that is copied
          txn,         \* is the transaction that holds it open?
          walk,        \* the pages on the way down, with the numbers so far
          nextPgno,    \* mc_next_pgno
          buf, over,   \* mc_wbuf with mc_wlen, mc_over with mc_olen
          hand, turn,  \* mc_toggle; the writer's toggle
          new,         \* mc_new
          adjust,      \* what mdb_env_cthr_toggle was called with
          error, rc,   \* mc_error; the walker's return code
          left,        \* what the writer still has to write of a buffer
          file,        \* the copy
          mutex, event, \* mc_mutex: its holder; mc_cond: is it signalled?
          split,       \* does SignalObjectAndWait release the mutex first?
          pc

shared == <<buf, over, new, error, mutex, event>>
walker == <<snap, txn, walk, nextPgno, hand, adjust, rc, split>>
writer == <<turn, left, file>>
copyVars == <<shared, walker, writer, pc>>

Threads == {"walker", "writer"}
Other(t) == IF t = "walker" THEN "writer" ELSE "walker"
EOF == 16

Image(p, part, pgno, to) == [of |-> p, part |-> part, pgno |-> pgno, to |-> to]
Entry(s, p) == [at |-> p, i |-> 1,
                to |-> [k \in DOMAIN s.pages[p] |-> s.pages[p][k].to]]
Top      == walk[Len(walk)]
Item     == snap.pages[Top.at][Top.i]
Finished == Top.i > Len(Top.to)
ToCopy   == IF Finished THEN TRUE ELSE Item.kind = "big"
Full     == Len(buf[hand]) >= BufPages

(* The root the copy must get, if every page of the file is in a tree or    *)
(* on a free list: it is written after all others.                          *)
NewRoot(s) == IF s.root = NoPage THEN NoPage ELSE s.next - 1 - s.free
Metas(s)   == <<Image(0, 0, 0, <<>>), Image(1, 0, 1, <<NewRoot(s)>>)>>

Nothing == [root |-> NoPage, pages |-> <<>>, next |-> 2, free |-> 0]
CopyInit ==
    /\ snap = Nothing /\ txn = FALSE
    /\ walk = <<>> /\ nextPgno = 2
    /\ buf = [b \in {0, 1} |-> <<>>] /\ over = [b \in {0, 1} |-> <<>>]
    /\ hand = 0 /\ turn = 0 /\ new = 0 /\ adjust = 0
    /\ error = "ok" /\ rc = "ok" /\ left = <<>> /\ file = <<>>
    /\ mutex = "free" /\ event = FALSE /\ split = FALSE
    /\ pc = [t \in Threads |-> "off"]

Goes(t, l) == pc' = [pc EXCEPT ![t] = l]

(* pthread_cond_signal: an event wakes who waits for it, or stays signalled *)
(* for the next that waits, be it the thread that has signalled.            *)
SignalAndGo(t, l) ==
    /\ event' = (event \/ pc[Other(t)] # "asleep")
    /\ pc' = [pc EXCEPT ![t] = l,
              ![Other(t)] = IF @ = "asleep" THEN "woken" ELSE @]

(* pthread_cond_wait: SignalObjectAndWait releases the mutex and waits.     *)
(* Windows does not promise that no other thread runs in between.           *)
Blocks(t) == IF event THEN event' = FALSE /\ Goes(t, "woken")
             ELSE event' = event /\ Goes(t, "asleep")
Release(t) ==
    /\ pc[t] = "await" /\ mutex = t /\ mutex' = "free"
    /\ IF split THEN Goes(t, "released") /\ event' = event ELSE Blocks(t)
    /\ UNCHANGED <<buf, over, new, error, walker, writer>>
Block(t) ==
    /\ pc[t] = "released" /\ Blocks(t)
    /\ UNCHANGED <<buf, over, new, error, mutex, walker, writer>>

(***************************************************************************)
(* The walker                                                              *)
(***************************************************************************)
Start ==
    /\ pc["walker"] = "off"
    /\ split' \in BOOLEAN
    /\ \/ pc' = [t \in Threads |-> IF t = "walker" THEN "begin" ELSE "woken"]
          /\ UNCHANGED rc
       \/ /\ "thread" \in Faults
          /\ rc' = "thread" /\ Goes("walker", "done")
    /\ UNCHANGED <<shared, snap, txn, walk, nextPgno, hand, adjust, writer>>

Begin ==
    /\ pc["walker"] = "begin"
    /\ txn' = TRUE
    /\ \E s \in Snapshots :
         /\ snap' = s
         /\ buf' = [buf EXCEPT ![0] = Metas(s)]
         /\ walk' = IF s.root = NoPage THEN <<>> ELSE <<Entry(s, s.root)>>
         /\ Goes("walker", IF s.root = NoPage THEN "finish" ELSE "walk")
    /\ UNCHANGED <<over, new, error, mutex, event, nextPgno, hand, adjust, rc,
                   split, writer>>

(* mdb_txn_begin, or reading a page, fails. *)
Fail ==
    /\ \/ pc["walker"] = "begin" /\ "begin" \in Faults
       \/ pc["walker"] = "walk" /\ "page" \in Faults
    /\ rc' = "failed" /\ Goes("walker", "finish")
    /\ UNCHANGED <<shared, snap, txn, walk, nextPgno, hand, adjust, split, writer>>

(* What an item leads to has its number, NoPage if it leads to nothing.     *)
Numbered(e, n) == [at |-> e.at, i |-> e.i + 1, to |-> [e.to EXCEPT ![e.i] = n]]
Descend ==
    /\ pc["walker"] = "walk" /\ ~Finished /\ Item.kind \in {"child", "sub"}
    /\ walk' = IF Item.to = NoPage
               THEN [walk EXCEPT ![Len(walk)] = Numbered(@, NoPage)]
               ELSE Append(walk, Entry(snap, Item.to))
    /\ UNCHANGED <<shared, snap, txn, nextPgno, hand, adjust, rc, split, writer, pc>>

(* The other pages of an item are written right after the buffer, which is  *)
(* therefore handed over at once.                                           *)
HandOverTail(p, n) ==
    /\ over' = [over EXCEPT ![hand] = [k \in 1..n - 1 |-> Image(p, k, NoPage, <<>>)]]
    /\ adjust' = 1 /\ Goes("walker", "give")

(* An overflow item: its first page goes into the buffer, the others are    *)
(* written from the map.                                                    *)
CopyBig ==
    /\ pc["walker"] = "walk" /\ ~Finished /\ Item.kind = "big" /\ ~Full
    /\ buf' = [buf EXCEPT ![hand] = Append(@, Image(Item.to, 0, nextPgno, <<>>))]
    /\ walk' = [walk EXCEPT ![Len(walk)] = Numbered(@, nextPgno)]
    /\ nextPgno' = nextPgno + Item.n
    /\ IF Item.n > 1
       THEN HandOverTail(Item.to, Item.n)
       ELSE UNCHANGED <<over, adjust, pc>>
    /\ UNCHANGED <<new, error, mutex, event, snap, txn, hand, rc, split, writer>>

(* A page whose items are done is copied, and its parent gets its number.   *)
Emit ==
    /\ pc["walker"] = "walk" /\ Finished /\ ~Full
    /\ buf' = [buf EXCEPT ![hand] = Append(@, Image(Top.at, 0, nextPgno, Top.to))]
    /\ nextPgno' = nextPgno + 1
    /\ LET up == SubSeq(walk, 1, Len(walk) - 1) IN
         IF up = <<>>
         THEN /\ walk' = up /\ Goes("walker", "finish")
              /\ rc' = IF nextPgno # NewRoot(snap) THEN "incompatible" ELSE "ok"
         ELSE /\ walk' = [up EXCEPT ![Len(up)] = Numbered(@, nextPgno)]
              /\ UNCHANGED <<pc, rc>>
    /\ UNCHANGED <<over, new, error, mutex, event, snap, txn, hand, adjust,
                   split, writer>>

FullBuffer ==
    /\ pc["walker"] = "walk" /\ Full /\ ToCopy
    /\ adjust' = 1 /\ Goes("walker", "give")
    /\ UNCHANGED <<shared, snap, txn, walk, nextPgno, hand, rc, split, writer>>

(* The label finish: the last buffer goes with MDB_EOF. *)
Finish ==
    /\ pc["walker"] = "finish"
    /\ error' = IF rc # "ok" THEN rc ELSE error
    /\ adjust' = 1 + EOF /\ Goes("walker", "give")
    /\ UNCHANGED <<buf, over, new, mutex, event, snap, txn, walk, nextPgno,
                   hand, rc, split, writer>>

(* mdb_env_cthr_toggle *)
BothInUse(n) == (n % 4) >= 2
Give ==
    /\ pc["walker"] = "give" /\ mutex = "free"
    /\ new' = new + adjust
    /\ mutex' = IF BothInUse(new + adjust) THEN "walker" ELSE "free"
    /\ SignalAndGo("walker", IF BothInUse(new + adjust) THEN "await" ELSE "given")
    /\ UNCHANGED <<buf, over, error, walker, writer>>

Given ==
    /\ pc["walker"] = "woken" /\ mutex = "free"
    /\ mutex' = IF BothInUse(new) THEN "walker" ELSE "free"
    /\ Goes("walker", IF BothInUse(new) THEN "await" ELSE "given")
    /\ UNCHANGED <<buf, over, new, error, event, walker, writer>>

Turn ==
    /\ pc["walker"] = "given"
    /\ hand' = (hand + adjust) % 2
    /\ buf' = [buf EXCEPT ![(hand + adjust) % 2] = <<>>]
    /\ IF adjust > 1 THEN Goes("walker", "join") /\ UNCHANGED rc
       ELSE rc' = error /\ Goes("walker", IF error = "ok" THEN "walk" ELSE "finish")
    /\ UNCHANGED <<over, new, error, mutex, event, snap, txn, walk, nextPgno,
                   adjust, split, writer>>

WriterGoes  == TRUE   \* mutant: the writer thread is not waited for
WriterEnded == pc["writer"] = "exit"
ThreadResult == "ok"    \* mutant: the result of THREAD_FINISH is returned
Result == error
(* THREAD_FINISH, mdb_txn_abort, and the result is mc_error. *)
Join ==
    /\ pc["walker"] = "join" /\ WriterEnded
    /\ txn' = FALSE /\ rc' = Result /\ Goes("walker", "done")
    /\ UNCHANGED <<shared, snap, walk, nextPgno, hand, adjust, split, writer>>

(***************************************************************************)
(* The writer thread, mdb_env_copythr.  It holds the mutex while it writes. *)
(***************************************************************************)
(* The head of its loop, with the mutex held and mc_new = n *)
LoopHead(n) == CASE n = 0 -> "await" [] n = EOF -> "exit" [] OTHER -> "write"

Take ==
    /\ pc["writer"] = "woken" /\ mutex = "free"
    /\ mutex' = IF new = EOF THEN "free" ELSE "writer"
    /\ left' = IF new \in {0, EOF} THEN <<>> ELSE buf[turn]
    /\ Goes("writer", LoopHead(new))
    /\ UNCHANGED <<buf, over, new, error, event, walker, turn, file>>

(* WriteFile may write less than it was given, or fail. *)
Write ==
    /\ pc["writer"] = "write" /\ left # <<>> /\ error = "ok"
    /\ \/ \E n \in {1, Len(left)} :
            /\ file' = file \o SubSeq(left, 1, n)
            /\ left' = SubSeq(left, n + 1, Len(left))
            /\ UNCHANGED error
       \/ "write" \in Faults /\ error' = "write" /\ UNCHANGED <<file, left>>
    /\ UNCHANGED <<buf, over, new, mutex, event, walker, turn, pc>>

WriteTail ==
    /\ pc["writer"] = "write" /\ (left = <<>> \/ error # "ok")
    /\ over[turn] # <<>>
    /\ left' = over[turn] /\ over' = [over EXCEPT ![turn] = <<>>]
    /\ UNCHANGED <<buf, new, error, mutex, event, walker, turn, file, pc>>

(* Mutant: the writer does not say that a buffer is empty. *)
WrittenQuiet ==
    /\ pc["writer"] = "write" /\ (left = <<>> \/ error # "ok")
    /\ over[turn] = <<>>
    /\ buf' = [buf EXCEPT ![turn] = <<>>]
    /\ turn' = 1 - turn /\ new' = new - 1
    /\ left' = IF new - 1 \in {0, EOF} THEN <<>> ELSE buf[1 - turn]
    /\ mutex' = IF new - 1 = EOF THEN "free" ELSE "writer"
    /\ event' = event /\ Goes("writer", LoopHead(new - 1))
    /\ UNCHANGED <<over, error, walker, file>>

(* Return the empty buffer to provider, and look for the next. *)
Written ==
    /\ pc["writer"] = "write" /\ (left = <<>> \/ error # "ok")
    /\ over[turn] = <<>>
    /\ buf' = [buf EXCEPT ![turn] = <<>>]
    /\ turn' = 1 - turn /\ new' = new - 1
    /\ left' = IF new - 1 \in {0, EOF} THEN <<>> ELSE buf[1 - turn]
    /\ mutex' = IF new - 1 = EOF THEN "free" ELSE "writer"
    /\ SignalAndGo("writer", LoopHead(new - 1))
    /\ UNCHANGED <<over, error, walker, file>>

WalkerStep == \/ Start \/ Begin \/ Fail \/ Descend \/ CopyBig \/ Emit
              \/ FullBuffer \/ Finish \/ Give \/ Given \/ Turn \/ Join
              \/ Release("walker") \/ Block("walker")
WriterStep == \/ Take \/ Write \/ WriteTail \/ Written
              \/ Release("writer") \/ Block("writer")
CopyNext == WalkerStep \/ WriterStep

==============================================================================
