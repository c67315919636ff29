------------------------------ MODULE NestedTxn ------------------------------
(***************************************************************************)
(* A write transaction and the transactions nested in it                   *)
(* (src/libraries/lmdb-dll/mdb.c): the dirty lists, spill lists, free      *)
(* lists and loose pages of each level, me_pghead which they share, the    *)
(* early write of dirty pages when the list is nearly full (mdb_page_spill)*)
(* and their return (mdb_page_unspill), the cursors a child borrows from   *)
(* its parent, and what mdb_txn_commit and mdb_txn_abort do with all that. *)
(*                                                                         *)
(* The tree has a root and one leaf per node of Nodes; a leaf holds a      *)
(* value and perhaps an overflow page.  What leaves hold and how their     *)
(* entries are arranged is BTree's subject, what the outermost commit does *)
(* step by step is MDBTxn's.  One action is one call: a transaction, its   *)
(* children included, belongs to one thread.                               *)
(***************************************************************************)
EXTENDS Integers, FiniteSets, SequencesExt

CONSTANTS Nodes,      \* numbers, in the order of their keys
          Vals,
          BigNode,    \* the node that may have an overflow page
          Home,       \* the page of each node of the stored tree
          HomeRoot,
          HomeBig,    \* BigNode's overflow page, or NoPage
          Records,    \* the freeDB's records a transaction may reclaim, in order
          NextPgno,   \* mm_last_pg + 1
          MaxPg,      \* me_maxpg
          DirtyMax,   \* MDB_IDL_UM_MAX, the room of a dirty list
          Need,       \* the pages an operation may dirty, as mdb_page_spill estimates
          SpillMost,  \* how many pages it writes at once
          Faults,     \* what may fail: "write", "free", "spill"
          Cursors,
          MaxLevel, MaxOps  \* bounds

Levels == 1..MaxLevel
NoPage == 0
NoNode == 0
NoVal  == 0
Pgs    == 2..(MaxPg - 1)   \* pages 0 and 1 are the meta pages

(* The pages of the stored tree, each of them there once. *)
HomeTree == ({HomeRoot, HomeBig} \cup Range(Home)) \ {NoPage}

ASSUME BoundsAssumption ==
  /\ {NextPgno, MaxPg, DirtyMax, Need, SpillMost, MaxLevel, MaxOps} \subseteq Nat
  /\ NextPgno \in 3..MaxPg /\ MaxLevel >= 1
  /\ Need >= 3 /\ SpillMost >= 1  \* a call of this model dirties three pages at most

(* A commit has left the store: each page is in the tree or in a record.  *)
ASSUME StoreAssumption ==
  /\ Nodes \subseteq Nat \ {NoNode} /\ Vals # {} /\ NoVal \notin Vals
  /\ Home \in [DOMAIN Home -> Pgs] /\ DOMAIN Home \subseteq Nodes
  /\ BigNode \in DOMAIN Home /\ HomeRoot \in Pgs /\ HomeBig \in {NoPage} \cup Pgs
  /\ HomeBig # HomeRoot /\ {HomeRoot, HomeBig} \cap Range(Home) = {}
  /\ \A m, n \in DOMAIN Home : Home[m] = Home[n] => m = n
  /\ Records \in Seq((SUBSET Pgs) \ {{}})
  /\ \A j, k \in DOMAIN Records : Records[j] \cap Records[k] # {} => j = k
  /\ HomeTree \cap UNION Range(Records) = {}
  /\ HomeTree \cup UNION Range(Records) = 2..(NextPgno - 1)

VARIABLES txns,    \* the open transactions, the outermost first
          pghead,  \* me_pghead: pages to use before those at the end of the file
          pglast,  \* me_pglast: how many of Records have gone into it
          file,    \* the memory map
          meta,    \* the root in the newest meta page
          sees,    \* what is stored and what each open transaction sees of it
          cur,     \* the cursors
          pkeep,   \* <<i, p>>: P_KEEP has stayed on p in the i-th's dirty list
          ending,  \* the mdb_txn_commit or mdb_txn_abort at work, children first
          ops
vars == <<txns, pghead, pglast, file, meta, sees, cur, pkeep, ending, ops>>

Top     == Len(txns)
NoKids  == [n \in Nodes |-> NoPage]
Branch(k)  == [kids |-> k, val |-> NoVal, ov |-> NoPage]
Leaf(v, o) == [kids |-> NoKids, val |-> v, ov |-> o]
Blank      == Branch(NoKids)
------------------------------------------------------------------------------
(* mdb_page_get of the i-th transaction of s: the innermost that has page p *)
(* decides: it wrote it early, and p is in the map, or it is in its dirty   *)
(* list.                                                                    *)
Held(t) == t.spill \cup DOMAIN t.dirty
Holders(s, i, p) == {j \in 1..i : p \in Held(s[j])}
Where(s, i, p) ==
  IF Holders(s, i, p) = {} THEN 0
  ELSE LET j == Max(Holders(s, i, p)) IN IF p \in s[j].spill THEN 0 ELSE j
Page(s, i, f, p) ==
  LET j == Where(s, i, p) IN IF j = 0 THEN f[p] ELSE s[j].dirty[p]
Kids(s, i, f) == Page(s, i, f, s[i].root).kids

(* What one sees of the tree with that root. *)
Failed == [n \in Nodes |-> <<NoVal>>]
Content(s, i, f, p) ==
  IF p = NoPage THEN <<>>
  ELSE LET l == Page(s, i, f, p) IN
       IF l.ov = NoPage THEN <<l.val>> ELSE <<l.val, Page(s, i, f, l.ov).val>>
Image(s, i, f, root) ==
  LET kids == Page(s, i, f, root).kids IN [n \in Nodes |-> Content(s, i, f, kids[n])]
Images(s, f, m) ==
  [stored |-> Image(s, 0, f, m),
   stack  |-> [i \in DOMAIN s |-> IF s[i].error THEN Failed
                                  ELSE Image(s, i, f, s[i].root)]]
Becomes(s, f, m) ==
  txns' = s /\ file' = f /\ meta' = m /\ sees' = Images(s, f, m)

(* The work of a call: the innermost transaction t, what it shares, the     *)
(* page it got last and its result.                                         *)
Work == [t |-> txns[Top], head |-> pghead, last |-> pglast, file |-> file,
         cur |-> cur, new |-> NoPage, rc |-> "ok"]
Chain(w)     == [txns EXCEPT ![Top] = w.t]
PageOf(w, p) == Page(Chain(w), Top, w.file, p)
WhereIs(w, p) == Where(Chain(w), Top, p)
KidOf(w, n)  == Kids(Chain(w), Top, w.file)[n]
Ok(w)        == w.rc = "ok"
Broken(w)    == [w EXCEPT !.t.error = TRUE, !.rc = "failed"]

(* mdb_page_dirty, mdb_page_alloc for one page. *)
Added(d, p, c) == [q \in DOMAIN d \cup {p} |-> IF q = p THEN c ELSE d[q]]
Dirtied(w, p, c) ==
  [w EXCEPT !.t.dirty = Added(@, p, c), !.t.room = @ - 1, !.new = p]
TakeFrom(w, h, l) ==
  Dirtied([w EXCEPT !.head = h \ {Min(h)}, !.last = l], Min(h), Blank)
PageAlloc(w) ==
  IF w.t.loose # <<>>
  THEN [w EXCEPT !.t.loose = Tail(@), !.new = Head(w.t.loose)]
  ELSE IF w.t.room = 0 THEN Broken(w)
  ELSE IF w.head # {} THEN TakeFrom(w, w.head, w.last)
  ELSE IF w.last < Len(Records) THEN TakeFrom(w, Records[w.last + 1], w.last + 1)
  ELSE IF w.t.next + 1 >= MaxPg THEN Broken(w)
  ELSE Dirtied([w EXCEPT !.t.next = @ + 1], w.t.next, Blank)

(* Cursors that point to the old copy of a page get the new one. *)
At(w, p) == <<WhereIs(w, p), p>>
Repointed(w, old, new) ==
  [w EXCEPT !.cur = [c \in Cursors |->
     [w.cur[c] EXCEPT !.root = IF @ = old THEN new ELSE @,
                      !.leaf = IF @ = old THEN new ELSE @]]]

(* mdb_page_unspill: this transaction's own page is no longer spilled; an   *)
(* ancestor's remains so until this one commits.                            *)
Spilled(w, p) == \E i \in DOMAIN txns : p \in Chain(w)[i].spill
Unspill(w, p) ==
  IF w.t.room = 0 THEN [w EXCEPT !.rc = "failed"]
  ELSE Dirtied([w EXCEPT !.t.spill = @ \ {p}], p, w.file[p])

(* A page dirty in an ancestor is copied; the ancestor has counted it. *)
CopyCounted(w, p) == \* mutant: the copy takes room although its page has been counted
  Dirtied(w, p, PageOf(w, p))
CopyFromParent(w, p) ==
  [w EXCEPT !.t.dirty = Added(@, p, PageOf(w, p)), !.new = p]

FreePage(w, p) == [w EXCEPT !.t.free[p] = @ + 1]
Renewed(w, p) ==
  LET a == PageAlloc(w) IN
  IF Ok(a) THEN FreePage([a EXCEPT !.t.dirty[a.new] = PageOf(w, p)], p) ELSE a

(* mdb_page_touch: afterwards w.new is the page, dirty and this level's. *)
Writable(w, p) ==
  IF WhereIs(w, p) = Top THEN [w EXCEPT !.new = p]
  ELSE IF WhereIs(w, p) > 0 THEN CopyFromParent(w, p)
  ELSE IF w.t.spills /\ Spilled(w, p)
       THEN LET u == Unspill(w, p) IN IF Ok(u) THEN u ELSE Broken(u)
  ELSE Renewed(w, p)
Touched(w, p) ==
  LET x == Writable(w, p)
  IN IF Ok(x) THEN Repointed(x, At(w, p), <<Top, x.new>>) ELSE x

TouchRoot(w) ==
  LET x == Touched(w, w.t.root) IN IF Ok(x) THEN [x EXCEPT !.t.root = x.new] ELSE x
SetKid(w, n, p) == [w EXCEPT !.t.dirty[w.t.root].kids[n] = p]
TouchLeaf(w, n) ==
  IF ~Ok(w) THEN w
  ELSE LET x == Touched(w, KidOf(w, n)) IN IF Ok(x) THEN SetKid(x, n, x.new) ELSE x
(* mdb_cursor_touch *)
Path(w, n) == TouchLeaf(TouchRoot(w), n)

(* mdb_page_spill: pages of the cursors (the operation's own is on n), the  *)
(* root, loose pages and what an ancestor has spilled stay.                 *)
KeptForOperation(n) == \* mutant: only the operation's own cursor is looked at
  {txns[Top].root, Kids(txns, Top, file)[n]}
Kept(n) ==
  {txns[Top].root, Kids(txns, Top, file)[n]}
    \cup UNION {{cur[c].root[2], cur[c].leaf[2]} : c \in Cursors}
Largest(S, k) == {p \in S : Cardinality({q \in S : q > p}) < k}
Staying(n) ==
  Kept(n) \cup ToSet(txns[Top].loose) \cup {p \in Pgs : <<Top, p>> \in pkeep}
ToSpillAgain(n) == \* mutant: what an ancestor has spilled is spilled too
  Largest(DOMAIN txns[Top].dirty \ Staying(n), SpillMost)
ToSpill(n) ==
  Largest(DOMAIN txns[Top].dirty
            \ (Staying(n) \cup UNION {txns[i].spill : i \in 1..(Top - 1)}), SpillMost)
Flushed(f, P) == [p \in Pgs |-> IF p \in P THEN txns[Top].dirty[p] ELSE f[p]]
Spill(n) ==
  IF txns[Top].room > Need THEN Work
  ELSE [Work EXCEPT !.t.spill = @ \cup ToSpill(n), !.t.spills = TRUE,
                    !.t.dirty = [p \in DOMAIN @ \ ToSpill(n) |-> @[p]],
                    !.t.room = @ + Cardinality(ToSpill(n)),
                    !.file = Flushed(@, ToSpill(n))]

(* P_KEEP, with which mdb_pages_xkeep marks the pages of the cursors, those *)
(* of ancestors too, before the others are written.  After that it is taken *)
(* off them again, and off the dirty pages that mdb_page_flush passed over; *)
(* not when the write has failed.  A copy takes it along.                   *)
Marked(n) ==
  {At(Work, txns[Top].root), At(Work, Kids(txns, Top, file)[n])}
    \cup UNION {{cur[c].root, cur[c].leaf} : c \in Cursors}
PassedOver(n) ==
  {p \in DOMAIN txns[Top].dirty :
     Cardinality(ToSpill(n)) < SpillMost \/ \E q \in ToSpill(n) : q <= p}
StillKept(n) ==
  IF txns[Top].room > Need THEN pkeep
  ELSE pkeep \ (Marked(n) \cup {<<Top, p>> : p \in PassedOver(n)})
CopiedKept(w, k) ==
  {Top} \X {p \in Pgs : /\ p \in DOMAIN w.t.dirty \ ToSet(w.t.loose)
                        /\ <<Where(txns, Top, p), p>> \in k}
Above(i, k) == {x \in k : x[1] < i}   \* of the ancestors of the i-th

(* mdb_page_loose: a page of this level's may be used again at once. *)
Loosen(w, p) ==
  IF WhereIs(w, p) = Top THEN [w EXCEPT !.t.loose = <<p>> \o @] ELSE FreePage(w, p)

(* mdb_ovpage_free *)
FreeOverflow(w, p) ==
  LET dirty == WhereIs(w, p) > 0
      mine  == w.last > 0 /\ Top = 1 /\ (dirty \/ p \in w.t.spill)
  IN IF ~mine THEN FreePage(w, p)
     ELSE IF ~dirty THEN [w EXCEPT !.head = @ \cup {p}, !.t.spill = @ \ {p}]
     ELSE [w EXCEPT !.head = @ \cup {p}, !.t.room = @ + 1,
                    !.t.dirty = [q \in DOMAIN @ \ {p} |-> @[q]]]
------------------------------------------------------------------------------
(* The calls.  One that fails leaves what it has done, and MDB_TXN_ERROR    *)
(* where the code sets it.                                                  *)
Blocked(i) == txns[i].error \/ i < Top   \* MDB_TXN_ERROR, MDB_TXN_HAS_CHILD
CanWork ==
  /\ Top > 0 /\ ending = <<>> /\ ~Blocked(Top) /\ ops < MaxOps
  /\ ops' = ops + 1 /\ UNCHANGED ending
Apply(w) ==
  Becomes(Chain(w), w.file, meta) /\ pghead' = w.head /\ pglast' = w.last /\ cur' = w.cur
Do(n, w) ==
  Apply(w) /\ pkeep' = Above(Top, StillKept(n)) \cup CopiedKept(w, StillKept(n))
Tree == IF Top = 0 THEN {} ELSE {n \in Nodes : Kids(txns, Top, file)[n] # NoPage}

(* mdb_put on an entry of n; what is written differs from what is there. *)
ValOf(n) == Page(txns, Top, file, Kids(txns, Top, file)[n]).val
SetLeaf(w, n, v) ==
  IF Ok(w) THEN [w EXCEPT !.t.dirty[KidOf(w, n)].val = v] ELSE w
Put(n, v) == CanWork /\ v # ValOf(n) /\ Do(n, SetLeaf(Path(Spill(n), n), n, v))

(* mdb_put of a value that needs an overflow page: where there is one, it   *)
(* is overwritten if it is dirty or was spilled, replaced if it is clean.   *)
SetBig(w, n, o) == [w EXCEPT !.t.dirty[KidOf(w, n)].ov = o]
NewBig(w, n, v) ==
  LET a == PageAlloc(w) IN
  IF Ok(a) THEN SetBig([a EXCEPT !.t.dirty[a.new] = Leaf(v, NoPage)], n, a.new) ELSE a
Overflow  == Page(txns, Top, file, Kids(txns, Top, file)[BigNode]).ov
BigVal    == IF Overflow = NoPage THEN NoVal ELSE Page(txns, Top, file, Overflow).val
BigWritable(w, o) ==
  IF WhereIs(w, o) = 0 THEN Unspill(w, o)
  ELSE IF WhereIs(w, o) < Top THEN CopyFromParent(w, o) ELSE w
Overwrite(w, o, v) ==
  LET x == BigWritable(w, o)
  IN IF Ok(x) THEN [x EXCEPT !.t.dirty[o].val = v] ELSE x
WriteBig(w, n, v) ==
  IF ~Ok(w) THEN w
  ELSE LET o == PageOf(w, KidOf(w, n)).ov IN
       IF o = NoPage THEN NewBig(w, n, v)
       ELSE IF WhereIs(w, o) = 0 /\ ~Spilled(w, o) THEN NewBig(FreeOverflow(w, o), n, v)
       ELSE Overwrite(w, o, v)
PutBig(v) ==
  CanWork /\ BigNode \in Tree /\ v # BigVal
    /\ Do(BigNode, WriteBig(Path(Spill(BigNode), BigNode), BigNode, v))

(* mdb_del of the value with the overflow page. *)
DropBig(w) ==
  IF Ok(w) THEN SetBig(FreeOverflow(w, PageOf(w, KidOf(w, BigNode)).ov), BigNode, NoPage)
  ELSE w
DelBig ==
  /\ CanWork /\ BigNode \in Tree /\ Overflow # NoPage
  /\ Do(BigNode, DropBig(Path(Spill(BigNode), BigNode)))

(* mdb_put into a full leaf n: mdb_page_split adds the leaf m. *)
AddLeaf(w, m, v) ==
  IF ~Ok(w) THEN w
  ELSE LET a == PageAlloc(w) IN
       IF Ok(a) THEN SetKid([a EXCEPT !.t.dirty[a.new] = Leaf(v, NoPage)], m, a.new) ELSE a
Split(n, m, v) ==
  CanWork /\ v # ValOf(n)
    /\ Do(n, AddLeaf(Path(Spill(n), n), m, v))

(* mdb_del on n, which joins it with a neighbour: mdb_page_merge moves      *)
(* dead's entries to kept and gives up its page; n is one of the two.       *)
Joined(w, dead, kept, v) ==
  IF ~Ok(w) THEN w
  ELSE SetLeaf(SetKid(Loosen(w, KidOf(w, dead)), dead, NoPage), kept, v)
FollowMerge(w, old, kept) ==
  LET new == <<Top, KidOf(w, kept)>> IN
  [w EXCEPT !.cur = [c \in Cursors |->
     IF w.cur[c].leaf = old THEN [w.cur[c] EXCEPT !.leaf = new, !.at = kept] ELSE w.cur[c]]]
Merged(w, dead, kept, v) ==
  IF Ok(w) THEN FollowMerge(Joined(w, dead, kept, v), At(w, KidOf(w, dead)), kept) ELSE w
Neighbours(m, n) == m # n /\ \A k \in Tree : k <= Min({m, n}) \/ k >= Max({m, n})
Merge(n, dead, kept, v) ==
  /\ CanWork /\ Neighbours(dead, kept)
  /\ dead # BigNode /\ v # ValOf(kept)
  /\ Cardinality(Tree) > 2   \* mdb_rebalance would collapse the root
  /\ Do(n, Merged(TouchLeaf(Path(Spill(n), n), kept), dead, kept, v))

(* An early write fails: some pages are in the map, and P_KEEP stays.  The  *)
(* transaction is of no use any more, but its ancestors are.                *)
SpillFails(n) ==
  /\ "write" \in Faults /\ CanWork /\ txns[Top].room <= Need /\ ToSpill(n) # {}
  /\ \E P \in SUBSET ToSpill(n) :
       Apply([Broken(Work) EXCEPT !.t.spill = @ \cup ToSpill(n), !.file = Flushed(@, P)])
  /\ pkeep' = Above(Top, pkeep \cup (Marked(n) \cap ((1..Top) \X Pgs)))
------------------------------------------------------------------------------
(* The cursors.  Those of a parent are used by the child's calls, which     *)
(* move them, and stand aside in mc_backup as they were.                    *)
NotAt  == <<0, NoPage>>
Closed == [own |-> 0, at |-> NoNode, root |-> NotAt, leaf |-> NotAt, backup |-> <<>>]
Open(c)   == cur[c].own > 0
Usable(c) == Open(c) /\ cur[c].backup = <<>>   \* a parent's may not be used meanwhile
Set(c, r) ==
  cur' = [cur EXCEPT ![c] = r] /\ UNCHANGED <<txns, pghead, pglast, file, meta, sees, pkeep>>
OpenCursor(c)  == CanWork /\ ~Open(c) /\ Set(c, [Closed EXCEPT !.own = Top])
CloseCursor(c) == ending = <<>> /\ Usable(c) /\ Set(c, Closed) /\ UNCHANGED <<ending, ops>>
(* mdb_cursor_get, MDB_SET *)
Position(c, n) ==
  /\ CanWork /\ Usable(c) /\ n # cur[c].at
  /\ Set(c, [cur[c] EXCEPT !.at = n, !.root = At(Work, txns[Top].root),
                           !.leaf = At(Work, Kids(txns, Top, file)[n])])

(* mdb_cursor_shadow, and the two ways of mdb_cursors_close. *)
Saved(r)  == [at |-> r.at, root |-> r.root, leaf |-> r.leaf]
Shadowed  == [c \in Cursors |->
   IF Open(c) THEN [cur[c] EXCEPT !.backup = Append(@, Saved(cur[c])), !.own = Top + 1]
   ELSE cur[c]]
Restored(c) ==
  LET b == Last(cur[c].backup)
  IN [own |-> Top - 1, at |-> b.at, root |-> b.root, leaf |-> b.leaf,
      backup |-> Front(cur[c].backup)]
(* The pages of the child are the parent's from now on. *)
Inherited(x) == IF x[1] = Top THEN <<Top - 1, x[2]>> ELSE x
GivenBack(c) ==
  [cur[c] EXCEPT !.own = Top - 1, !.root = Inherited(@), !.leaf = Inherited(@),
                 !.backup = Front(@)]
CursorsClosed(merge) ==
  [c \in Cursors |-> IF cur[c].backup = <<>> THEN Closed
                     ELSE IF merge THEN GivenBack(c) ELSE Restored(c)]
------------------------------------------------------------------------------
(* mdb_txn_begin with a parent. *)
Child == [txns[Top] EXCEPT !.dirty = <<>>, !.spill = {}, !.loose = <<>>,
            !.free = [p \in Pgs |-> 0], !.head0 = pghead, !.last0 = pglast]
Begin ==
  /\ CanWork /\ Top < MaxLevel
  /\ Becomes(Append(txns, Child), file, meta) /\ cur' = Shadowed
  /\ UNCHANGED <<pghead, pglast, pkeep>>

(* mdb_txn_commit or mdb_txn_abort of transaction i: its children come      *)
(* first, and if one fails, those around it up to i are aborted.            *)
Ending(how, i) == i \in 1..Top /\ ending \in {<<>>, <<how, i>>}
Goes(how, i)   == ending' = IF Top = i THEN <<>> ELSE <<how, i>>

(* mdb_txn_end, of a nested transaction or of the outermost. *)
DroppedUnrestored(outer) == \* mutant: me_pgstate is not put back
  /\ Becomes(outer, file, meta) /\ cur' = CursorsClosed(FALSE)
  /\ pkeep' = Above(Top, pkeep) /\ UNCHANGED <<pghead, pglast, ops>>
Dropped(outer) ==
  /\ Becomes(outer, file, meta) /\ cur' = CursorsClosed(FALSE)
  /\ pghead' = (IF Top > 1 THEN txns[Top].head0 ELSE {})
  /\ pglast' = (IF Top > 1 THEN txns[Top].last0 ELSE 0)
  /\ pkeep' = Above(Top, pkeep) /\ UNCHANGED ops
Abort(i) == Ending("abort", i) /\ Dropped(Front(txns)) /\ Goes("abort", i)

(* What has failed is aborted and fails its parent. *)
Poisoned(s) == IF s = <<>> THEN s ELSE [s EXCEPT ![Len(s)].error = TRUE]
CommitFailed(i) ==
  /\ Ending("commit", i) /\ txns[Top].error
  /\ Dropped(Poisoned(Front(txns))) /\ Goes("abort", i)

(* No memory for the parent's free list: the parent is as it was. *)
CommitNoMemory(i) ==
  /\ Ending("commit", i) /\ ~txns[Top].error /\ Top > 1 /\ "free" \in Faults
  /\ Dropped(Front(txns)) /\ Goes("abort", i)

(* The lists of a child go into its parent's. *)
MergedDirty(p, t) ==
  [q \in (DOMAIN p.dirty \ t.spill) \cup DOMAIN t.dirty |->
     IF q \in DOMAIN t.dirty THEN t.dirty[q] ELSE p.dirty[q]]
MergedSpill(p, t) == (p.spill \ DOMAIN t.dirty) \cup t.spill
MergedInto(p, t) ==
  [t EXCEPT !.dirty = MergedDirty(p, t), !.spill = MergedSpill(p, t),
            !.free  = [q \in Pgs |-> p.free[q] + t.free[q]],
            !.loose = p.loose \o t.loose, !.head0 = p.head0, !.last0 = p.last0]
KeptMerged(t) ==
  Above(Top - 1, pkeep)
    \cup {<<Top - 1, p>> : p \in {q \in Pgs \ t.spill :
            <<IF q \in DOMAIN t.dirty THEN Top ELSE Top - 1, q>> \in pkeep}}
CommitChild(i) ==
  /\ Ending("commit", i) /\ ~txns[Top].error /\ Top > 1
  /\ Becomes(Append(SubSeq(txns, 1, Top - 2), MergedInto(txns[Top - 1], txns[Top])), file, meta)
  /\ cur' = CursorsClosed(TRUE) /\ pkeep' = KeptMerged(txns[Top])
  /\ Goes("commit", i) /\ UNCHANGED <<pghead, pglast, ops>>

(* No memory for the spill list: merged but for it, the parent has failed. *)
Half(p, t) ==
  [MergedInto(p, t) EXCEPT !.error = TRUE, !.spill = p.spill \ DOMAIN t.dirty]
CommitHalf(i) ==
  /\ Ending("commit", i) /\ ~txns[Top].error /\ Top > 1 /\ "spill" \in Faults
  /\ txns[Top].spill # {} /\ txns[Top - 1].spill # {}
  /\ Becomes(Append(SubSeq(txns, 1, Top - 2), Half(txns[Top - 1], txns[Top])), file, meta)
  /\ cur' = CursorsClosed(TRUE) /\ pkeep' = KeptMerged(txns[Top])
  /\ Goes("abort", i) /\ UNCHANGED <<pghead, pglast, ops>>

(* The outermost commit: mdb_page_flush, which passes over what has P_KEEP, *)
(* and the new meta page.                                                   *)
CommitTop ==
  /\ Ending("commit", 1) /\ ~txns[Top].error /\ Top = 1
  /\ Becomes(<<>>, Flushed(file, {p \in DOMAIN txns[1].dirty : <<1, p>> \notin pkeep}),
             txns[1].root)
  /\ pghead' = {} /\ pglast' = 0 /\ pkeep' = {}
  /\ cur' = CursorsClosed(FALSE) /\ ending' = <<>> /\ UNCHANGED ops
------------------------------------------------------------------------------
(* The outermost transaction as mdb_txn_renew0 leaves it. *)
Stored(v) ==
  [p \in Pgs |->
     IF p = HomeRoot THEN Branch([n \in Nodes |-> IF n \in DOMAIN Home THEN Home[n] ELSE NoPage])
     ELSE IF p = Home[BigNode] THEN Leaf(v, HomeBig)
     ELSE IF p \in Range(Home) \cup {HomeBig} THEN Leaf(v, NoPage) ELSE Blank]
Outermost ==
  [error |-> FALSE, spills |-> FALSE, root |-> HomeRoot, dirty |-> <<>>, spill |-> {},
   free |-> [p \in Pgs |-> 0], loose |-> <<>>, room |-> DirtyMax, next |-> NextPgno,
   head0 |-> {}, last0 |-> 0]
Init ==
  /\ txns = <<Outermost>> /\ pghead = {} /\ pglast = 0
  /\ file = Stored(CHOOSE v \in Vals : TRUE) /\ meta = HomeRoot
  /\ sees = Images(txns, file, meta)
  /\ cur = [c \in Cursors |-> Closed] /\ pkeep = {}
  /\ ending = <<>> /\ ops = 0

Operation ==
  \/ \E n \in Tree, v \in Vals : Put(n, v)
  \/ \E v \in Vals : PutBig(v)
  \/ DelBig
  \/ \E n \in Tree, m \in Nodes \ Tree, v \in Vals : Split(n, m, v)
  \/ \E d, k \in Tree, v \in Vals : \E n \in {d, k} : Merge(n, d, k, v)
  \/ \E n \in Tree : SpillFails(n)
UseCursor ==
  \E c \in Cursors : OpenCursor(c) \/ CloseCursor(c) \/ \E n \in Tree : Position(c, n)
End ==
  \/ \E i \in Levels : Abort(i) \/ CommitFailed(i) \/ CommitNoMemory(i) \/ CommitChild(i) \/ CommitHalf(i)
  \/ CommitTop
Next == Operation \/ UseCursor \/ Begin \/ End
Spec == Init /\ [][Next]_vars
------------------------------------------------------------------------------
HeadOf(i) == IF i = Top THEN pghead ELSE txns[i + 1].head0
LastOf(i) == IF i = Top THEN pglast ELSE txns[i + 1].last0
Sound(i)  == \A j \in 1..i : ~txns[j].error

TypeOK ==
  /\ Top <= MaxLevel /\ meta \in Pgs /\ pghead \subseteq Pgs /\ pglast \in 0..Len(Records)
  /\ \A i \in 1..Top :
       LET t == txns[i] IN
       /\ t.error \in BOOLEAN /\ t.spills \in BOOLEAN
       /\ {t.root} \cup Held(t) \cup t.head0 \cup ToSet(t.loose) \subseteq Pgs
       /\ t.room \in 0..DirtyMax /\ t.next \in NextPgno..MaxPg
       /\ t.last0 \in 0..Len(Records) /\ \A p \in Pgs : t.free[p] \in Nat
  /\ \A c \in Cursors :
       LET r == cur[c] IN
       /\ r.own \in 0..Top /\ r.at \in Nodes \cup {NoNode}
       /\ Len(r.backup) < IF Open(c) THEN r.own ELSE 1
       /\ {r.root, r.leaf} \subseteq (0..Top) \X (Pgs \cup {NoPage})
  /\ pkeep \subseteq (1..Top) \X Pgs
  /\ ending = <<>> \/ ending \in {"commit", "abort"} \X (1..Top)

(* The room of a transaction's dirty list is what its and its ancestors'    *)
(* dirty pages leave, a page of both counted once and what the child wrote  *)
(* early not at all: mdb_txn_commit takes the length of the merged list     *)
(* from it and asserts that the merge ends there.                           *)
DirtyRoomExact ==
  \A i \in 1..Top : Sound(i) =>
    txns[i].room = DirtyMax - Cardinality({p \in Pgs : Where(txns, i, p) > 0})

(* At every level, as it is and as it would be again if its children        *)
(* aborted, each page below mt_next_pgno is in the tree, freed, loose, in   *)
(* me_pghead or in a record not yet read: in one of them, once.             *)
Unread(i)  == UNION {Records[k] : k \in (LastOf(i) + 1)..Len(Records)}
Freed(i)   == {p \in Pgs : \E j \in 1..i : txns[j].free[p] > 0}
LooseTo(i) == UNION {ToSet(txns[j].loose) : j \in 1..i}
Once(i) ==
  LET kids == Kids(txns, i, file)
      leaves == Range(kids) \ {NoPage}
      ov     == [p \in leaves |-> Page(txns, i, file, p).ov]
      uses   == <<{txns[i].root}, leaves, Range(ov) \ {NoPage}, HeadOf(i), Unread(i),
                  Freed(i), LooseTo(i)>>
  IN /\ UNION Range(uses) = 2..(txns[i].next - 1)
     /\ \A a, b \in 1..7 : uses[a] \cap uses[b] # {} => a = b
     /\ \A m, n \in Nodes : kids[m] = kids[n] => m = n \/ kids[m] = NoPage
     /\ \A p, q \in leaves : ov[p] = ov[q] => p = q \/ ov[p] = NoPage
     /\ \A j, k \in 1..i :
          /\ \A p \in Freed(i) :
               txns[j].free[p] > 0 /\ txns[k].free[p] > 0 => j = k /\ txns[j].free[p] = 1
          /\ \A a \in DOMAIN txns[j].loose, b \in DOMAIN txns[k].loose :
               txns[j].loose[a] = txns[k].loose[b] => j = k /\ a = b
PagesOnce == TypeOK /\ \A i \in 1..Top : Sound(i) => Once(i)

(* A cursor points to the pages that its transaction finds on the way to    *)
(* its leaf, never to a copy that was freed or written early; and so will   *)
(* the cursor a parent gets back if the child aborts.                       *)
PointsRight(r, i) ==
  r.at # NoNode /\ Sound(i) =>
    LET leaf == Kids(txns, i, file)[r.at]
    IN /\ r.root = <<Where(txns, i, txns[i].root), txns[i].root>>
       /\ leaf # NoPage /\ r.leaf = <<Where(txns, i, leaf), leaf>>
CursorsOnTree ==
  \A c \in Cursors : Open(c) =>
    /\ PointsRight(cur[c], cur[c].own)
    /\ \A k \in DOMAIN cur[c].backup :
         PointsRight(cur[c].backup[k], cur[c].own - Len(cur[c].backup) + k - 1)

(* Each open transaction sees the image it should, whatever its children    *)
(* have written to the map; what is stored changes at the outermost commit, *)
(* to its image if no early write that failed has left P_KEEP on a page.    *)
Promise == INSTANCE NestedStore WITH
  Keys <- Nodes, stored <- sees.stored, stack <- sees.stack, cutoff <- pkeep # {}
ImplementsNestedStore == Promise!Spec
==============================================================================
