--------------------------------- MODULE BTree ---------------------------------
(***************************************************************************)
(* The B+tree of one database of a write transaction and the cursors open  *)
(* on it (src/libraries/lmdb-dll/mdb.c): search, insertion with page       *)
(* splits, deletion with moves, merges and the collapse of the root, and   *)
(* the adjustment of every other cursor's stack of pages and indices.      *)
(*                                                                         *)
(* One action is one call of the API: a transaction belongs to one thread. *)
(* The calls are operators on a record s with the pages, the cursors (the  *)
(* temporary ones of the call included) and the set of those the           *)
(* transaction tracks.  Page numbers are names: at the end of a call they  *)
(* are dealt out again in the order of a walk.  Writability of pages (page *)
(* touch) is MDBTxn's subject.                                             *)
(***************************************************************************)
EXTENDS Integers, FiniteSets, SequencesExt

CONSTANTS Keys,           \* numbers from 1
          Vals,
          Pairs,          \* the entries the program stores
          NodeHeader, KeySize, ValSize, \* the room they take on a page
          Cap,            \* the room of a page
          FillThreshold,  \* in thousandths of Cap
          Cursors,        \* the program's cursors, model values
          MaxDepth,       \* a bound on the stacks (32 in the code)
          MaxIndex        \* a bound on the index of a cursor past a page's end

(* A page has room for two entries or three branches: nodes of over half a *)
(* page go to overflow pages, which are left out, and me_maxkey bounds keys.*)
ASSUME SizesAssumption ==
  /\ Keys \subseteq Nat \ {0} /\ Pairs \subseteq Keys \X Vals
  /\ \A k \in Keys : KeySize[k] \in Nat \ {0} /\ 3 * NodeHeader + 2 * KeySize[k] <= Cap
  /\ \A e \in Pairs : 2 * (NodeHeader + KeySize[e[1]] + ValSize[e[2]]) <= Cap
  /\ {NodeHeader, Cap} \subseteq Nat /\ FillThreshold \in 0..1000

VARIABLES db,   \* the pages, and the record of the database
          cur,  \* the cursors
          call  \* the call just made and its result
vars == <<db, cur, call>>

NullKey == 0                \* the empty key of a branch page's first node
HighKey == 1 + Max(Keys)    \* above every key: MDB_PS_LAST
NoPage  == 0
Levels  == 0..MaxDepth

LeafSize(k, v) == NodeHeader + KeySize[k] + ValSize[v]
BranchSize(k)  == NodeHeader + (IF k = NullKey THEN 0 ELSE KeySize[k])
NodeSize(p, nd) == IF p.leaf THEN LeafSize(nd.key, nd.val) ELSE BranchSize(nd.key)
RECURSIVE SizeOf(_, _)
SizeOf(p, n)   == IF n = <<>> THEN 0 ELSE NodeSize(p, Head(n)) + SizeOf(p, Tail(n))
Room(p)        == Cap - SizeOf(p, p.n)
PageFill(p)    == (1000 * SizeOf(p, p.n)) \div Cap

Closed == [pg |-> [l \in Levels |-> NoPage], ki |-> [l \in Levels |-> 0],
           snum |-> 0, top |-> 0, init |-> FALSE, eof |-> FALSE, del |-> FALSE]

TopPage(m)    == m.pg[m.top]
TopIndex(m)   == m.ki[m.top]
NumKeys(s, p) == Len(s.pages[p].n)
TopKeys(s, m) == NumKeys(s, TopPage(m))
Node(s, p, i) == s.pages[p].n[i + 1]
------------------------------------------------------------------------------
(* Positioning a cursor m: a record [m, rc]. *)
Found(m)    == [m |-> m, rc |-> "ok"]
NotFound(m) == [m |-> m, rc |-> "notfound"]
Index(m, i) == [m EXCEPT !.ki[m.top] = i]

(* mdb_node_search: on a leaf the first key not below k, on a branch page   *)
(* the child that has k (keys are in order, a branch page's first is empty).*)
LowerBound(s, p, k) == Cardinality({i \in 0..(NumKeys(s, p) - 1) : Node(s, p, i).key < k})
ChildIndex(s, p, k) == Cardinality({i \in 1..(NumKeys(s, p) - 1) : Node(s, p, i).key <= k})

RECURSIVE SearchRoot(_, _, _)
SearchRoot(s, m, k) ==
  IF s.pages[TopPage(m)].leaf THEN [m EXCEPT !.init = TRUE, !.eof = FALSE]
  ELSE LET i    == ChildIndex(s, TopPage(m), k)
           stay == k = HighKey /\ m.init /\ TopIndex(m) = i \* already on the last branch
           push == [m EXCEPT !.ki[m.top] = i, !.top = m.snum, !.snum = @ + 1]
       IN SearchRoot(s, IF stay THEN push
                        ELSE [push EXCEPT !.pg[m.snum] = Node(s, TopPage(m), i).pg,
                                          !.ki[m.snum] = 0], k)

PageSearch(s, m, k) ==
  IF s.root = NoPage THEN NotFound(m)
  ELSE Found(SearchRoot(s, [m EXCEPT !.pg[0] = s.root, !.snum = 1, !.top = 0], k))

RECURSIVE Refill(_, _, _, _)
Refill(s, m, l, right) ==
  IF l > m.top THEN m
  ELSE LET p == Node(s, m.pg[l - 1], m.ki[l - 1]).pg IN
       Refill(s, [m EXCEPT !.pg[l] = p, !.ki[l] = IF right THEN 0 ELSE NumKeys(s, p) - 1],
              l + 1, right)

Sibling(s, m, right) ==
  LET turns == {l \in 0..(m.top - 1) : IF right THEN m.ki[l] + 1 < NumKeys(s, m.pg[l])
                                                ELSE m.ki[l] > 0} IN
  IF turns = {} THEN NotFound(m)
  ELSE LET l == Max(turns) IN
       Found(Refill(s, [m EXCEPT !.ki[l] = IF right THEN @ + 1 ELSE @ - 1], l + 1, right))

CursorFirst(s, m) ==
  LET r == IF ~m.init \/ m.top # 0 THEN PageSearch(s, m, NullKey) ELSE Found(m) IN
  IF r.rc # "ok" THEN r ELSE Found([Index(r.m, 0) EXCEPT !.init = TRUE, !.eof = FALSE])

CursorLast(s, m) ==
  LET r == IF ~m.init \/ m.top # 0 THEN PageSearch(s, m, HighKey) ELSE Found(m) IN
  IF r.rc # "ok" THEN r
  ELSE Found([Index(r.m, TopKeys(s, r.m) - 1) EXCEPT !.init = TRUE, !.eof = TRUE])

CursorNext(s, m) ==
  IF ~m.init THEN CursorFirst(s, m)
  ELSE IF m.eof /\ TopIndex(m) >= TopKeys(s, m) - 1 THEN NotFound(m)
  ELSE LET m1 == [m EXCEPT !.eof = FALSE] IN
       IF m1.del THEN Found([m1 EXCEPT !.del = FALSE])
       ELSE IF TopIndex(m1) + 1 < TopKeys(s, m1) THEN Found(Index(m1, TopIndex(m1) + 1))
       ELSE LET r == Sibling(s, m1, TRUE) IN
            IF r.rc = "ok" THEN r ELSE NotFound([m1 EXCEPT !.eof = TRUE])

CursorPrev(s, m) ==
  LET r == IF m.init THEN Found(m) ELSE CursorLast(s, m) IN
  IF r.rc # "ok" THEN r
  ELSE LET m1 == [Index(r.m, TopIndex(r.m) + IF m.init THEN 0 ELSE 1)
                    EXCEPT !.eof = FALSE, !.del = FALSE] IN
       IF TopIndex(m1) > 0 THEN Found(Index(m1, TopIndex(m1) - 1))
       ELSE Sibling(s, m1, FALSE)

(* On the right leaf: exact (MDB_SET) or the first key not below k. *)
SetOnLeaf(s, m, k, exact) ==
  LET i  == LowerBound(s, TopPage(m), k)
      on == i < TopKeys(s, m)
      m1 == Index(m, i)
      r  == IF on THEN Found(m1) ELSE Sibling(s, m1, TRUE)
  IN IF exact /\ ~(on /\ Node(s, TopPage(m), i).key = k) THEN NotFound(m1)
     ELSE IF r.rc = "ok" THEN Found([r.m EXCEPT !.init = TRUE, !.eof = FALSE])
     ELSE NotFound([m1 EXCEPT !.eof = TRUE])

CursorSet(s, m, k, exact) ==
  LET n      == TopKeys(s, m)
      key(i) == Node(s, TopPage(m), i).key
      set(i) == Found([Index(m, i) EXCEPT !.eof = FALSE])
      search == LET r == PageSearch(s, m, k) IN
                IF r.rc = "ok" THEN SetOnLeaf(s, r.m, k, exact) ELSE r
  IN IF ~m.init THEN search
     ELSE IF n = 0 THEN NotFound(Index(m, 0))
     ELSE IF k = key(0) THEN set(0)
     ELSE IF k > key(0) /\ n > 1 /\ k = key(n - 1) THEN set(n - 1)
     ELSE IF k > key(0) /\ n > 1 /\ k < key(n - 1)  \* this is the right page
       THEN IF TopIndex(m) < n /\ k = key(Min({TopIndex(m), n - 1}))
            THEN set(TopIndex(m))
            ELSE SetOnLeaf(s, [m EXCEPT !.eof = FALSE], k, exact)
     ELSE IF k > key(0) /\ \A l \in 0..(m.top - 1) : m.ki[l] >= NumKeys(s, m.pg[l]) - 1
       THEN NotFound(Index(m, n))                     \* there are no other pages
     ELSE IF m.top = 0 THEN IF exact THEN NotFound(Index(m, 0)) ELSE set(0)
     ELSE search
------------------------------------------------------------------------------
(* Changing pages and cursors.  The fix-up loops go over the tracked cursors. *)
FixOthers(s, c, Fix(_)) ==
  [s EXCEPT !.cur = [x \in DOMAIN @ |-> IF x \in s.trk \ {c} THEN Fix(@[x]) ELSE @[x]]]

NewId(s)           == Min((0..10) \ DOMAIN s.cur)  \* a temporary cursor
WithCursor(s, c, m) == [s EXCEPT !.cur = [x \in DOMAIN @ \cup {c} |-> IF x = c THEN m ELSE @[x]]]
Forget(s, c)       == [s EXCEPT !.cur = Restrict(@, DOMAIN @ \ {c}), !.trk = @ \ {c}]
Track(s, c)        == [s EXCEPT !.trk = @ \cup {c}]
Popped(m)          == [m EXCEPT !.snum = @ - 1, !.top = @ - 1]

NewPgno(s) == Min(1..(Cardinality(DOMAIN s.pages) + 1) \ DOMAIN s.pages)
PageNew(s, p, leaf) ==
  [s EXCEPT !.pages = [q \in DOMAIN @ \cup {p} |-> IF q = p THEN [leaf |-> leaf, n |-> <<>>] ELSE @[q]],
            !.leafs = IF leaf THEN @ + 1 ELSE @, !.branches = IF leaf THEN @ ELSE @ + 1]
PageFree(s, p) == [s EXCEPT !.pages = Restrict(@, DOMAIN @ \ {p})]

NodeAdd(s, c, i, nd) ==
  LET p == TopPage(s.cur[c]) IN
  [s EXCEPT !.pages[p].n = InsertAt(@, i + 1, nd),
            !.ok = @ /\ NodeSize(s.pages[p], nd) <= Room(s.pages[p])]  \* MDB_PAGE_FULL
NodeDel(s, c) ==
  LET m == s.cur[c] IN [s EXCEPT !.pages[TopPage(m)].n = RemoveAt(@, TopIndex(m) + 1)]

RECURSIVE LowestKey(_, _)
LowestKey(s, p) == IF s.pages[p].leaf THEN Node(s, p, 0).key
                   ELSE LowestKey(s, Node(s, p, 0).pg)

(* Where to split: the halves must fit, a new last entry starts the right one. *)
SplitIndex(p, new, nd) ==
  LET n     == Len(p.n)
      half  == (n + 1) \div 2
      all   == InsertAt(p.n, new + 1, nd)
      upto(i) == SizeOf(p, SubSeq(all, 1, i + 1))
      from(i) == SizeOf(p, SubSeq(all, i + 1, n + 1))
      k     == IF new >= n THEN n ELSE half + 1 + IF p.leaf THEN 1 ELSE 0
  IN IF new <= half \/ new >= n
     THEN Min({i \in 0..(k - 1) : upto(i) > Cap} \cup {k - 1})
     ELSE 1 + Max({i \in half..n : from(i) > Cap} \cup {half})

(* The levels below l follow another cursor's. *)
Follow(m, o, l) == [m EXCEPT !.pg = [x \in Levels |-> IF x < l THEN o.pg[x] ELSE m.pg[x]],
                             !.ki = [x \in Levels |-> IF x < l THEN o.ki[x] ELSE m.ki[x]]]

(* A new root above: the stack moves down one level. *)
PushedDown(m, pp, used) ==
  [m EXCEPT !.pg = [l \in Levels |-> IF l = 0 THEN pp ELSE IF l <= used THEN m.pg[l - 1] ELSE m.pg[l]],
            !.ki = [l \in Levels |-> IF l = 0 THEN 0 ELSE IF l <= used THEN m.ki[l - 1] ELSE m.ki[l]],
            !.snum = @ + 1, !.top = @ + 1]

(* The page under cursor c is split and nd inserted at its index; how:     *)
(* "insert", "replace" (nd's predecessor has been deleted) or "append".    *)
(* A root first gets a parent.                                             *)
WithParent(s, c) ==
  LET m  == s.cur[c]
      pp == NewPgno(s)
  IN IF m.top > 0 THEN s
     ELSE [PageNew(s, pp, FALSE) EXCEPT
             !.pages[pp].n = <<[key |-> NullKey, pg |-> TopPage(m)]>>,
             !.root = pp, !.depth = @ + 1, !.cur[c] = PushedDown(m, pp, m.snum)]

(* What a split knows: pages mp and rp, the nodes, where they part, the    *)
(* cursor t of rp, whether the parent is full, the old depth if mp was root.*)
SplitOf(s, c, nd, how, newroot) ==
  LET m   == s.cur[c]
      old == s.pages[TopPage(m)]
      all == InsertAt(old.n, TopIndex(m) + 1, nd)
      at  == IF how = "append" THEN TopIndex(m) ELSE SplitIndex(old, TopIndex(m), nd)
  IN [c |-> c, t |-> NewId(s), mp |-> TopPage(m), rp |-> NewPgno(s), old |-> old, new |-> TopIndex(m),
      how |-> how, all |-> all, at |-> at, newroot |-> newroot,
      full |-> Room(s.pages[m.pg[m.top - 1]]) < BranchSize(all[at + 1].key)]

(* m's index has left the parent it shared with mn. *)
OffParent(s, m, mn) == LET up == m.top - 1 IN
  mn.pg[up] # m.pg[up] /\ m.ki[up] >= NumKeys(s, m.pg[up])
LeftSide(s, m, mn) == LET up == m.top - 1 IN
  IF ~OffParent(s, m, mn) THEN m
  ELSE IF mn.ki[up] > 0 THEN [Follow(m, mn, m.top) EXCEPT !.ki[up] = mn.ki[up] - 1]
  ELSE Sibling(s, Follow(m, mn, m.top), FALSE).m
RightSide(s, m, mn) == IF OffParent(s, m, mn) THEN Follow(m, mn, m.top) ELSE m

(* The inserting cursor ends on the new node. *)
OnNewNode(s, m, mn, w) ==
  IF w.how = "append"
  THEN [m EXCEPT !.pg[m.top] = w.rp,
                 !.ki = [l \in Levels |-> IF l < m.top THEN mn.ki[l] ELSE IF l = m.top THEN 0 ELSE @[l]]]
  ELSE IF w.new < w.at THEN [m EXCEPT !.pg[m.top] = w.mp, !.ki[m.top] = w.new]
  ELSE RightSide(s, [m EXCEPT !.pg[m.top] = w.rp, !.ki[m.top] = w.new - w.at, !.ki[m.top - 1] = @ + 1], mn)

Divide(s, w) ==
  LET left  == SubSeq(w.all, 1, w.at)
      right == SubSeq(w.all, w.at + 1, Len(w.all))
  IN [s EXCEPT !.pages[w.mp].n = left,
               !.pages[w.rp].n = IF w.old.leaf THEN right ELSE [right EXCEPT ![1].key = NullKey],
               !.cur[w.c] = OnNewNode(s, LeftSide(s, @, s.cur[w.t]), s.cur[w.t], w),
               !.ok = @ /\ SizeOf(w.old, left) <= Cap /\ SizeOf(w.old, right) <= Cap]

(* The other cursors: mn is t's cursor, mc that of the insertion. *)
Lifted(m, mc, w) ==
  IF w.newroot = 0 THEN m
  ELSE [PushedDown(m, mc.pg[0], w.newroot + 1) EXCEPT !.ki[0] = IF m.ki[0] >= w.at THEN 1 ELSE 0]
Shifted(m, mc, mn, w) ==
  LET top == mc.top
      i   == m.ki[top] + IF m.ki[top] >= w.new /\ w.how # "replace" THEN 1 ELSE 0
  IN IF m.top >= top /\ m.pg[top] = w.mp
     THEN IF i < w.at THEN [m EXCEPT !.ki[top] = i]
          ELSE Follow([m EXCEPT !.pg[top] = w.rp, !.ki[top] = i - w.at], mn, top)
     ELSE IF /\ ~w.full /\ m.top >= top - 1 /\ m.pg[top - 1] = mc.pg[top - 1]
             /\ m.ki[top - 1] >= mc.ki[top - 1]
       THEN [m EXCEPT !.ki[top - 1] = @ + 1]
     ELSE m
(* Mutant: the stacks of others do not grow with the tree. *)
SplitFixFlat(m, mc, mn, w) == IF ~m.init THEN m ELSE Shifted(m, mc, mn, w)
SplitFix(m, mc, mn, w) ==
  IF ~m.init \/ (w.newroot > 0 /\ m.pg[0] # w.mp) THEN m ELSE Shifted(Lifted(m, mc, w), mc, mn, w)
FixSplit(s, w) ==
  FixOthers(Forget(s, w.t), w.c, LAMBDA m : SplitFix(m, s.cur[w.c], s.cur[w.t], w))

RECURSIVE PageSplit(_, _, _, _)
(* The separator of rp goes into the parent, which may split in its turn.  *)
AddSeparator(s, w) ==
  LET m   == s.cur[w.c]
      sep == [key |-> w.all[w.at + 1].key, pg |-> w.rp]
      s1  == WithCursor(s, w.t, Popped([m EXCEPT !.pg[m.top] = w.rp, !.ki[m.top - 1] = @ + 1]))
  IN IF w.full THEN PageSplit(Track(s1, w.t), w.t, sep, "insert")
     ELSE NodeAdd(s1, w.t, m.ki[m.top - 1] + 1, sep)
SplitInto(s, w) == FixSplit(Divide(AddSeparator(PageNew(s, w.rp, w.old.leaf), w), w), w)
SplitBelow(s, c, nd, how, newroot) == SplitInto(s, SplitOf(s, c, nd, how, newroot))
PageSplit(s, c, nd, how) ==
  SplitBelow(WithParent(s, c), c, nd, how, IF s.cur[c].top = 0 THEN s.depth ELSE 0)

(* A branch node's key changes; if it has grown too large the page splits. *)
UpdateKey(s, c, k) ==
  LET m  == s.cur[c]
      nd == Node(s, TopPage(m), TopIndex(m))
  IN IF BranchSize(k) - BranchSize(nd.key) > Room(s.pages[TopPage(m)])
     THEN PageSplit(NodeDel(s, c), c, [nd EXCEPT !.key = k], "replace")
     ELSE [s EXCEPT !.pages[TopPage(m)].n[TopIndex(m) + 1].key = k]

(* The separator of c's page, and the empty key of a branch page's node 0, *)
(* when the node at c's index has become the first of the page.            *)
SeparatorAbove(s, c) ==
  LET m == s.cur[c]
      t == NewId(s)
  IN IF m.ki[m.top - 1] = 0 THEN s
     ELSE Forget(UpdateKey(Track(WithCursor(s, t, Popped(m)), t), t, Node(s, TopPage(m), 0).key), t)
EmptyFirst(s, c) == IF s.pages[TopPage(s.cur[c])].leaf THEN s ELSE UpdateKey(s, c, NullKey)
(* Mutant: the key above is left as it was. *)
UpdateSeparatorLate(s, c) == IF TopIndex(s.cur[c]) # 0 THEN s ELSE EmptyFirst(s, c)
UpdateSeparator(s, c) ==
  IF TopIndex(s.cur[c]) # 0 THEN s ELSE EmptyFirst(SeparatorAbove(s, c), c)

(* The other cursors when a node moves from src's page to dst's. *)
MoveFix(s, src, dst, fromleft) ==
  LET a == s.cur[src]
      b == s.cur[dst]
      t == a.top
      bump(m) == IF m.pg[t] = b.pg[t] /\ m.ki[t] >= b.ki[t] THEN [m EXCEPT !.ki[t] = @ + 1] ELSE m
      carry(m, step) == [m EXCEPT !.pg[t] = TopPage(b), !.ki[t] = TopIndex(b), !.ki[t - 1] = @ + step]
      left(x) == LET m == IF x = dst THEN s.cur[x] ELSE bump(s.cur[x]) IN
                 IF x # src /\ m.pg[t] = a.pg[t] /\ m.ki[t] = a.ki[t] THEN carry(m, 1) ELSE m
      right(x) == LET m == s.cur[x] IN
                  IF x = src \/ m.pg[t] # a.pg[t] THEN m
                  ELSE IF m.ki[t] = 0 THEN carry(m, -1) ELSE [m EXCEPT !.ki[t] = @ - 1]
  IN [s EXCEPT !.cur = [x \in DOMAIN @ |->
        IF x \notin s.trk \/ ~@[x].init \/ @[x].top < t THEN @[x]
        ELSE IF fromleft THEN left(x) ELSE right(x)]]

NodeMove(s, src, dst, fromleft) ==
  LET a   == s.cur[src]
      b   == s.cur[dst]
      sp  == TopPage(a)
      dp  == TopPage(b)
      key == IF ~s.pages[sp].leaf /\ TopIndex(a) = 0 THEN LowestKey(s, sp)
             ELSE Node(s, sp, TopIndex(a)).key
      t   == NewId(s)
      s1  == IF s.pages[dp].leaf \/ TopIndex(b) # 0 THEN s
             ELSE Forget(UpdateKey(WithCursor(s, t, b), t, LowestKey(s, dp)), t)
      s2  == NodeDel(NodeAdd(s1, dst, TopIndex(b), [Node(s, sp, TopIndex(a)) EXCEPT !.key = key]), src)
  IN UpdateSeparator(UpdateSeparator(MoveFix(s2, src, dst, fromleft), src), dst)

RebalanceRoot(s, c) ==
  LET m     == s.cur[c]
      p     == m.pg[0]
      depth == s.depth - 1
      reset(x) == [x EXCEPT !.snum = 0, !.top = 0, !.init = FALSE]
      shift(x, from) == [x EXCEPT
         !.pg = [l \in Levels |-> IF l \in from..(depth - 1) THEN x.pg[l + 1] ELSE x.pg[l]],
         !.ki = [l \in Levels |-> IF l \in from..(depth - 1) THEN x.ki[l + 1] ELSE x.ki[l]]]
  IN IF NumKeys(s, p) = 0
     THEN FixOthers([PageFree(s, p) EXCEPT !.root = NoPage, !.depth = 0, !.leafs = 0, !.cur[c] = reset(m)],
                    c, LAMBDA x : IF x.init /\ x.pg[0] = p THEN reset(x) ELSE x)
     ELSE IF ~s.pages[p].leaf /\ NumKeys(s, p) = 1
     THEN FixOthers([PageFree(s, p) EXCEPT
                       !.root = Node(s, p, 0).pg, !.depth = depth, !.branches = @ - 1,
                       !.cur[c] = [shift(m, 1) EXCEPT !.pg[0] = Node(s, p, 0).pg, !.ki[0] = m.ki[1]]],
                    c, LAMBDA x : IF x.init /\ x.pg[0] = p THEN Popped(shift(x, 0)) ELSE x)
     ELSE s

MergeFix(m, a, b, nk) ==
  LET t == a.top IN
  IF m.snum < a.snum THEN m
  ELSE IF m.pg[t] = TopPage(a)
    THEN [m EXCEPT !.pg[t] = TopPage(b), !.ki[t] = @ + nk, !.ki[t - 1] = b.ki[t - 1]]
  ELSE IF m.pg[t - 1] = a.pg[t - 1] /\ m.ki[t - 1] > a.ki[t - 1]
    THEN [m EXCEPT !.ki[t - 1] = @ - 1]
  ELSE m

(* All nodes of a's page go to the end of b's, and a's page is freed. *)
MergeNodes(s, a, b) ==
  LET t     == a.top
      old   == s.pages[TopPage(a)]
      moved == IF old.leaf THEN old.n ELSE [old.n EXCEPT ![1].key = LowestKey(s, TopPage(a))]
      all   == s.pages[TopPage(b)].n \o moved
      rest  == RemoveAt(s.pages[a.pg[t - 1]].n, a.ki[t - 1] + 1)
  IN PageFree([s EXCEPT !.pages[TopPage(b)].n = all,
                        !.pages[a.pg[t - 1]].n = IF a.ki[t - 1] > 0 THEN rest
                                                 ELSE [rest EXCEPT ![1].key = NullKey],
                        !.leafs = IF old.leaf THEN @ - 1 ELSE @,
                        !.branches = IF old.leaf THEN @ ELSE @ - 1,
                        !.ok = @ /\ SizeOf(old, all) <= Cap], TopPage(a))

RECURSIVE Rebalance(_, _)
(* A merge leaves the parent to be rebalanced; the depth may shrink. *)
Risen(s, dst, lag) == [s EXCEPT !.cur[dst].snum = s.depth + lag, !.cur[dst].top = s.depth + lag - 1]
PageMerge(s, src, dst) ==
  LET a  == s.cur[src]
      b  == s.cur[dst]
      s1 == FixOthers(MergeNodes(s, a, b), src, LAMBDA m : MergeFix(m, a, b, NumKeys(s, TopPage(b))))
  IN Risen(Rebalance([s1 EXCEPT !.cur[dst] = Popped(@)], dst), dst, b.snum - s.depth)

MinKeys(p) == IF p.leaf THEN 1 ELSE 2
Threshold(p) == IF p.leaf THEN FillThreshold ELSE 1

(* Cursor t on the neighbour of c's page, at the node to take or the place to give one. *)
AtNeighbour(s, c, t, fromleft) ==
  LET m  == s.cur[c]
      up == m.top - 1
      ni == m.ki[up] + IF fromleft THEN -1 ELSE 1
      np == Node(s, m.pg[up], ni).pg
  IN [WithCursor(s, t, [m EXCEPT !.pg[m.top] = np, !.ki[up] = ni,
                                 !.ki[m.top] = IF fromleft THEN NumKeys(s, np) - 1 ELSE 0])
        EXCEPT !.cur[c].ki[m.top] = IF fromleft THEN 0 ELSE TopKeys(s, m),
               !.ok = @ /\ NumKeys(s, m.pg[up]) > 1]

(* c's page went into t's: mdb_cursor_copy(&mn, mc). *)
CopyBack(s, c, t) == LET back == s.cur[t] IN
  [s EXCEPT !.cur[c] = [Follow(@, back, back.snum) EXCEPT
                          !.snum = back.snum, !.top = back.top, !.init = back.init, !.del = back.del]]
AtIndex(s, c, i, eof) == [s EXCEPT !.cur[c] = [Index(@, i) EXCEPT !.eof = @ /\ eof]]

(* The neighbour gives a node if it has enough, and is merged with if not. *)
Level(s, c, t, fromleft, i) ==
  LET n == s.pages[TopPage(s.cur[t])]
      m == s.cur[t]
  IN IF PageFill(n) >= Threshold(n) /\ Len(n.n) > MinKeys(n)
     THEN AtIndex(NodeMove(s, t, c, fromleft), c, i + (IF fromleft THEN 1 ELSE 0), TRUE)
     ELSE IF fromleft
     THEN AtIndex(CopyBack(PageMerge(Track([s EXCEPT !.cur[t].ki[m.top] = @ + 1], t), c, t), c, t),
                  c, i + Len(n.n), FALSE)
     ELSE AtIndex(PageMerge(s, t, c), c, i, FALSE)

Rebalance(s, c) ==
  LET m        == s.cur[c]
      p        == s.pages[TopPage(m)]
      fromleft == m.ki[m.top - 1] > 0
      t        == NewId(s)
  IN IF PageFill(p) >= Threshold(p) /\ Len(p.n) >= MinKeys(p) THEN s
     ELSE IF m.snum < 2 THEN RebalanceRoot(s, c)
     ELSE Forget(Level(AtNeighbour(s, c, t, fromleft), c, t, fromleft, TopIndex(m)), t)

(* The cursors on the deleted entry's page, before and after rebalancing. *)
DelFix(x, m) ==
  IF ~x.init \/ x.snum < m.snum \/ x.pg[m.top] # TopPage(m) THEN x
  ELSE IF x.ki[m.top] = TopIndex(m) THEN [x EXCEPT !.del = TRUE]
  ELSE IF x.ki[m.top] > TopIndex(m) THEN [x EXCEPT !.ki[m.top] = @ - 1]
  ELSE x

PastEndFix(s, x, m) ==
  LET r == Sibling(s, x, TRUE) IN
  IF \/ ~x.init \/ x.snum < m.snum \/ x.pg[m.top] # TopPage(m)
     \/ x.ki[m.top] < Max({TopIndex(m), TopKeys(s, m)}) THEN x
  ELSE IF r.rc = "ok" THEN r.m ELSE [x EXCEPT !.eof = TRUE]

PastEnd(s, c) ==
  IF s.cur[c].snum = 0 THEN s
  ELSE [s EXCEPT !.cur = [x \in DOMAIN @ |->
          LET y == IF x \in s.trk THEN PastEndFix(s, @[x], s.cur[c]) ELSE @[x] IN
          IF x = c THEN [y EXCEPT !.del = TRUE] ELSE y]]

CursorDel0(s, c) ==
  LET m  == s.cur[c]
      s1 == [NodeDel(s, c) EXCEPT !.entries = @ - 1]
  IN PastEnd(Rebalance(FixOthers(s1, c, LAMBDA x : DelFix(x, m)), c), c)
------------------------------------------------------------------------------
(* Storing (k, v) with cursor c: [s, rc]. *)
(* Mutant: the entry at the place of the insertion is taken to stay. *)
AddFixBehind(x, m) ==
  IF x.snum < m.snum \/ x.pg[m.top] # TopPage(m) \/ x.ki[m.top] <= TopIndex(m) THEN x
  ELSE [x EXCEPT !.ki[m.top] = @ + 1]
AddFix(x, m) ==
  IF x.snum < m.snum \/ x.pg[m.top] # TopPage(m) \/ x.ki[m.top] < TopIndex(m) THEN x
  ELSE [x EXCEPT !.ki[m.top] = @ + 1]

Insert(s, c, nd, how) ==
  LET m == s.cur[c] IN
  IF NodeSize(s.pages[TopPage(m)], nd) > Room(s.pages[TopPage(m)]) THEN PageSplit(s, c, nd, how)
  ELSE LET s1 == NodeAdd(s, c, TopIndex(m), nd) IN
       IF how = "replace" THEN s1 ELSE FixOthers(s1, c, LAMBDA x : AddFix(x, m))

PutPosition(s, m, k, flag) ==
  IF flag = "current" THEN Found(m)
  ELSE IF s.root = NoPage THEN [m |-> [m EXCEPT !.snum = 0, !.top = 0, !.init = FALSE], rc |-> "noroot"]
  ELSE IF flag # "append" THEN CursorSet(s, m, k, TRUE)
  ELSE LET r == CursorLast(s, m) IN
       IF k > Node(s, TopPage(r.m), TopIndex(r.m)).key
       THEN NotFound(Index(r.m, TopIndex(r.m) + 1))
       ELSE [m |-> r.m, rc |-> "keyexist"]

NewRoot(s, c) ==
  LET p == NewPgno(s) IN
  [PageNew(s, p, TRUE) EXCEPT !.root = p, !.depth = @ + 1,
     !.cur[c] = [@ EXCEPT !.pg[0] = p, !.ki[0] = 0, !.snum = 1, !.top = 0, !.init = TRUE]]

Store(s, c, nd, flag, r) ==
  LET s1  == [s EXCEPT !.cur[c] = [r.m EXCEPT !.del = FALSE]]
      s2  == IF r.rc = "noroot" THEN NewRoot(s1, c) ELSE s1
      old == Node(s, TopPage(r.m), TopIndex(r.m))
  IN IF r.rc # "ok"
     THEN [Insert(s2, c, nd, IF flag = "append" THEN "append" ELSE "insert") EXCEPT
             !.entries = @ + 1, !.cur[c].init = TRUE]
     ELSE IF ValSize[old.val] = ValSize[nd.val]
     THEN [s1 EXCEPT !.pages[TopPage(r.m)].n[TopIndex(r.m) + 1].val = nd.val]
     ELSE Insert(NodeDel(s1, c), c, nd, "replace")

PutAt(s, c, nd, flag, r) ==
  IF r.rc = "keyexist" \/ (r.rc = "ok" /\ flag = "nooverwrite")
  THEN [s |-> [s EXCEPT !.cur[c] = r.m], rc |-> "keyexist"]
  ELSE [s |-> Store(s, c, nd, flag, r), rc |-> "ok"]
CursorPut(s, c, k, v, flag) ==
  PutAt(s, c, [key |-> k, val |-> v], flag, PutPosition(s, s.cur[c], k, flag))
------------------------------------------------------------------------------
(* The end of a call: temporary cursors go, pages get their numbers, and   *)
(* what a stack holds above its height, or one of a cursor that is not     *)
(* positioned, is dropped: it is never read.                               *)
RECURSIVE Walk(_, _, _)
Walk(pages, nodes, height) ==
  IF nodes = <<>> \/ height = 0 \/ Head(nodes).pg \notin DOMAIN pages THEN <<>>
  ELSE LET p == Head(nodes).pg IN
       <<p>> \o (IF pages[p].leaf THEN <<>> ELSE Walk(pages, pages[p].n, height - 1))
             \o Walk(pages, Tail(nodes), height)
Tree(pages, root) == Walk(pages, <<[pg |-> root]>>, MaxDepth + 1)

(* In the order of a walk; a page that is not in the tree comes last.      *)
Numbering(s) == LET tree == Tree(s.pages, s.root)
                    lost == DOMAIN s.pages \ Range(tree)
                IN IF lost = {} THEN tree ELSE tree \o SetToSeq(lost)

Kept(m, pgno(_)) == IF ~m.init THEN Closed
                    ELSE [m EXCEPT !.pg = [l \in Levels |-> IF l < m.snum THEN pgno(m.pg[l]) ELSE NoPage],
                                   !.ki = [l \in Levels |-> IF l < m.snum THEN m.ki[l] ELSE 0]]

Named(s, all, result) ==
  LET pgno(p) == IF p \in DOMAIN s.pages THEN CHOOSE i \in DOMAIN all : all[i] = p ELSE NoPage
      page(p) == IF p.leaf THEN p ELSE [p EXCEPT !.n = [i \in DOMAIN @ |-> [@[i] EXCEPT !.pg = pgno(@)]]]
  IN /\ cur' = [c \in Cursors |-> Kept(s.cur[c], pgno)]
     /\ \A c \in Cursors, l \in Levels : cur'[c].ki[l] <= MaxIndex
     /\ db' = [pages |-> [i \in DOMAIN all |-> page(s.pages[all[i]])],
               root |-> pgno(s.root), depth |-> s.depth, leafs |-> s.leafs, branches |-> s.branches,
               entries |-> s.entries, ok |-> s.ok]
     /\ call' = result
Settle(s, result) ==
  Named(s, IF DOMAIN s.pages = DOMAIN db.pages THEN [p \in DOMAIN s.pages |-> p] ELSE Numbering(s), result)

Now == [pages |-> db.pages, root |-> db.root, depth |-> db.depth, leafs |-> db.leafs,
        branches |-> db.branches, entries |-> db.entries, ok |-> db.ok, cur |-> cur, trk |-> Cursors]
Mdb     == 0  \* the cursor mdb_put and mdb_del make for themselves
WithMdb == Track(WithCursor(Now, Mdb, Closed), Mdb)

Result(op, c, rc)      == [op |-> op, c |-> c, rc |-> rc]
ResultK(op, c, k, rc)  == [op |-> op, c |-> c, k |-> k, rc |-> rc]
PutResult(c, k, v, flag, rc) == [op |-> "put", c |-> c, k |-> k, v |-> v, flag |-> flag, rc |-> rc]

Init == /\ db = [pages |-> <<>>, root |-> NoPage, depth |-> 0, leafs |-> 0, branches |-> 0,
                 entries |-> 0, ok |-> TRUE]
        /\ cur = [c \in Cursors |-> Closed]
        /\ call = [op |-> "init"]

(* mdb_cursor_get: every operation clears the mark of a deletion. *)
Get(c, r, result) == /\ cur' = [cur EXCEPT ![c] = Kept([r.m EXCEPT !.del = FALSE], LAMBDA p : p)]
                     /\ call' = result
                     /\ UNCHANGED db
GetFirst(c) == LET r == CursorFirst(Now, cur[c]) IN Get(c, r, Result("first", c, r.rc))
GetLast(c)  == LET r == CursorLast(Now, cur[c])  IN Get(c, r, Result("last", c, r.rc))
GetNext(c)  == LET r == CursorNext(Now, cur[c])  IN Get(c, r, Result("next", c, r.rc))
GetPrev(c)  == LET r == CursorPrev(Now, cur[c])  IN Get(c, r, Result("prev", c, r.rc))
GetCurrent(c) ==
  LET n == TopKeys(Now, cur[c])
      r == IF ~cur[c].init THEN [m |-> cur[c], rc |-> "einval"]
           ELSE IF TopIndex(cur[c]) >= n THEN NotFound(Index(cur[c], n)) ELSE Found(cur[c])
  IN Get(c, r, Result("current", c, r.rc))
GetSet(c, k)   == LET r == CursorSet(Now, cur[c], k, TRUE)  IN Get(c, r, ResultK("set", c, k, r.rc))
GetRange(c, k) == LET r == CursorSet(Now, cur[c], k, FALSE) IN Get(c, r, ResultK("range", c, k, r.rc))

(* mdb_put, with a cursor of its own *)
MdbPut(k, v, flag) ==
  LET r == CursorPut(WithMdb, Mdb, k, v, flag) IN
  Settle(Forget(r.s, Mdb), PutResult(Mdb, k, v, flag, r.rc))

(* mdb_cursor_put; MDB_CURRENT is for the entry the cursor stands on. *)
Put(c, k, v, flag) ==
  LET r == CursorPut(Now, c, k, v, flag) IN
  /\ flag = "current" =>
       /\ cur[c].init /\ TopIndex(cur[c]) < TopKeys(Now, cur[c])
       /\ Node(Now, TopPage(cur[c]), TopIndex(cur[c])).key = k
  /\ Settle(r.s, PutResult(c, k, v, flag, r.rc))

(* mdb_del *)
MdbDel(k) ==
  LET r == CursorSet(WithMdb, Closed, k, TRUE) IN
  Settle(Forget(IF r.rc # "ok" THEN WithMdb ELSE CursorDel0([WithMdb EXCEPT !.cur[Mdb] = r.m], Mdb), Mdb),
         ResultK("del", Mdb, k, r.rc))

(* mdb_cursor_del *)
CursorDel(c) ==
  LET on == cur[c].init /\ TopIndex(cur[c]) < TopKeys(Now, cur[c]) IN
  Settle(IF on THEN CursorDel0(Now, c) ELSE Now,
         Result("cursor_del", c, IF on THEN "ok" ELSE IF cur[c].init THEN "notfound" ELSE "einval"))

(* mdb_drop that keeps the database: its pages go, its cursors are reset. *)
MdbDrop ==
  Settle([Now EXCEPT !.pages = Restrict(@, DOMAIN @ \ Range(Tree(db.pages, db.root))),
                     !.root = NoPage, !.depth = 0, !.leafs = 0, !.branches = 0, !.entries = 0,
                     !.cur = [c \in Cursors |-> [cur[c] EXCEPT !.init = FALSE, !.eof = FALSE]]],
         [op |-> "drop", c |-> Mdb, rc |-> "ok"])

(* mdb_cursor_close and mdb_cursor_open *)
Reopen(c) == Settle([Now EXCEPT !.cur[c] = Closed], Result("open", c, "ok"))

Next == \/ \E e \in Pairs :
             \/ \E flag \in {"insert", "append"} : MdbPut(e[1], e[2], flag)
             \/ \E c \in Cursors, flag \in {"insert", "nooverwrite", "current"} :
                  Put(c, e[1], e[2], flag)
        \/ \E k \in Keys : MdbDel(k)
        \/ MdbDrop
        \/ \E c \in Cursors :
             \/ GetFirst(c) \/ GetLast(c) \/ GetNext(c) \/ GetPrev(c) \/ GetCurrent(c)
             \/ CursorDel(c) \/ Reopen(c)
             \/ \E k \in Keys : GetSet(c, k) \/ GetRange(c, k)

Spec == Init /\ [][Next]_vars
------------------------------------------------------------------------------
Pgnos == DOMAIN db.pages

(* The cursors' stacks and the counters keep their types, and no call ends *)
(* with a full page or a parent without a second child.                    *)
TypeOK ==
  /\ db.ok /\ db.root \in Pgnos \cup {NoPage} /\ db.depth \in 0..MaxDepth
  /\ \A c \in Cursors : /\ cur[c].pg \in [Levels -> Pgnos \cup {NoPage}]
                        /\ cur[c].ki \in [Levels -> Nat]
                        /\ cur[c].snum \in 0..MaxDepth /\ cur[c].top = Max({0, cur[c].snum - 1})

RECURSIVE Ordered(_, _, _, _)
Ordered(p, low, high, height) ==
  LET n      == db.pages[p].n
      key(i) == IF i = 1 THEN low ELSE IF i > Len(n) THEN high ELSE n[i].key
  IN /\ p \in Pgnos /\ db.pages[p].leaf = (height = 1)
     /\ SizeOf(db.pages[p], n) <= Cap
     /\ IF height = 1
        THEN Len(n) >= 1 /\ \A i \in 1..Len(n) : n[i].key >= key(i) /\ n[i].key < key(i + 1)
        ELSE /\ Len(n) >= 2 /\ n[1].key = NullKey
             /\ \A i \in 1..Len(n) : key(i) < key(i + 1) /\ Ordered(n[i].pg, key(i), key(i + 1), height - 1)

(* What mdb_audit counts: every page of the database is in the tree once,  *)
(* and the record of the database counts its leaves, branches and entries. *)
PagesCounted ==
  LET tree == Tree(db.pages, db.root)
      leaf == {p \in Pgnos : db.pages[p].leaf}
  IN /\ Range(tree) = Pgnos /\ Len(tree) = Cardinality(Pgnos)
     /\ db.leafs = Cardinality(leaf) /\ db.branches = Cardinality(Pgnos \ leaf)
     /\ db.entries = FoldSet(LAMBDA p, sum : sum + Len(db.pages[p].n), 0, leaf)

(* Every key is where a search looks for it: in order on its page, between *)
(* the separators above it, all leaves at the depth of the database        *)
(* record, no page too full, none empty, no branch with a single child;    *)
(* and the pages are those that the record of the database counts.         *)
TreeOK ==
  /\ TypeOK /\ PagesCounted
  /\ IF db.root = NoPage THEN db.depth = 0 ELSE Ordered(db.root, 0, HighKey, db.depth)

(* What mdb_cursor_chk asks: the pages of a positioned cursor's stack are  *)
(* a path of the tree, its indices lead along it to a leaf, and an index   *)
(* past the page's end is only left by a failed search or at the very end. *)
CursorsFollow ==
  \A c \in Cursors : LET m == cur[c] IN m.init =>
    /\ m.snum = db.depth /\ m.pg[0] = db.root
    /\ \A l \in 0..(m.top - 1) : /\ m.ki[l] < NumKeys(db, m.pg[l])
                                 /\ Node(db, m.pg[l], m.ki[l]).pg = m.pg[l + 1]
    /\ m.del /\ TopIndex(m) >= TopKeys(db, m) => m.eof /\ Sibling(db, m, TRUE).rc # "ok"
------------------------------------------------------------------------------
(* The promise: a map in key order, cursors that stay where they are.      *)
Entries == UNION {Range(db.pages[p].n) : p \in {q \in Pgnos : db.pages[q].leaf}}
Stored  == [k \in {nd.key : nd \in Entries} |-> (CHOOSE nd \in Entries : nd.key = k).val]
Where(m) ==
  IF ~m.init THEN [s |-> "none", k |-> 0, eof |-> m.eof]
  ELSE IF TopIndex(m) < TopKeys(db, m)
    THEN [s |-> IF m.del THEN "before" ELSE "on", k |-> Node(db, TopPage(m), TopIndex(m)).key, eof |-> m.eof]
  ELSE IF TopIndex(m) > TopKeys(db, m) \/ Sibling(db, m, TRUE).rc = "ok" THEN [s |-> "past", k |-> 0, eof |-> m.eof]
  ELSE [s |-> "before", k |-> HighKey, eof |-> m.eof]

Map == INSTANCE OrderedMap WITH dict <- Stored, at <- [c \in Cursors |-> Where(cur[c])]
(* Whatever pages split, merge or give entries away, each call does to the *)
(* map what it says, and every other cursor keeps its entry, or the gap of *)
(* its entry once that is deleted.                                         *)
ImplementsOrderedMap == Map!Spec
==============================================================================
