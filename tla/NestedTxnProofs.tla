---------------------------- MODULE NestedTxnProofs ----------------------------
(***************************************************************************)
(* Proofs about NestedTxn: the room of the dirty lists is exact, every     *)
(* page has one use at every level, the cursors stay on the tree, and      *)
(* nested transactions keep the promise of NestedStore.                    *)
(*                                                                         *)
(* The inductive invariant IInv says of each transaction that has not      *)
(* failed that there is a tree D it finds (Shows) and that its lists fit D *)
(* (ListsOK): its dirty and spilled pages are apart, the room is what the  *)
(* dirty pages of its chain leave, each page has one use, and whatever it  *)
(* holds or can get was free for those around it (Within).  That last part *)
(* is what makes an early write safe and an abort harmless, and no         *)
(* property says it.  The cursors, those put aside too, point to the pages *)
(* their level finds; what is stored stays until the outermost commit.     *)
(*                                                                         *)
(* The parts, in their order: the levels and where a page is found; how    *)
(* each change of the lists keeps them right; the same for the steps of a  *)
(* call (mdb_page_alloc, mdb_page_touch, mdb_page_spill, mdb_ovpage_free   *)
(* and so on); whole calls; cursors; the end and the beginning of a        *)
(* transaction; the properties; the refinement.                            *)
(***************************************************************************)
EXTENDS NestedTxn, WellFoundedInduction, FiniteSetTheorems, SequenceTheorems, TLAPS

(***************************************************************************)
(* What the variables hold.                                                *)
(***************************************************************************)
Opt     == Pgs \cup {NoPage}
PageT   == [kids : [Nodes -> Opt], val : Vals \cup {NoVal}, ov : Opt]
Files   == [Pgs -> PageT]
Dirties == UNION {[D -> PageT] : D \in SUBSET Pgs}
Lasts   == 0..Len(Records)
Txn     == [error : BOOLEAN, spills : BOOLEAN, root : Pgs, dirty : Dirties,
            spill : SUBSET Pgs, free : [Pgs -> Nat], loose : Seq(Pgs),
            room : 0..DirtyMax, next : NextPgno..MaxPg, head0 : SUBSET Pgs, last0 : Lasts]
Spots(i) == (0..i) \X Opt
Spot     == Nat \X Opt
Place    == [at : Nodes \cup {NoNode}, root : Spot, leaf : Spot]
Cursor   == [own : Nat, at : Nodes \cup {NoNode}, root : Spot, leaf : Spot, backup : Seq(Place)]

(***************************************************************************)
(* What the first i transactions of s hold, see in their dirty lists, have *)
(* loose and have freed.                                                   *)
(***************************************************************************)
SeenTo(s, i)  == {p \in Pgs : Where(s, i, p) > 0}
HeldTo(s, i)  == UNION {Held(s[j]) : j \in 1..i}
LooseIn(s, i) == UNION {ToSet(s[j].loose) : j \in 1..i}
FreedIn(s, i) == {p \in Pgs : \E j \in 1..i : s[j].free[p] > 0}

(* The pages that mdb_page_alloc has to give.                              *)
UnreadAfter(l)    == UNION {Records[k] : k \in (l + 1)..Len(Records)}
From(n)           == {p \in Pgs : p >= n}
FreshIn(h, l, n)  == h \cup UnreadAfter(l) \cup From(n)
(* Those the k-th transaction would have, should the one in it abort; the  *)
(* 0-th is what is stored.                                                 *)
NextAt(s, k)  == IF k = 0 THEN NextPgno ELSE s[k].next
FreshAt(s, k) == FreshIn(s[k + 1].head0, s[k + 1].last0, NextAt(s, k))

(***************************************************************************)
(* The lists of t, the i-th transaction of s, with me_pghead h and         *)
(* me_pglast l, when the pages T are in use by the tree.                   *)
(***************************************************************************)
Apart(t) == DOMAIN t.dirty \cap t.spill = {}

Seen(t, V) == (DOMAIN t.dirty \ t.spill) \cup (V \ Held(t))
RoomOK(s, i, t) == t.room = DirtyMax - Cardinality(Seen(t, SeenTo(s, i - 1)))

LooseOK(s, i, t) ==
  /\ ToSet(t.loose) \subseteq DOMAIN t.dirty
  /\ \A a, b \in DOMAIN t.loose : t.loose[a] = t.loose[b] => a = b
  /\ LooseIn(s, i - 1) \cap Held(t) = {}

FreeOK(s, i, t) ==
  \A p \in Pgs : t.free[p] > 0 => t.free[p] = 1 /\ p \notin FreedIn(s, i - 1)

OneOf(a, b, c, d, e, f) ==
  /\ a \/ b \/ c \/ d \/ e \/ f
  /\ a => ~b /\ ~c /\ ~d /\ ~e /\ ~f
  /\ b => ~c /\ ~d /\ ~e /\ ~f
  /\ c => ~d /\ ~e /\ ~f
  /\ d => ~e /\ ~f
  /\ e => ~f
UseOK(s, i, t, h, l, T) ==
  \A p \in Pgs : OneOf(p \in T, p \in h, p \in UnreadAfter(l),
                       t.free[p] > 0 \/ p \in FreedIn(s, i - 1),
                       p \in ToSet(t.loose) \/ p \in LooseIn(s, i - 1), p \in From(t.next))

FreshOK(s, i, t, h, l) ==
  FreshIn(h, l, t.next) \cap (Held(t) \cup HeldTo(s, i - 1)) = {}

(* Whatever t has got or can get, those around it had not in use.          *)
Within(s, i, t, h, l) ==
  \A k \in 0..(i - 1) :
    /\ FreshIn(h, l, t.next) \subseteq FreshAt(s, k)
    /\ Held(t) \subseteq FreshAt(s, k) \cup HeldTo(s, k)

ListsOK(s, i, t, h, l, T) ==
  /\ Apart(t) /\ RoomOK(s, i, t) /\ LooseOK(s, i, t) /\ FreeOK(s, i, t)
  /\ UseOK(s, i, t, h, l, T) /\ FreshOK(s, i, t, h, l) /\ Within(s, i, t, h, l)

(***************************************************************************)
(* A tree: its root, the page of each node, what the leaves hold, the      *)
(* overflow page and what that holds.                                      *)
(***************************************************************************)
Trees == [r : Pgs, k : [Nodes -> Opt], c : [Nodes -> Vals \cup {NoVal}],
          o : Opt, b : Vals \cup {NoVal}]
PagesIn(D)  == ({D.r, D.o} \cup {D.k[n] : n \in Nodes}) \ {NoPage}
WellMade(D) ==
  /\ D \in Trees /\ BigNode \in Nodes /\ D.k[BigNode] # NoPage /\ D.o # D.r
  /\ \A m, n \in Nodes : D.k[m] = D.k[n] => m = n \/ D.k[m] = NoPage
  /\ \A n \in Nodes : D.k[n] # D.r /\ (D.k[n] # NoPage => D.k[n] # D.o /\ D.c[n] \in Vals)
Shows(D, s, i, f) ==
  /\ Page(s, i, f, D.r).kids = D.k
  /\ \A n \in Nodes : D.k[n] # NoPage =>
       /\ Page(s, i, f, D.k[n]).val = D.c[n]
       /\ Page(s, i, f, D.k[n]).ov = IF n = BigNode THEN D.o ELSE NoPage
  /\ D.o # NoPage => Page(s, i, f, D.o).val = D.b

(* The i-th transaction of s has the tree D.                               *)
LevelOK(s, f, h, l, i, D) ==
  /\ WellMade(D) /\ D.r = s[i].root /\ Shows(D, s, i, f)
  /\ ListsOK(s, i, s[i], h, l, PagesIn(D))

PointsAt(v, s, i, f) ==
  IF v.at = NoNode THEN v.leaf = NotAt
  ELSE LET leaf == Kids(s, i, f)[v.at]
       IN /\ v.root = <<Where(s, i, s[i].root), s[i].root>>
          /\ leaf # NoPage /\ v.leaf = <<Where(s, i, leaf), leaf>>

(***************************************************************************)
(* The inductive invariant.                                                *)
(***************************************************************************)
Stacked ==
  /\ txns \in Seq(Txn) /\ Top <= MaxLevel
  /\ \A i \in 1..(Top - 1) : ~txns[i].error
  /\ Top > 0 => txns[1].head0 = {} /\ txns[1].last0 = 0
Types ==
  /\ Stacked
  /\ pghead \in SUBSET Pgs /\ pglast \in Lasts /\ file \in Files /\ meta \in Pgs
  /\ cur \in [Cursors -> Cursor]
  /\ ending = <<>> \/ ending \in {"commit", "abort"} \X (1..Top)
LevelsOK ==
  \A i \in 1..Top : ~txns[i].error =>
    \E D \in Trees : LevelOK(txns, file, HeadOf(i), LastOf(i), i, D)

(* What is stored stays, until the outermost commit.                       *)
StoredOK ==
  Top > 0 => /\ meta = HomeRoot
             /\ \E f \in {Stored(CHOOSE v \in Vals : TRUE)} : \A p \in HomeTree : file[p] = f[p]

LevelOf(r, k) == Top - Len(r.backup) + k - 1
CursorOK(c) ==
  LET r == cur[c] IN
  /\ r.own = 0 => r = Closed
  /\ r.own > 0 => r.own = Top /\ Len(r.backup) < Top
  /\ r.root \in Spots(Top) /\ r.leaf \in Spots(Top)
  /\ \A k \in DOMAIN r.backup :
       /\ r.backup[k].root \in Spots(LevelOf(r, k)) /\ r.backup[k].leaf \in Spots(LevelOf(r, k))
       /\ PointsAt(r.backup[k], txns, LevelOf(r, k), file)
  /\ r.own > 0 /\ ~txns[Top].error => PointsAt(r, txns, Top, file)
CursorsOK == \A c \in Cursors : CursorOK(c)
Seeing == sees = Images(txns, file, meta)

IInv == Types /\ LevelsOK /\ StoredOK /\ CursorsOK /\ Seeing

-----------------------------------------------------------------------------
(* Where a page is found. *)

(* The largest and the smallest of a set of numbers.                       *)
LEMMA MaxIn ==
    ASSUME NEW n \in Nat, NEW S \in SUBSET (1..n), S # {}
    PROVE  Max(S) \in S /\ \A y \in S : Max(S) >= y
  <1> DEFINE U == {k \in Nat : n - k \in S /\ k <= n}
  <1>1. U \subseteq Nat /\ U # {}
    <2>1. PICK y \in S : TRUE
      OBVIOUS
    <2>2. y \in 1..n /\ n - y \in Nat /\ n - (n - y) = y /\ n - y <= n
      BY <2>1
    <2>3. n - y \in U
      BY <2>2, <2>1
    <2> QED
      BY <2>3
  <1>2. PICK k \in U : \A j \in U : ~(<<j, k>> \in OpToRel(<, Nat))
    <2> HIDE DEF U
    <2> QED
      BY <1>1, WFMin, NatLessThanWellFounded, Zenon
  <1>3. k \in Nat /\ n - k \in S /\ k <= n
    BY <1>2
  <1>4. ASSUME NEW y \in S
        PROVE  n - k >= y
    <2>1. y \in 1..n /\ n - y \in Nat /\ n - (n - y) = y /\ n - y <= n
      BY <1>4
    <2>2. n - y \in U
      BY <2>1, <1>4
    <2>3. ~(n - y < k)
      BY <2>2, <1>2, <2>1, <1>3 DEF OpToRel
    <2> QED
      BY <2>3, <2>1, <1>3
  <1>5. \E x \in S : \A y \in S : x >= y
    BY <1>3, <1>4
  <1> QED
    BY <1>5 DEF Max

LEMMA MinIn ==
    ASSUME NEW S \in SUBSET Nat, S # {}
    PROVE  Min(S) \in S
  <1>1. PICK k \in S : \A j \in S : ~(<<j, k>> \in OpToRel(<, Nat))
    BY WFMin, NatLessThanWellFounded, Zenon
  <1>2. \A j \in S : k <= j
    <2> TAKE j \in S
    <2>1. ~(j < k) /\ j \in Nat /\ k \in Nat
      BY <1>1 DEF OpToRel
    <2> QED
      BY <2>1
  <1>3. \E x \in S : \A y \in S : x =< y
    BY <1>1, <1>2
  <1> QED
    BY <1>3 DEF Min

(* Where and Page of the i-th transaction, from those of the one around it. *)
LEMMA WhereStep ==
    ASSUME NEW s, NEW i \in Nat, i > 0, NEW p
    PROVE  Where(s, i, p) = IF p \in s[i].spill THEN 0
                            ELSE IF p \in DOMAIN s[i].dirty THEN i
                            ELSE Where(s, i - 1, p)
  <1>1. Holders(s, i, p) \in SUBSET (1..i) /\ Holders(s, i - 1, p) \in SUBSET (1..i)
    BY DEF Holders
  <1>2. CASE p \in Held(s[i])
    <2>1. i \in Holders(s, i, p)
      BY <1>2 DEF Holders
    <2>2. Max(Holders(s, i, p)) \in Holders(s, i, p) /\ Max(Holders(s, i, p)) >= i
      BY <2>1, <1>1, MaxIn
    <2>3. Max(Holders(s, i, p)) = i
      <3> HIDE DEF Max
      <3> QED
      BY <2>2, <1>1
    <2> QED
      BY <2>3, <2>1, <1>2 DEF Where, Held
  <1>3. CASE p \notin Held(s[i])
    <2>1. Holders(s, i, p) = Holders(s, i - 1, p)
      <3>1. \A j \in 1..i : j = i \/ j \in 1..(i - 1)
        OBVIOUS
      <3>2. 1..(i - 1) \subseteq 1..i
        OBVIOUS
      <3> QED
        BY <1>3, <3>1, <3>2 DEF Holders
    <2> QED
      BY <2>1, <1>3 DEF Where, Held
  <1> QED
    BY <1>2, <1>3

(* The 0-th level is the map itself.                                       *)
LEMMA WhereNone ==
    ASSUME NEW s, NEW p
    PROVE  Where(s, 0, p) = 0
  BY DEF Where, Holders

LEMMA WhereType ==
    ASSUME NEW s, NEW i \in Nat, NEW p
    PROVE  /\ Where(s, i, p) \in 0..i
           /\ Where(s, i, p) > 0 => /\ p \in DOMAIN s[Where(s, i, p)].dirty
                                    /\ p \notin s[Where(s, i, p)].spill
  <1>1. Holders(s, i, p) \in SUBSET (1..i)
    BY DEF Holders
  <1>2. CASE Holders(s, i, p) = {}
    BY <1>2 DEF Where
  <1>3. CASE Holders(s, i, p) # {}
    <2>1. Max(Holders(s, i, p)) \in Holders(s, i, p)
      BY <1>1, <1>3, MaxIn
    <2>2. PICK m : m = Max(Holders(s, i, p))
      OBVIOUS
    <2>3. m \in 1..i /\ p \in Held(s[m])
      BY <2>1, <2>2 DEF Holders
    <2>4. Where(s, i, p) = IF p \in s[m].spill THEN 0 ELSE m
      BY <1>3, <2>2 DEF Where
    <2> QED
      BY <2>3, <2>4 DEF Held
  <1> QED
    BY <1>2, <1>3

(* A page that is held, and was not written early, is seen.                *)
LEMMA WhereHeld ==
    ASSUME NEW s, NEW i \in Nat, NEW p, NEW k \in 0..i, p \in HeldTo(s, k),
           \A j \in 1..i : p \notin s[j].spill
    PROVE  Where(s, i, p) > 0
  <1>1. PICK j \in 1..k : p \in Held(s[j])
    BY DEF HeldTo
  <1>2. j \in Holders(s, i, p)
    BY <1>1 DEF Holders
  <1>3. Holders(s, i, p) \in SUBSET (1..i) /\ Holders(s, i, p) # {}
    BY <1>2 DEF Holders
  <1>4. Max(Holders(s, i, p)) \in 1..i
    BY <1>3, MaxIn
  <1>5. PICK m : m = Max(Holders(s, i, p))
    OBVIOUS
  <1>6. Where(s, i, p) = m
    BY <1>3, <1>4, <1>5 DEF Where
  <1> QED
    BY <1>4, <1>5, <1>6

(* Only the first i transactions matter.                                   *)
LEMMA WhereSame ==
    ASSUME NEW s, NEW r, NEW i \in Nat,
           \A j \in 1..i : s[j].dirty = r[j].dirty /\ s[j].spill = r[j].spill
    PROVE  /\ \A p : Where(s, i, p) = Where(r, i, p)
           /\ \A f, p : Page(s, i, f, p) = Page(r, i, f, p)
  <1>1. ASSUME NEW p
        PROVE  Where(s, i, p) = Where(r, i, p)
    <2>1. Holders(s, i, p) = Holders(r, i, p)
      BY DEF Holders, Held
    <2>2. CASE Holders(s, i, p) = {}
      BY <2>1, <2>2 DEF Where
    <2>3. CASE Holders(s, i, p) # {}
      <3>1. Max(Holders(s, i, p)) \in 1..i
        <4>1. Holders(s, i, p) \in SUBSET (1..i)
          BY DEF Holders
        <4> QED
          BY <4>1, <2>3, MaxIn
      <3> QED
        BY <2>1, <2>3, <3>1 DEF Where
    <2> QED
      BY <2>2, <2>3
  <1>2. ASSUME NEW f, NEW p
        PROVE  Page(s, i, f, p) = Page(r, i, f, p)
    <2>1. Where(s, i, p) = Where(r, i, p) /\ Where(s, i, p) \in 0..i
      BY <1>1, WhereType
    <2> QED
      BY <2>1 DEF Page
  <1> QED
    BY <1>1, <1>2

LEMMA PageStep ==
    ASSUME NEW s, NEW i \in Nat, i > 0, NEW f, NEW p
    PROVE  Page(s, i, f, p) = IF p \in s[i].spill THEN f[p]
                              ELSE IF p \in DOMAIN s[i].dirty THEN s[i].dirty[p]
                              ELSE Page(s, i - 1, f, p)
  <1>1. Where(s, i, p) = IF p \in s[i].spill THEN 0
                         ELSE IF p \in DOMAIN s[i].dirty THEN i
                         ELSE Where(s, i - 1, p)
    BY WhereStep
  <1>2. Where(s, i - 1, p) \in 0..(i - 1)
    BY WhereType
  <1> QED
    BY <1>1, <1>2 DEF Page

LEMMA PageNone ==
    ASSUME NEW s, NEW f, NEW p
    PROVE  Page(s, 0, f, p) = f[p]
  BY WhereNone DEF Page

-----------------------------------------------------------------------------
(* The lists: what each elementary step of a call does to them. *)

(* Page numbers, and the records of the freeDB.                            *)
LEMMA PgsFinite == IsFiniteSet(Pgs) /\ Pgs \subseteq Nat /\ NoPage \notin Pgs
  <1>1. MaxPg \in Nat
    BY BoundsAssumption
  <1>2. IsFiniteSet(2..(MaxPg - 1))
    BY <1>1, FS_Interval
  <1> QED
    BY <1>1, <1>2 DEF Pgs, NoPage

LEMMA RecordsFacts ==
    /\ Len(Records) \in Nat
    /\ \A l \in Lasts : UnreadAfter(l) \subseteq Pgs \ From(NextPgno)
    /\ \A l \in Lasts : l < Len(Records) =>
         /\ l + 1 \in Lasts
         /\ Records[l + 1] \subseteq Pgs /\ Records[l + 1] # {}
         /\ UnreadAfter(l) = Records[l + 1] \cup UnreadAfter(l + 1)
         /\ Records[l + 1] \cap UnreadAfter(l + 1) = {}
  <1>1. /\ Records \in Seq((SUBSET Pgs) \ {{}}) /\ NextPgno \in Nat
        /\ \A j, k \in DOMAIN Records : Records[j] \cap Records[k] # {} => j = k
        /\ HomeTree \cup UNION Range(Records) = 2..(NextPgno - 1)
    BY StoreAssumption, BoundsAssumption
  <1>2. Len(Records) \in Nat /\ DOMAIN Records = 1..Len(Records)
    BY <1>1
  <1>3. ASSUME NEW l \in Lasts
        PROVE  UnreadAfter(l) \subseteq Pgs \ From(NextPgno)
    <2> SUFFICES ASSUME NEW p \in UnreadAfter(l)
                 PROVE  p \in Pgs \ From(NextPgno)
      OBVIOUS
    <2>1. PICK k \in (l + 1)..Len(Records) : p \in Records[k]
      BY DEF UnreadAfter
    <2>2. k \in DOMAIN Records
      BY <2>1, <1>2 DEF Lasts
    <2>3. Records[k] \in SUBSET Pgs
      BY <2>2, <1>1
    <2>4. p \in UNION Range(Records)
      BY <2>2, <2>1 DEF Range
    <2>5. p \in 2..(NextPgno - 1)
      BY <2>4, <1>1
    <2> QED
      BY <2>1, <2>3, <2>5, <1>1 DEF From
  <1>4. ASSUME NEW l \in Lasts, l < Len(Records)
        PROVE  /\ l + 1 \in Lasts
               /\ Records[l + 1] \subseteq Pgs /\ Records[l + 1] # {}
               /\ UnreadAfter(l) = Records[l + 1] \cup UnreadAfter(l + 1)
               /\ Records[l + 1] \cap UnreadAfter(l + 1) = {}
    <2>1. l \in Nat /\ l + 1 \in DOMAIN Records /\ l + 1 \in Lasts
      BY <1>4, <1>2 DEF Lasts
    <2>2. Records[l + 1] \in (SUBSET Pgs) \ {{}}
      BY <2>1, <1>1
    <2>3. (l + 1)..Len(Records) = {l + 1} \cup ((l + 1) + 1)..Len(Records)
      BY <2>1, <1>2, <1>4
    <2>4. UnreadAfter(l) = Records[l + 1] \cup UnreadAfter(l + 1)
      BY <2>3 DEF UnreadAfter
    <2>5. ASSUME NEW p \in Records[l + 1] \cap UnreadAfter(l + 1)
          PROVE  FALSE
      <3>1. PICK k \in ((l + 1) + 1)..Len(Records) : p \in Records[k]
        BY <2>5 DEF UnreadAfter
      <3>2. k \in DOMAIN Records /\ k # l + 1
        BY <3>1, <2>1, <1>2
      <3>3. Records[k] \cap Records[l + 1] # {}
        BY <3>1, <2>5
      <3> QED
        BY <3>2, <3>3, <2>1, <1>1
    <2>6. Records[l + 1] \cap UnreadAfter(l + 1) = {}
      BY <2>5
    <2>7. Records[l + 1] \subseteq Pgs /\ Records[l + 1] # {}
      BY <2>2, Zenon
    <2> QED
      BY <2>1, <2>7, <2>4, <2>6
  <1> QED
    BY <1>2, <1>3, <1>4

(* A dirty list is a function on some pages.                               *)
LEMMA DirtyType ==
    ASSUME NEW d
    PROVE  d \in Dirties <=> DOMAIN d \subseteq Pgs /\ d \in [DOMAIN d -> PageT]
  <1>1. ASSUME d \in Dirties
        PROVE  DOMAIN d \subseteq Pgs /\ d \in [DOMAIN d -> PageT]
    <2>1. PICK D \in SUBSET Pgs : d \in [D -> PageT]
      BY <1>1 DEF Dirties
    <2> QED
      BY <2>1
  <1>2. ASSUME DOMAIN d \subseteq Pgs, d \in [DOMAIN d -> PageT]
        PROVE  d \in Dirties
    BY <1>2 DEF Dirties
  <1> QED
    BY <1>1, <1>2

(* The fields of a transaction that its lists depend on.                   *)
SameLists(t, u) ==
  /\ DOMAIN u.dirty = DOMAIN t.dirty /\ u.spill = t.spill /\ u.room = t.room
  /\ u.loose = t.loose /\ u.free = t.free /\ u.next = t.next

(* Lists that are the same are as right.                                   *)
LEMMA ListsSame ==
    ASSUME NEW s, NEW i, NEW t, NEW u, NEW h, NEW l, NEW T,
           SameLists(t, u), ListsOK(s, i, t, h, l, T)
    PROVE  ListsOK(s, i, u, h, l, T)
  BY DEF SameLists, ListsOK, Apart, Seen, RoomOK, LooseOK, FreeOK, UseOK, FreshOK, Within, Held

LEMMA SeenFinite ==
    ASSUME NEW s, NEW i, NEW t, DOMAIN t.dirty \subseteq Pgs
    PROVE  /\ Seen(t, SeenTo(s, i)) \subseteq Pgs
           /\ IsFiniteSet(Seen(t, SeenTo(s, i)))
           /\ Cardinality(Seen(t, SeenTo(s, i))) \in Nat
  <1>1. Seen(t, SeenTo(s, i)) \subseteq Pgs
    BY DEF Seen, SeenTo
  <1>2. IsFiniteSet(Seen(t, SeenTo(s, i)))
    BY <1>1, PgsFinite, FS_Subset
  <1> QED
    BY <1>1, <1>2, FS_CardinalityType

(* A page of the loose list is used.                                       *)
LEMMA MoveLoose ==
    ASSUME NEW s, NEW i \in Nat \ {0}, NEW t \in Txn, NEW u \in Txn, NEW h, NEW l, NEW T,
           ListsOK(s, i, t, h, l, T), t.loose # <<>>,
           u.dirty = t.dirty, u.spill = t.spill, u.room = t.room, u.free = t.free,
           u.next = t.next, u.loose = Tail(t.loose)
    PROVE  /\ ListsOK(s, i, u, h, l, T \cup {Head(t.loose)})
           /\ Head(t.loose) \in DOMAIN t.dirty \ t.spill /\ Head(t.loose) \notin T
  <1> DEFINE x == Head(t.loose)
  <1>1. t.loose \in Seq(Pgs) /\ Len(t.loose) \in Nat /\ Len(t.loose) > 0 /\ x = t.loose[1] /\ x \in Pgs
    BY DEF Txn
  <1>2. /\ u.loose \in Seq(Pgs) /\ Len(u.loose) = Len(t.loose) - 1
        /\ \A a \in 1..(Len(t.loose) - 1) : u.loose[a] = t.loose[a + 1]
    BY <1>1
  <1>3. \A a, b \in DOMAIN t.loose : t.loose[a] = t.loose[b] => a = b
    BY DEF ListsOK, LooseOK
  <1>4. ToSet(u.loose) = ToSet(t.loose) \ {x}
    <2>1. ASSUME NEW p \in ToSet(u.loose)
          PROVE  p \in ToSet(t.loose) /\ p # x
      <3>1. PICK a \in DOMAIN u.loose : p = u.loose[a]
        BY DEF ToSet
      <3>2. a \in 1..(Len(t.loose) - 1) /\ a + 1 \in DOMAIN t.loose /\ 1 \in DOMAIN t.loose /\ a + 1 # 1
        BY <3>1, <1>1, <1>2
      <3>3. p = t.loose[a + 1]
        BY <3>1, <3>2, <1>2
      <3> QED
        BY <3>2, <3>3, <1>3, <1>1 DEF ToSet
    <2>2. ASSUME NEW p \in ToSet(t.loose), p # x
          PROVE  p \in ToSet(u.loose)
      <3>1. PICK a \in DOMAIN t.loose : p = t.loose[a]
        BY DEF ToSet
      <3>2. a \in 1..Len(t.loose) /\ a # 1
        BY <3>1, <1>1, <2>2
      <3>3. a - 1 \in 1..(Len(t.loose) - 1) /\ (a - 1) + 1 = a
        BY <3>2, <1>1
      <3>4. u.loose[a - 1] = p /\ a - 1 \in DOMAIN u.loose
        BY <3>1, <3>3, <1>2
      <3> QED
        BY <3>4 DEF ToSet
    <2> QED
      BY <2>1, <2>2
  <1>5. x \in ToSet(t.loose)
    BY <1>1 DEF ToSet
  <1>6. x \in DOMAIN t.dirty \ t.spill
    BY <1>5 DEF ListsOK, LooseOK, Apart
  <1>7. OneOf(x \in T, x \in h, x \in UnreadAfter(l),
              t.free[x] > 0 \/ x \in FreedIn(s, i - 1),
              x \in ToSet(t.loose) \/ x \in LooseIn(s, i - 1), x \in From(t.next))
    BY <1>1 DEF ListsOK, UseOK
  <1>8. x \notin T /\ x \notin LooseIn(s, i - 1)
    <2>1. x \notin T
      BY <1>7, <1>5 DEF OneOf
    <2>2. x \in Held(t)
      BY <1>6 DEF Held
    <2>3. LooseIn(s, i - 1) \cap Held(t) = {}
      BY DEF ListsOK, LooseOK
    <2> QED
      BY <2>1, <2>2, <2>3
  <1>9. LooseOK(s, i, u)
    <2>1. \A a, b \in DOMAIN u.loose : u.loose[a] = u.loose[b] => a = b
      <3> TAKE a, b \in DOMAIN u.loose
      <3> HAVE u.loose[a] = u.loose[b]
      <3>1. /\ a \in 1..(Len(t.loose) - 1) /\ b \in 1..(Len(t.loose) - 1)
            /\ a + 1 \in DOMAIN t.loose /\ b + 1 \in DOMAIN t.loose
        BY <1>1, <1>2
      <3>2. t.loose[a + 1] = t.loose[b + 1]
        BY <3>1, <1>2
      <3>3. a + 1 = b + 1
        BY <3>1, <3>2, <1>3
      <3> QED
        BY <3>1, <3>3
    <2>2. ToSet(u.loose) \subseteq DOMAIN u.dirty
      BY <1>4 DEF ListsOK, LooseOK
    <2> QED
      BY <2>1, <2>2 DEF ListsOK, LooseOK, Held
  <1>10. UseOK(s, i, u, h, l, T \cup {x})
    <2> HIDE DEF x
    <2> SUFFICES ASSUME NEW p \in Pgs
                 PROVE  OneOf(p \in T \cup {x}, p \in h, p \in UnreadAfter(l),
                              u.free[p] > 0 \/ p \in FreedIn(s, i - 1),
                              p \in ToSet(u.loose) \/ p \in LooseIn(s, i - 1), p \in From(u.next))
      BY DEF UseOK
    <2>1. OneOf(p \in T, p \in h, p \in UnreadAfter(l),
                t.free[p] > 0 \/ p \in FreedIn(s, i - 1),
                p \in ToSet(t.loose) \/ p \in LooseIn(s, i - 1), p \in From(t.next))
      BY DEF ListsOK, UseOK
    <2>2. CASE p = x
      BY <2>2, <1>7, <1>4, <1>5, <1>8 DEF OneOf
    <2>3. CASE p # x
      BY <2>3, <2>1, <1>4 DEF OneOf
    <2> QED
      BY <2>2, <2>3
  <1>11. /\ Apart(u) /\ RoomOK(s, i, u) /\ FreeOK(s, i, u) /\ FreshOK(s, i, u, h, l)
         /\ Within(s, i, u, h, l)
    BY DEF ListsOK, Apart, RoomOK, Seen, Held, FreeOK, FreshOK, Within
  <1> QED
    BY <1>6, <1>8, <1>9, <1>10, <1>11 DEF ListsOK

(* mdb_page_alloc takes a page that is not in use.                         *)
Takes(t, h, l, u, g, m, x) ==
  /\ t \in Txn /\ u \in Txn /\ x \in Pgs
  /\ x \in FreshIn(h, l, t.next)
  /\ FreshIn(g, m, u.next) = FreshIn(h, l, t.next) \ {x}
  /\ g \cap UnreadAfter(m) = {} /\ g \cap From(u.next) = {}
  /\ UnreadAfter(m) \cap From(u.next) = {}
  /\ DOMAIN u.dirty = DOMAIN t.dirty \cup {x} /\ u.spill = t.spill
  /\ u.room = t.room - 1 /\ u.loose = t.loose /\ u.free = t.free

(* mdb_page_alloc takes a page that nobody had.                            *)
LEMMA MoveFresh ==
    ASSUME NEW s, NEW i \in Nat \ {0}, NEW t, NEW u, NEW h, NEW l, NEW T, NEW g, NEW m, NEW x,
           ListsOK(s, i, t, h, l, T), Takes(t, h, l, u, g, m, x)
    PROVE  /\ ListsOK(s, i, u, g, m, T \cup {x})
           /\ x \notin T /\ x \notin Held(t) /\ x \notin HeldTo(s, i - 1)
  <1> USE DEF Takes
  <1>1. \A p \in Pgs : OneOf(p \in T, p \in h, p \in UnreadAfter(l),
                t.free[p] > 0 \/ p \in FreedIn(s, i - 1),
                p \in ToSet(t.loose) \/ p \in LooseIn(s, i - 1), p \in From(t.next))
    BY DEF ListsOK, UseOK
  <1>2. x \notin Held(t) /\ x \notin HeldTo(s, i - 1)
    BY DEF ListsOK, FreshOK
  <1>3. /\ x \notin T /\ ~(t.free[x] > 0) /\ x \notin FreedIn(s, i - 1)
        /\ x \notin ToSet(t.loose) /\ x \notin LooseIn(s, i - 1)
    BY <1>1 DEF OneOf, FreshIn
  <1>4. Held(u) = Held(t) \cup {x}
    BY DEF Held
  <1>5. UseOK(s, i, u, g, m, T \cup {x})
    <2> SUFFICES ASSUME NEW p \in Pgs
                 PROVE  OneOf(p \in T \cup {x}, p \in g, p \in UnreadAfter(m),
                              u.free[p] > 0 \/ p \in FreedIn(s, i - 1),
                              p \in ToSet(u.loose) \/ p \in LooseIn(s, i - 1), p \in From(u.next))
      BY DEF UseOK
    <2>1. /\ p \in g => p \notin UnreadAfter(m) /\ p \notin From(u.next)
          /\ p \in UnreadAfter(m) => p \notin From(u.next)
      OBVIOUS
    <2>2. CASE p = x
      <3>1. p \notin g /\ p \notin UnreadAfter(m) /\ p \notin From(u.next)
        BY <2>2 DEF FreshIn
      <3> QED
        BY <2>2, <3>1, <1>3 DEF OneOf
    <2>3. CASE p # x
      <3>1. (p \in g \/ p \in UnreadAfter(m) \/ p \in From(u.next))
              <=> (p \in h \/ p \in UnreadAfter(l) \/ p \in From(t.next))
        BY <2>3 DEF FreshIn
      <3> QED
        BY <2>1, <2>3, <3>1, <1>1 DEF OneOf
    <2> QED
      BY <2>2, <2>3
  <1>6. RoomOK(s, i, u)
    <2>1. x \notin Seen(t, SeenTo(s, i - 1))
      <3>1. Where(s, i - 1, x) = 0
        <4>1. Holders(s, i - 1, x) = {}
          BY <1>2 DEF Holders, HeldTo
        <4> QED
          BY <4>1 DEF Where
      <3> QED
        BY <3>1, <1>2 DEF Seen, SeenTo, Held
    <2>2. Seen(u, SeenTo(s, i - 1)) = Seen(t, SeenTo(s, i - 1)) \cup {x}
      <3>1. x \notin u.spill
        BY <1>2 DEF Held
      <3> QED
        BY <3>1, <1>4 DEF Seen
    <2>3. /\ IsFiniteSet(Seen(t, SeenTo(s, i - 1)))
          /\ Cardinality(Seen(t, SeenTo(s, i - 1))) \in Nat
      BY SeenFinite, DirtyType DEF Txn
    <2>4. Cardinality(Seen(u, SeenTo(s, i - 1))) = Cardinality(Seen(t, SeenTo(s, i - 1))) + 1
      BY <2>1, <2>2, <2>3, FS_AddElement
    <2>5. t.room = DirtyMax - Cardinality(Seen(t, SeenTo(s, i - 1))) /\ DirtyMax \in Nat
      BY BoundsAssumption DEF ListsOK, RoomOK
    <2> QED
      BY <2>3, <2>4, <2>5 DEF RoomOK
  <1>7. LooseOK(s, i, u)
    BY <1>3, <1>4 DEF ListsOK, LooseOK
  <1>8. FreshOK(s, i, u, g, m)
    BY <1>4 DEF ListsOK, FreshOK
  <1>9. Within(s, i, u, g, m)
    BY <1>4 DEF ListsOK, Within
  <1>10. Apart(u) /\ FreeOK(s, i, u)
    BY <1>2 DEF ListsOK, Apart, FreeOK, Held
  <1> QED
    BY <1>2, <1>3, <1>5, <1>6, <1>7, <1>8, <1>9, <1>10 DEF ListsOK

(* A page of the tree that is held already becomes dirty: mdb_page_unspill *)
(* and the copy of a parent's page.                                        *)
Regains(s, i, t, u, x) ==
  /\ t \in Txn /\ u \in Txn /\ x \in Pgs
  /\ x \notin DOMAIN t.dirty /\ x \in Held(t) \cup HeldTo(s, i - 1)
  /\ \A k \in 0..(i - 1) : x \in FreshAt(s, k) \cup HeldTo(s, k)
  /\ DOMAIN u.dirty = DOMAIN t.dirty \cup {x} /\ u.spill = t.spill \ {x}
  /\ u.room = (IF x \in Seen(t, SeenTo(s, i - 1)) THEN t.room ELSE t.room - 1)
  /\ u.loose = t.loose /\ u.free = t.free /\ u.next = t.next

(* A page of the tree is copied from an ancestor or read back.             *)
LEMMA MoveDirty ==
    ASSUME NEW s, NEW i \in Nat \ {0}, NEW t, NEW u, NEW h, NEW l, NEW T, NEW x,
           ListsOK(s, i, t, h, l, T), x \in T, Regains(s, i, t, u, x)
    PROVE  ListsOK(s, i, u, h, l, T)
  <1> USE DEF Regains
  <1>1. OneOf(x \in T, x \in h, x \in UnreadAfter(l),
                t.free[x] > 0 \/ x \in FreedIn(s, i - 1),
                x \in ToSet(t.loose) \/ x \in LooseIn(s, i - 1), x \in From(t.next))
    BY DEF ListsOK, UseOK
  <1>2. x \notin LooseIn(s, i - 1) /\ x \notin FreshIn(h, l, t.next)
    BY <1>1 DEF OneOf, FreshIn
  <1>3. Held(u) = Held(t) \cup {x}
    BY DEF Held
  <1>4. RoomOK(s, i, u)
    <2>1. Seen(u, SeenTo(s, i - 1)) = Seen(t, SeenTo(s, i - 1)) \cup {x}
      BY <1>3 DEF Seen, Held
    <2>2. /\ IsFiniteSet(Seen(t, SeenTo(s, i - 1)))
          /\ Cardinality(Seen(t, SeenTo(s, i - 1))) \in Nat
      BY SeenFinite, DirtyType DEF Txn
    <2>3. Cardinality(Seen(u, SeenTo(s, i - 1))) =
             IF x \in Seen(t, SeenTo(s, i - 1)) THEN Cardinality(Seen(t, SeenTo(s, i - 1)))
             ELSE Cardinality(Seen(t, SeenTo(s, i - 1))) + 1
      BY <2>1, <2>2, FS_AddElement
    <2>4. t.room = DirtyMax - Cardinality(Seen(t, SeenTo(s, i - 1))) /\ DirtyMax \in Nat
      BY BoundsAssumption DEF ListsOK, RoomOK
    <2> QED
      BY <2>2, <2>3, <2>4 DEF RoomOK
  <1>5. LooseOK(s, i, u)
    BY <1>2, <1>3 DEF ListsOK, LooseOK
  <1>6. FreshOK(s, i, u, h, l)
    BY <1>2, <1>3 DEF ListsOK, FreshOK
  <1>7. Within(s, i, u, h, l)
    BY <1>3 DEF ListsOK, Within
  <1>8. Apart(u) /\ FreeOK(s, i, u) /\ UseOK(s, i, u, h, l, T)
    BY DEF ListsOK, Apart, FreeOK, UseOK
  <1> QED
    BY <1>4, <1>5, <1>6, <1>7, <1>8 DEF ListsOK

(* A page of the tree goes into the free list.                             *)
Frees(t, u, x) ==
  /\ t \in Txn /\ u \in Txn /\ x \in Pgs
  /\ DOMAIN u.dirty = DOMAIN t.dirty /\ u.spill = t.spill /\ u.room = t.room
  /\ u.loose = t.loose /\ u.free = [t.free EXCEPT ![x] = @ + 1] /\ u.next = t.next

(* A page of the tree is freed.                                            *)
LEMMA MoveFree ==
    ASSUME NEW s, NEW i \in Nat \ {0}, NEW t, NEW u, NEW h, NEW l, NEW T, NEW x,
           ListsOK(s, i, t, h, l, T), x \in T, Frees(t, u, x)
    PROVE  ListsOK(s, i, u, h, l, T \ {x})
  <1> USE DEF Frees
  <1>1. \A p \in Pgs : OneOf(p \in T, p \in h, p \in UnreadAfter(l),
                t.free[p] > 0 \/ p \in FreedIn(s, i - 1),
                p \in ToSet(t.loose) \/ p \in LooseIn(s, i - 1), p \in From(t.next))
    BY DEF ListsOK, UseOK
  <1>2. ~(t.free[x] > 0) /\ x \notin FreedIn(s, i - 1)
    BY <1>1 DEF OneOf
  <1>3. t.free \in [Pgs -> Nat]
    BY DEF Txn
  <1>4. u.free[x] = 1 /\ \A p \in Pgs : p # x => u.free[p] = t.free[p]
    BY <1>2, <1>3
  <1>5. FreeOK(s, i, u)
    BY <1>2, <1>4 DEF ListsOK, FreeOK
  <1>6. UseOK(s, i, u, h, l, T \ {x})
    <2> SUFFICES ASSUME NEW p \in Pgs
                 PROVE  OneOf(p \in T \ {x}, p \in h, p \in UnreadAfter(l),
                              u.free[p] > 0 \/ p \in FreedIn(s, i - 1),
                              p \in ToSet(u.loose) \/ p \in LooseIn(s, i - 1), p \in From(u.next))
      BY DEF UseOK
    <2>1. CASE p = x
      BY <2>1, <1>1, <1>4 DEF OneOf
    <2>2. CASE p # x
      BY <2>2, <1>1, <1>4 DEF OneOf
    <2> QED
      BY <2>1, <2>2
  <1> QED
    BY <1>5, <1>6 DEF ListsOK, Apart, RoomOK, Seen, Held, LooseOK, FreshOK, Within

(* A dirty page of the tree becomes loose.                                 *)
Loosens(t, u, x) ==
  /\ t \in Txn /\ u \in Txn /\ x \in Pgs /\ x \in DOMAIN t.dirty
  /\ DOMAIN u.dirty = DOMAIN t.dirty /\ u.spill = t.spill /\ u.room = t.room
  /\ u.loose = <<x>> \o t.loose /\ u.free = t.free /\ u.next = t.next

(* A page of the tree becomes loose.                                       *)
LEMMA MoveLoosen ==
    ASSUME NEW s, NEW i \in Nat \ {0}, NEW t, NEW u, NEW h, NEW l, NEW T, NEW x,
           ListsOK(s, i, t, h, l, T), x \in T, Loosens(t, u, x)
    PROVE  ListsOK(s, i, u, h, l, T \ {x})
  <1> USE DEF Loosens
  <1>1. \A p \in Pgs : OneOf(p \in T, p \in h, p \in UnreadAfter(l),
                t.free[p] > 0 \/ p \in FreedIn(s, i - 1),
                p \in ToSet(t.loose) \/ p \in LooseIn(s, i - 1), p \in From(t.next))
    BY DEF ListsOK, UseOK
  <1>2. x \notin ToSet(t.loose) /\ x \notin LooseIn(s, i - 1)
    BY <1>1 DEF OneOf
  <1>3. t.loose \in Seq(Pgs) /\ Len(t.loose) \in Nat /\ DOMAIN t.loose = 1..Len(t.loose)
    BY DEF Txn
  <1>4. /\ DOMAIN u.loose = 1..(Len(t.loose) + 1) /\ u.loose[1] = x
        /\ \A a \in 1..Len(t.loose) : u.loose[a + 1] = t.loose[a]
    BY <1>3
  <1>5. \A a \in DOMAIN u.loose : a # 1 => a - 1 \in DOMAIN t.loose /\ u.loose[a] = t.loose[a - 1]
    <2> TAKE a \in DOMAIN u.loose
    <2> HAVE a # 1
    <2>1. a - 1 \in 1..Len(t.loose) /\ (a - 1) + 1 = a
      BY <1>3, <1>4
    <2> QED
      BY <2>1, <1>3, <1>4
  <1>6. ToSet(u.loose) = ToSet(t.loose) \cup {x}
    <2>1. ToSet(u.loose) \subseteq ToSet(t.loose) \cup {x}
      BY <1>4, <1>5 DEF ToSet
    <2>2. ASSUME NEW p \in ToSet(t.loose)
          PROVE  p \in ToSet(u.loose)
      <3>1. PICK a \in 1..Len(t.loose) : p = t.loose[a]
        BY <1>3 DEF ToSet
      <3>2. a + 1 \in DOMAIN u.loose /\ u.loose[a + 1] = p
        BY <3>1, <1>3, <1>4
      <3> QED
        BY <3>2 DEF ToSet
    <2>3. 1 \in DOMAIN u.loose
      BY <1>3, <1>4
    <2>4. x \in ToSet(u.loose)
      BY <2>3, <1>4 DEF ToSet
    <2> QED
      BY <2>1, <2>2, <2>4
  <1>7. LooseOK(s, i, u)
    <2>1. \A a, b \in DOMAIN t.loose : t.loose[a] = t.loose[b] => a = b
      BY DEF ListsOK, LooseOK
    <2>2. \A a \in DOMAIN t.loose : t.loose[a] # x
      BY <1>2 DEF ToSet
    <2>3. ASSUME NEW a \in DOMAIN u.loose, NEW b \in DOMAIN u.loose, u.loose[a] = u.loose[b]
          PROVE  a = b
      <3>1. CASE a = 1 /\ b = 1
        BY <3>1
      <3>2. CASE a = 1 /\ b # 1
        BY <3>2, <2>3, <1>4, <1>5, <2>2
      <3>3. CASE a # 1 /\ b = 1
        BY <3>3, <2>3, <1>4, <1>5, <2>2
      <3>4. CASE a # 1 /\ b # 1
        <4>1. a - 1 = b - 1
          BY <3>4, <2>3, <1>5, <2>1
        <4> QED
          BY <4>1, <1>4, <1>3
      <3> QED
        BY <3>1, <3>2, <3>3, <3>4
    <2>4. ToSet(u.loose) \subseteq DOMAIN u.dirty
      BY <1>6 DEF ListsOK, LooseOK
    <2>5. LooseIn(s, i - 1) \cap Held(u) = {}
      BY DEF ListsOK, LooseOK, Held
    <2> QED
      BY <2>3, <2>4, <2>5 DEF LooseOK
  <1>8. UseOK(s, i, u, h, l, T \ {x})
    <2> SUFFICES ASSUME NEW p \in Pgs
                 PROVE  OneOf(p \in T \ {x}, p \in h, p \in UnreadAfter(l),
                              u.free[p] > 0 \/ p \in FreedIn(s, i - 1),
                              p \in ToSet(u.loose) \/ p \in LooseIn(s, i - 1), p \in From(u.next))
      BY DEF UseOK
    <2>1. CASE p = x
      BY <2>1, <1>1, <1>6 DEF OneOf
    <2>2. CASE p # x
      BY <2>2, <1>1, <1>6 DEF OneOf
    <2> QED
      BY <2>1, <2>2
  <1> QED
    BY <1>7, <1>8 DEF ListsOK, Apart, RoomOK, Seen, Held, FreeOK, FreshOK, Within

(* mdb_ovpage_free of the outermost transaction's own page.                *)
GivesBack(t, u, x) ==
  /\ t \in Txn /\ x \in Pgs /\ x \in Held(t)
  /\ DOMAIN u.dirty = DOMAIN t.dirty \ {x} /\ u.spill = t.spill \ {x}
  /\ u.room = (IF x \in t.spill THEN t.room ELSE t.room + 1)
  /\ u.loose = t.loose /\ u.free = t.free /\ u.next = t.next

(* The outermost transaction gives a page of the tree to me_pghead.        *)
LEMMA MoveBack ==
    ASSUME NEW s, NEW t, NEW u, NEW h, NEW l, NEW T, NEW x,
           ListsOK(s, 1, t, h, l, T), x \in T, GivesBack(t, u, x)
    PROVE  ListsOK(s, 1, u, h \cup {x}, l, T \ {x}) /\ u.room \in 0..DirtyMax
  <1> USE DEF GivesBack
  <1>1. \A p \in Pgs : OneOf(p \in T, p \in h, p \in UnreadAfter(l),
                t.free[p] > 0 \/ p \in FreedIn(s, 0),
                p \in ToSet(t.loose) \/ p \in LooseIn(s, 0), p \in From(t.next))
    BY DEF ListsOK, UseOK
  <1>2. HeldTo(s, 0) = {} /\ SeenTo(s, 0) = {} /\ LooseIn(s, 0) = {} /\ FreedIn(s, 0) = {}
    BY WhereNone DEF HeldTo, SeenTo, LooseIn, FreedIn
  <1>3. Held(u) = Held(t) \ {x} /\ DOMAIN t.dirty \cap t.spill = {}
    BY DEF Held, ListsOK, Apart
  <1>4. RoomOK(s, 1, u) /\ u.room \in 0..DirtyMax
    <2>1. Seen(u, SeenTo(s, 0)) = DOMAIN u.dirty /\ Seen(t, SeenTo(s, 0)) = DOMAIN t.dirty
      BY <1>2, <1>3 DEF Seen
    <2>2. /\ IsFiniteSet(DOMAIN t.dirty)
          /\ Cardinality(DOMAIN t.dirty) \in Nat
      BY <2>1, SeenFinite, DirtyType DEF Txn
    <2>3. /\ Cardinality(DOMAIN u.dirty) =
                IF x \in DOMAIN t.dirty THEN Cardinality(DOMAIN t.dirty) - 1
                ELSE Cardinality(DOMAIN t.dirty)
      BY <2>2, FS_RemoveElement, ZenonT(60)
    <2>4. Cardinality(DOMAIN u.dirty) \in Nat
      <3>1. IsFiniteSet(DOMAIN t.dirty \ {x})
        BY <2>2, FS_RemoveElement
      <3> QED
        BY <3>1, FS_CardinalityType, Zenon
    <2>5. x \in DOMAIN t.dirty <=> x \notin t.spill
      BY <1>3 DEF Held
    <2>6. t.room = DirtyMax - Cardinality(DOMAIN t.dirty) /\ DirtyMax \in Nat
      BY <2>1, BoundsAssumption DEF ListsOK, RoomOK
    <2>7. u.room = DirtyMax - Cardinality(DOMAIN u.dirty)
      BY <2>2, <2>3, <2>5, <2>6
    <2>8. t.room \in 0..DirtyMax
      BY DEF Txn
    <2>9. u.room \in 0..DirtyMax
      BY <2>4, <2>6, <2>7, <2>8
    <2>10. Cardinality(Seen(u, SeenTo(s, 1 - 1))) = Cardinality(DOMAIN u.dirty)
      BY <2>1
    <2> QED
      BY <2>7, <2>10, <2>9 DEF RoomOK
  <1>5. x \notin ToSet(t.loose)
    BY <1>1 DEF OneOf
  <1>6. LooseOK(s, 1, u)
    BY <1>5, <1>2 DEF ListsOK, LooseOK
  <1>7. UseOK(s, 1, u, h \cup {x}, l, T \ {x})
    <2> SUFFICES ASSUME NEW p \in Pgs
                 PROVE  OneOf(p \in T \ {x}, p \in h \cup {x}, p \in UnreadAfter(l),
                              u.free[p] > 0 \/ p \in FreedIn(s, 0),
                              p \in ToSet(u.loose) \/ p \in LooseIn(s, 0), p \in From(u.next))
      BY DEF UseOK
    <2>1. CASE p = x
      BY <2>1, <1>1 DEF OneOf
    <2>2. CASE p # x
      BY <2>2, <1>1 DEF OneOf
    <2> QED
      BY <2>1, <2>2
  <1>8. FreshOK(s, 1, u, h \cup {x}, l)
    <2>1. FreshIn(h, l, t.next) \cap Held(t) = {}
      BY DEF ListsOK, FreshOK
    <2> QED
      BY <2>1, <1>2, <1>3 DEF FreshOK, FreshIn
  <1>9. Within(s, 1, u, h \cup {x}, l)
    <2> SUFFICES ASSUME NEW k \in 0..0
                 PROVE  /\ FreshIn(h \cup {x}, l, u.next) \subseteq FreshAt(s, k)
                        /\ Held(u) \subseteq FreshAt(s, k) \cup HeldTo(s, k)
      BY SMTT(30) DEF Within
    <2>1. k = 0
      OBVIOUS
    <2>2. FreshIn(h, l, t.next) \subseteq FreshAt(s, 0) /\ Held(t) \subseteq FreshAt(s, 0)
      BY <1>2 DEF ListsOK, Within
    <2> QED
      BY <2>1, <2>2, <1>3 DEF FreshIn
  <1>10. Apart(u) /\ FreeOK(s, 1, u)
    BY DEF ListsOK, Apart, FreeOK
  <1> QED
    BY <1>4, <1>6, <1>7, <1>8, <1>9, <1>10 DEF ListsOK

(* mdb_page_spill writes the pages P.                                      *)
Spills(t, u, P) ==
  /\ t \in Txn /\ P \subseteq DOMAIN t.dirty /\ P \cap ToSet(t.loose) = {}
  /\ DOMAIN u.dirty = DOMAIN t.dirty \ P /\ u.spill = t.spill \cup P
  /\ u.room = t.room + Cardinality(P)
  /\ u.loose = t.loose /\ u.free = t.free /\ u.next = t.next

(* Dirty pages are written early.                                          *)
LEMMA MoveSpill ==
    ASSUME NEW s, NEW i \in Nat \ {0}, NEW t, NEW u, NEW h, NEW l, NEW T, NEW P,
           ListsOK(s, i, t, h, l, T), Spills(t, u, P)
    PROVE  ListsOK(s, i, u, h, l, T) /\ u.room \in 0..DirtyMax
  <1> USE DEF Spills
  <1>1. Held(u) = Held(t) /\ DOMAIN t.dirty \cap t.spill = {}
    BY DEF Held, ListsOK, Apart
  <1>2. RoomOK(s, i, u) /\ u.room \in 0..DirtyMax
    <2> DEFINE S == Seen(t, SeenTo(s, i - 1))
               R == Seen(u, SeenTo(s, i - 1))
    <2>1. R = S \ P /\ P \subseteq S
      <3>1. P \subseteq Held(t) /\ P \cap t.spill = {}
        BY <1>1 DEF Held
      <3>2. DOMAIN u.dirty \ u.spill = (DOMAIN t.dirty \ t.spill) \ P
        OBVIOUS
      <3> QED
        BY <1>1, <3>1, <3>2 DEF Seen
    <2>2. IsFiniteSet(S) /\ Cardinality(S) \in Nat
      BY SeenFinite, DirtyType DEF Txn
    <2>3. t.room = DirtyMax - Cardinality(S) /\ DirtyMax \in Nat
      BY BoundsAssumption DEF ListsOK, RoomOK
    <2> HIDE DEF S, R
    <2>4. IsFiniteSet(P) /\ IsFiniteSet(R)
      BY <2>1, <2>2, FS_Subset
    <2>5. Cardinality(P) \in Nat /\ Cardinality(R) \in Nat
      BY <2>4, FS_CardinalityType
    <2>6. Cardinality(R \cup P) = Cardinality(R) + Cardinality(P) - Cardinality(R \cap P)
      BY <2>4, FS_Union
    <2>7. R \cup P = S /\ R \cap P = {}
      BY <2>1
    <2>8. Cardinality(S) = Cardinality(R) + Cardinality(P)
      <3>1. Cardinality(R \cap P) = 0
        BY <2>7, FS_EmptySet
      <3>2. R \cup P = S
        BY <2>7
      <3>3. Cardinality(S) = Cardinality(R) + Cardinality(P) - Cardinality(R \cap P)
        BY <2>6, <3>2, Zenon
      <3> QED
        BY <2>5, <3>1, <3>3
    <2>9. u.room = DirtyMax - Cardinality(R)
      BY <2>2, <2>3, <2>5, <2>8
    <2>10. t.room \in 0..DirtyMax
      BY DEF Txn
    <2>11. u.room \in 0..DirtyMax
      BY <2>3, <2>5, <2>9, <2>10
    <2> QED
      BY <2>9, <2>11 DEF RoomOK, R
  <1>3. LooseOK(s, i, u)
    BY <1>1 DEF ListsOK, LooseOK
  <1> QED
    BY <1>1, <1>2, <1>3 DEF ListsOK, Apart, FreeOK, UseOK, FreshOK, Within

-----------------------------------------------------------------------------
(* The work of a call. *)

WorkT == [t : Txn, head : SUBSET Pgs, last : Lasts, file : Files,
          cur : [Cursors -> Cursor], new : Opt, rc : {"ok", "failed"}]

(* A call changes neither whose the cursors are nor what they had saved.   *)
CurFrame(r, q) ==
  /\ r.own = q.own /\ r.backup = q.backup
  /\ r.root \in Spots(Top) /\ r.leaf \in Spots(Top)
  /\ q.own = 0 => r = Closed
Typed(w) ==
  /\ w \in WorkT
  /\ w.t.head0 = txns[Top].head0 /\ w.t.last0 = txns[Top].last0
  /\ \A c \in Cursors : CurFrame(w.cur[c], cur[c])

(* The lists are right when the pages T are the tree's.                    *)
Lists(w, T) == ListsOK(txns, Top, w.t, w.head, w.last, T)
Good(w, T)  == Typed(w) /\ Ok(w) /\ ~w.t.error /\ Lists(w, T)
Failing(w)  == Typed(w) /\ ~Ok(w) /\ w.t.error

(* A step that changes nothing but lists and pages, and these only in X.   *)
Frame(w, x) ==
  /\ x.file = w.file /\ x.cur = w.cur
  /\ x.t.root = w.t.root /\ x.t.head0 = w.t.head0 /\ x.t.last0 = w.t.last0
Keeps(w, x, X) ==
  \A q \in Pgs \ X : PageOf(x, q) = PageOf(w, q) /\ WhereIs(x, q) = WhereIs(w, q)
Dirty(w, p) == p \in DOMAIN w.t.dirty \ w.t.spill

(* What a call starts from.                                                *)
Inherits ==
  \A k \in 0..(Top - 1) : HeldTo(txns, Top - 1) \subseteq FreshAt(txns, k) \cup HeldTo(txns, k)
Started == Types /\ Top > 0 /\ Inherits

(* The transactions with the work of a call in the place of the            *)
(* innermost.                                                              *)
LEMMA ChainFacts ==
    ASSUME Stacked, Top > 0, NEW w, w.t \in Txn
    PROVE  /\ Chain(w) \in Seq(Txn) /\ Len(Chain(w)) = Top /\ Chain(w)[Top] = w.t
           /\ \A j \in 1..(Top - 1) : Chain(w)[j] = txns[j]
           /\ Top \in Nat
  <1>1. txns \in Seq(Txn) /\ Top = Len(txns) /\ Top \in Nat
    BY DEF Stacked, Top
  <1> QED
    BY <1>1 DEF Chain

LEMMA WorkAt ==
    ASSUME Stacked, Top > 0, NEW w, w.t \in Txn, NEW p
    PROVE  /\ WhereIs(w, p) = IF p \in w.t.spill THEN 0
                              ELSE IF p \in DOMAIN w.t.dirty THEN Top
                              ELSE Where(txns, Top - 1, p)
           /\ PageOf(w, p) = IF p \in w.t.spill THEN w.file[p]
                             ELSE IF p \in DOMAIN w.t.dirty THEN w.t.dirty[p]
                             ELSE Page(txns, Top - 1, w.file, p)
           /\ Spilled(w, p) <=> p \in w.t.spill \/ \E j \in 1..(Top - 1) : p \in txns[j].spill
  <1>1. /\ Chain(w)[Top] = w.t /\ Top \in Nat /\ Top - 1 \in Nat
        /\ \A j \in 1..(Top - 1) : Chain(w)[j] = txns[j]
    BY ChainFacts
  <1>2. /\ Where(Chain(w), Top - 1, p) = Where(txns, Top - 1, p)
        /\ Page(Chain(w), Top - 1, w.file, p) = Page(txns, Top - 1, w.file, p)
    <2>1. \A j \in 1..(Top - 1) : Chain(w)[j].dirty = txns[j].dirty /\ Chain(w)[j].spill = txns[j].spill
      BY <1>1
    <2>2. PICK n : n = Top - 1
      OBVIOUS
    <2>3. PICK r : r = Chain(w)
      OBVIOUS
    <2>4. n \in Nat /\ \A j \in 1..n : r[j].dirty = txns[j].dirty /\ r[j].spill = txns[j].spill
      BY <1>1, <2>1, <2>2, <2>3
    <2>5. /\ \A q : Where(r, n, q) = Where(txns, n, q)
          /\ \A f, q : Page(r, n, f, q) = Page(txns, n, f, q)
      BY <2>4, WhereSame
    <2> QED
      BY <2>2, <2>3, <2>5
  <1>3. WhereIs(w, p) = IF p \in w.t.spill THEN 0
                        ELSE IF p \in DOMAIN w.t.dirty THEN Top
                        ELSE Where(txns, Top - 1, p)
    BY <1>1, <1>2, WhereStep DEF WhereIs
  <1>4. PageOf(w, p) = IF p \in w.t.spill THEN w.file[p]
                       ELSE IF p \in DOMAIN w.t.dirty THEN w.t.dirty[p]
                       ELSE Page(txns, Top - 1, w.file, p)
    BY <1>1, <1>2, PageStep DEF PageOf
  <1>5. DOMAIN txns = 1..Top
    BY DEF Stacked, Top
  <1>6. Spilled(w, p) <=> p \in w.t.spill \/ \E j \in 1..(Top - 1) : p \in txns[j].spill
    <2>1. ASSUME Spilled(w, p)
          PROVE  p \in w.t.spill \/ \E j \in 1..(Top - 1) : p \in txns[j].spill
      <3>1. PICK j \in 1..Top : p \in Chain(w)[j].spill
        BY <2>1, <1>5 DEF Spilled
      <3>2. j = Top \/ j \in 1..(Top - 1)
        BY <3>1, <1>1
      <3> QED
        BY <3>1, <3>2, <1>1
    <2>2. ASSUME p \in w.t.spill
          PROVE  Spilled(w, p)
      BY <2>2, <1>1, <1>5 DEF Spilled
    <2>3. ASSUME NEW j \in 1..(Top - 1), p \in txns[j].spill
          PROVE  Spilled(w, p)
      <3>1. j \in 1..Top /\ Chain(w)[j].spill = txns[j].spill
        BY <1>1
      <3> QED
        BY <2>3, <3>1, <1>5 DEF Spilled
    <2> QED
      BY <2>1, <2>2, <2>3
  <1> QED
    BY <1>3, <1>4, <1>6

(* A page that is not seen anywhere holds a page's contents.               *)
LEMMA PageType ==
    ASSUME NEW s \in Seq(Txn), NEW i \in 0..Len(s), NEW f \in Files, NEW p \in Pgs
    PROVE  Page(s, i, f, p) \in PageT
  <1>1. i \in Nat /\ Where(s, i, p) \in 0..i
    BY WhereType
  <1>2. CASE Where(s, i, p) = 0
    BY <1>2 DEF Page, Files
  <1>3. CASE Where(s, i, p) > 0
    <2>1. PICK j : j = Where(s, i, p)
      OBVIOUS
    <2>2. j \in 1..Len(s) /\ p \in DOMAIN s[j].dirty
      BY <1>1, <1>3, <2>1, WhereType
    <2>3. s[j].dirty \in Dirties
      <3>1. s[j] \in Txn
        BY <2>2
      <3> QED
        BY <3>1 DEF Txn
    <2>4. s[j].dirty[p] \in PageT
      BY <2>2, <2>3, DirtyType
    <2> QED
      BY <2>1, <2>4, <1>3 DEF Page
  <1> QED
    BY <1>1, <1>2, <1>3

LEMMA WorkTypes ==
    ASSUME Stacked, Top > 0, NEW w \in WorkT, NEW p \in Pgs
    PROVE  PageOf(w, p) \in PageT /\ WhereIs(w, p) \in 0..Top
  <1>1. w.t \in Txn /\ w.file \in Files
    BY DEF WorkT
  <1>2. Chain(w) \in Seq(Txn) /\ Len(Chain(w)) = Top /\ Top \in Nat
    BY <1>1, ChainFacts
  <1>3. Page(Chain(w), Top, w.file, p) \in PageT
    BY <1>1, <1>2, PageType
  <1>4. Where(Chain(w), Top, p) \in 0..Top
    BY <1>2, WhereType
  <1> QED
    BY <1>3, <1>4 DEF PageOf, WhereIs

(* Pages whose place in the lists is the same are the same.                *)
LEMMA KeepsBy ==
    ASSUME Stacked, Top > 0, NEW w \in WorkT, NEW x \in WorkT, NEW X, x.file = w.file,
           \A q \in Pgs \ X :
             /\ q \in x.t.spill <=> q \in w.t.spill
             /\ q \in DOMAIN x.t.dirty <=> q \in DOMAIN w.t.dirty
             /\ q \in DOMAIN x.t.dirty => x.t.dirty[q] = w.t.dirty[q]
    PROVE  Keeps(w, x, X)
  <1>1. w.t \in Txn /\ x.t \in Txn
    BY DEF WorkT
  <1> SUFFICES ASSUME NEW q \in Pgs \ X
               PROVE  PageOf(x, q) = PageOf(w, q) /\ WhereIs(x, q) = WhereIs(w, q)
    BY DEF Keeps
  <1> QED
    BY <1>1, WorkAt

(* mdb_page_dirty *)
LEMMA DirtiedFields ==
    ASSUME NEW w \in WorkT, NEW p \in Pgs, NEW c \in PageT, w.t.room > 0,
           NEW a, a = Dirtied(w, p, c)
    PROVE  /\ a \in WorkT /\ a.t \in Txn /\ Frame(w, a)
           /\ a.rc = w.rc /\ a.new = p /\ a.head = w.head /\ a.last = w.last
           /\ a.t.spill = w.t.spill /\ a.t.room = w.t.room - 1 /\ a.t.loose = w.t.loose
           /\ a.t.free = w.t.free /\ a.t.next = w.t.next /\ a.t.error = w.t.error
           /\ a.t.spills = w.t.spills
           /\ DOMAIN a.t.dirty = DOMAIN w.t.dirty \cup {p} /\ a.t.dirty[p] = c
           /\ \A q \in DOMAIN w.t.dirty : q # p => a.t.dirty[q] = w.t.dirty[q]
  <1>1. w.t \in Txn
    BY DEF WorkT
  <1>2. DOMAIN w.t.dirty \subseteq Pgs /\ w.t.dirty \in [DOMAIN w.t.dirty -> PageT]
    BY <1>1, DirtyType DEF Txn
  <1>3. PICK d : d = Added(w.t.dirty, p, c)
    OBVIOUS
  <1>4. /\ DOMAIN d = DOMAIN w.t.dirty \cup {p} /\ d[p] = c
        /\ \A q \in DOMAIN w.t.dirty : q # p => d[q] = w.t.dirty[q]
    BY <1>3 DEF Added
  <1>5. d \in [DOMAIN d -> PageT] /\ DOMAIN d \subseteq Pgs
    <2>1. d = [q \in DOMAIN w.t.dirty \cup {p} |-> IF q = p THEN c ELSE w.t.dirty[q]]
      BY <1>3 DEF Added
    <2>2. \A q \in DOMAIN d : d[q] \in PageT
      BY <1>2, <1>4
    <2> QED
      BY <2>1, <2>2, <1>2, <1>4
  <1>6. d \in Dirties
    BY <1>5, DirtyType
  <1>7. w.t.room - 1 \in 0..DirtyMax
    BY <1>1, BoundsAssumption, SMTT(30) DEF Txn
  <1>8. PICK u : u = [w.t EXCEPT !.dirty = d, !.room = w.t.room - 1]
    OBVIOUS
  <1>9. /\ u \in Txn /\ u.dirty = d /\ u.root = w.t.root /\ u.head0 = w.t.head0
        /\ u.last0 = w.t.last0 /\ u.spill = w.t.spill /\ u.room = w.t.room - 1
        /\ u.loose = w.t.loose /\ u.free = w.t.free /\ u.next = w.t.next
        /\ u.error = w.t.error /\ u.spills = w.t.spills
    BY <1>1, <1>6, <1>7, <1>8 DEF Txn
  <1>10. a = [w EXCEPT !.t = u, !.new = p]
    BY <1>3, <1>8 DEF Dirtied, WorkT
  <1>11. p \in Opt
    BY DEF Opt
  <1>12. /\ a \in WorkT /\ a.t = u /\ a.new = p /\ a.head = w.head /\ a.last = w.last
         /\ a.file = w.file /\ a.cur = w.cur /\ a.rc = w.rc
    BY <1>9, <1>10, <1>11 DEF WorkT
  <1>13. Frame(w, a)
    BY <1>12, <1>9 DEF Frame
  <1> QED
    BY <1>4, <1>9, <1>12, <1>13

LEMMA Shapes ==
    /\ Top > 0 /\ Stacked => Top \in Nat \ {0} /\ Top \in Nat /\ Top - 1 \in Nat
    /\ Blank \in PageT /\ \A v \in Vals : Leaf(v, NoPage) \in PageT
  <1>1. Top > 0 /\ Stacked => Top \in Nat \ {0} /\ Top \in Nat /\ Top - 1 \in Nat
    BY DEF Stacked, Top
  <1>2. NoKids \in [Nodes -> Opt]
    BY DEF NoKids, Opt
  <1>3. Blank \in PageT
    BY <1>2 DEF Blank, Branch, PageT, Opt
  <1>4. \A v \in Vals : Leaf(v, NoPage) \in PageT
    BY <1>2 DEF Leaf, PageT, Opt
  <1> QED
    BY <1>1, <1>3, <1>4

LEMMA TypedFrame ==
    ASSUME NEW w, NEW x \in WorkT, Typed(w), Frame(w, x)
    PROVE  Typed(x)
  BY DEF Typed, Frame

(* A call that fails sets MDB_TXN_ERROR.                                   *)
LEMMA BrokenFails ==
    ASSUME NEW w, Typed(w)
    PROVE  /\ Failing(Broken(w)) /\ Frame(w, Broken(w))
           /\ Broken(w).head = w.head /\ Broken(w).last = w.last
           /\ Broken(w).t.dirty = w.t.dirty /\ Broken(w).t.spill = w.t.spill
  <1>1. w \in WorkT /\ w.t \in Txn
    BY DEF Typed, WorkT
  <1>2. PICK u : u = [w.t EXCEPT !.error = TRUE]
    OBVIOUS
  <1>3. /\ u \in Txn /\ u.error /\ u.root = w.t.root /\ u.head0 = w.t.head0 /\ u.last0 = w.t.last0
        /\ u.dirty = w.t.dirty /\ u.spill = w.t.spill
    BY <1>1, <1>2 DEF Txn
  <1>4. PICK x : x = Broken(w)
    OBVIOUS
  <1>5. x = [w EXCEPT !.t = u, !.rc = "failed"]
    BY <1>2, <1>4, <1>1 DEF Broken, WorkT
  <1>6. /\ x \in WorkT /\ x.t = u /\ x.rc = "failed" /\ x.file = w.file /\ x.cur = w.cur
        /\ x.head = w.head /\ x.last = w.last
    BY <1>1, <1>3, <1>5 DEF WorkT
  <1>7. Frame(w, x)
    BY <1>3, <1>6 DEF Frame
  <1>8. Typed(x)
    BY <1>6, <1>7, TypedFrame
  <1> QED
    BY <1>3, <1>4, <1>6, <1>7, <1>8 DEF Failing, Ok

(* A page at the head or in the file is added to the dirty list.           *)
LEMMA FreshTaken ==
    ASSUME Started, NEW w, NEW T, Good(w, T), w.t.room > 0, NEW v \in WorkT, NEW x \in Pgs, NEW a,
           a = Dirtied(v, x, Blank),
           Frame(w, v), v.rc = w.rc, v.t.dirty = w.t.dirty, v.t.spill = w.t.spill,
           v.t.room = w.t.room, v.t.loose = w.t.loose, v.t.free = w.t.free, v.t.error = w.t.error,
           x \in FreshIn(w.head, w.last, w.t.next),
           FreshIn(v.head, v.last, v.t.next) = FreshIn(w.head, w.last, w.t.next) \ {x},
           v.head \cap UnreadAfter(v.last) = {}, v.head \cap From(v.t.next) = {},
           UnreadAfter(v.last) \cap From(v.t.next) = {}
    PROVE  /\ Good(a, T \cup {x}) /\ Frame(w, a) /\ a.new = x /\ x \in Pgs \ T
           /\ Dirty(a, x) /\ Keeps(w, a, {x})
  <1>1. /\ w \in WorkT /\ w.t \in Txn /\ v.t \in Txn /\ Blank \in PageT /\ Top \in Nat \ {0}
        /\ Stacked /\ Top > 0
    BY Shapes DEF Good, Typed, WorkT, Started, Types
  <1>2. /\ a \in WorkT /\ a.t \in Txn /\ Frame(v, a)
        /\ a.rc = v.rc /\ a.new = x /\ a.head = v.head /\ a.last = v.last
        /\ a.t.spill = v.t.spill /\ a.t.room = v.t.room - 1 /\ a.t.loose = v.t.loose
        /\ a.t.free = v.t.free /\ a.t.next = v.t.next /\ a.t.error = v.t.error
        /\ DOMAIN a.t.dirty = DOMAIN v.t.dirty \cup {x}
        /\ \A q \in DOMAIN v.t.dirty : q # x => a.t.dirty[q] = v.t.dirty[q]
    BY <1>1, DirtiedFields
  <1>3. /\ a.t.spill = w.t.spill /\ a.t.room = w.t.room - 1 /\ a.t.loose = w.t.loose
        /\ a.t.free = w.t.free /\ a.t.next = v.t.next /\ a.t.error = w.t.error
    BY <1>2
  <1>4. Frame(w, a)
    BY <1>2 DEF Frame
  <1>5. ListsOK(txns, Top, w.t, w.head, w.last, T)
    BY DEF Good, Lists
  <1>6. /\ ListsOK(txns, Top, a.t, a.head, a.last, T \cup {x})
        /\ x \notin T /\ x \notin Held(w.t)
    <2>1. DOMAIN a.t.dirty = DOMAIN w.t.dirty \cup {x}
      BY <1>2
    <2>2. /\ FreshIn(a.head, a.last, a.t.next) = FreshIn(w.head, w.last, w.t.next) \ {x}
          /\ a.head \cap UnreadAfter(a.last) = {} /\ a.head \cap From(a.t.next) = {}
          /\ UnreadAfter(a.last) \cap From(a.t.next) = {}
      BY <1>2, <1>3
    <2>3. a.t \in Txn
      BY <1>2
    <2>4. PICK t, u, h, l, k, m : /\ t = w.t /\ u = a.t /\ h = w.head /\ l = w.last
                                  /\ k = a.head /\ m = a.last
      OBVIOUS
    <2>5. Takes(t, h, l, u, k, m, x) /\ ListsOK(txns, Top, t, h, l, T)
      BY <1>1, <1>3, <1>5, <2>1, <2>2, <2>3, <2>4 DEF Takes
    <2>6. ListsOK(txns, Top, u, k, m, T \cup {x}) /\ x \notin T /\ x \notin Held(t)
      BY <1>1, <2>5, MoveFresh
    <2> QED
      BY <2>4, <2>6
  <1>7. Typed(a)
    BY <1>2, <1>4, TypedFrame DEF Good
  <1>8. Good(a, T \cup {x})
    BY <1>2, <1>3, <1>6, <1>7 DEF Good, Ok, Lists
  <1>9. Dirty(a, x)
    BY <1>2, <1>3, <1>6 DEF Dirty, Held
  <1>10. Keeps(w, a, {x})
    <2>1. a.file = w.file
      BY <1>4 DEF Frame
    <2>2. \A q \in Pgs \ {x} :
             /\ q \in a.t.spill <=> q \in w.t.spill
             /\ q \in DOMAIN a.t.dirty <=> q \in DOMAIN w.t.dirty
             /\ q \in DOMAIN a.t.dirty => a.t.dirty[q] = w.t.dirty[q]
      BY <1>2, <1>3
    <2> QED
      BY <2>1, <2>2, <1>1, <1>2, KeepsBy
  <1> QED
    BY <1>2, <1>4, <1>6, <1>8, <1>9, <1>10

(* mdb_page_alloc                                                          *)
LEMMA AllocGood ==
    ASSUME Started, NEW w, NEW T, Good(w, T), NEW a, a = PageAlloc(w)
    PROVE  /\ Typed(a) /\ Frame(w, a)
           /\ Ok(a) => /\ Good(a, T \cup {a.new}) /\ a.new \in Pgs \ T
                       /\ Dirty(a, a.new) /\ Keeps(w, a, {a.new})
           /\ ~Ok(a) => Failing(a)
  <1>1. /\ w \in WorkT /\ w.t \in Txn /\ Typed(w) /\ Top \in Nat \ {0} /\ Stacked /\ Top > 0
        /\ Ok(w) /\ ~w.t.error /\ ListsOK(txns, Top, w.t, w.head, w.last, T)
    BY Shapes DEF Good, Typed, WorkT, Started, Types, Lists
  <1>2. /\ w.t.room \in Nat /\ w.t.next \in Nat /\ w.t.next \in NextPgno..MaxPg /\ w.last \in Lasts
        /\ w.head \in SUBSET Pgs /\ MaxPg \in Nat /\ NextPgno \in Nat /\ NextPgno >= 3
    BY <1>1, BoundsAssumption DEF WorkT, Txn
  <1>3. \A p \in Pgs : OneOf(p \in T, p \in w.head, p \in UnreadAfter(w.last),
                w.t.free[p] > 0 \/ p \in FreedIn(txns, Top - 1),
                p \in ToSet(w.t.loose) \/ p \in LooseIn(txns, Top - 1), p \in From(w.t.next))
    BY <1>1 DEF ListsOK, UseOK
  <1>4. UnreadAfter(w.last) \subseteq Pgs /\ From(w.t.next) \subseteq Pgs
    BY <1>2, RecordsFacts DEF From
  <1>5. /\ w.head \cap UnreadAfter(w.last) = {} /\ w.head \cap From(w.t.next) = {}
        /\ UnreadAfter(w.last) \cap From(w.t.next) = {}
    BY <1>2, <1>3, <1>4 DEF OneOf
  <1>6. CASE w.t.loose # <<>>
    <2>1. a = [w EXCEPT !.t.loose = Tail(w.t.loose), !.new = Head(w.t.loose)]
      BY <1>6 DEF PageAlloc
    <2>2. PICK u : u = [w.t EXCEPT !.loose = Tail(w.t.loose)]
      OBVIOUS
    <2>3. w.t.loose \in Seq(Pgs) /\ Tail(w.t.loose) \in Seq(Pgs) /\ Head(w.t.loose) \in Pgs
      BY <1>1, <1>6 DEF Txn
    <2>4. /\ u \in Txn /\ u.dirty = w.t.dirty /\ u.spill = w.t.spill /\ u.room = w.t.room
          /\ u.free = w.t.free /\ u.next = w.t.next /\ u.loose = Tail(w.t.loose)
          /\ u.root = w.t.root /\ u.head0 = w.t.head0 /\ u.last0 = w.t.last0 /\ u.error = w.t.error
      BY <1>1, <2>2, <2>3 DEF Txn
    <2>5. /\ a \in WorkT /\ a.t = u /\ a.new = Head(w.t.loose) /\ a.head = w.head /\ a.last = w.last
          /\ a.file = w.file /\ a.cur = w.cur /\ a.rc = w.rc
      BY <1>1, <2>1, <2>2, <2>3, <2>4 DEF WorkT, Opt
    <2>6. /\ ListsOK(txns, Top, u, w.head, w.last, T \cup {Head(w.t.loose)})
          /\ Head(w.t.loose) \in DOMAIN w.t.dirty \ w.t.spill /\ Head(w.t.loose) \notin T
      BY <1>1, <1>6, <2>4, MoveLoose
    <2>7. Frame(w, a)
      BY <2>4, <2>5 DEF Frame
    <2>8. Typed(a)
      BY <1>1, <2>5, <2>7, TypedFrame
    <2>9. Good(a, T \cup {a.new}) /\ Dirty(a, a.new) /\ Ok(a) /\ a.new \in Pgs \ T
      BY <1>1, <2>3, <2>4, <2>5, <2>6, <2>8 DEF Good, Lists, Dirty, Ok
    <2>10. Keeps(w, a, {a.new})
      BY <1>1, <2>4, <2>5, KeepsBy
    <2> QED
      BY <2>7, <2>8, <2>9, <2>10
  <1>7. CASE a = Broken(w)
    BY <1>1, <1>7, BrokenFails DEF Failing
  <1>8. CASE w.t.room > 0 /\ w.head # {} /\ a = TakeFrom(w, w.head, w.last)
    <2>1. PICK x : x = Min(w.head)
      OBVIOUS
    <2>2. x \in w.head /\ x \in Pgs
      BY <1>2, <1>8, <2>1, MinIn, PgsFinite
    <2>3. PICK v : v = [w EXCEPT !.head = w.head \ {x}, !.last = w.last]
      OBVIOUS
    <2>4. /\ v \in WorkT /\ v.t = w.t /\ v.head = w.head \ {x} /\ v.last = w.last
          /\ v.file = w.file /\ v.cur = w.cur /\ v.rc = w.rc
      BY <1>1, <2>3 DEF WorkT
    <2>5. a = Dirtied(v, x, Blank)
      BY <1>8, <2>1, <2>3 DEF TakeFrom
    <2>6. Frame(w, v)
      BY <2>4 DEF Frame
    <2>7. x \in FreshIn(w.head, w.last, w.t.next)
      BY <2>2 DEF FreshIn
    <2>8. FreshIn(v.head, v.last, v.t.next) = FreshIn(w.head, w.last, w.t.next) \ {x}
      BY <2>2, <2>4, <1>5 DEF FreshIn
    <2>10. /\ v.head \cap UnreadAfter(v.last) = {} /\ v.head \cap From(v.t.next) = {}
           /\ UnreadAfter(v.last) \cap From(v.t.next) = {}
      BY <1>5, <2>4
    <2>9. /\ Good(a, T \cup {x}) /\ Frame(w, a) /\ a.new = x /\ x \in Pgs \ T
          /\ Dirty(a, x) /\ Keeps(w, a, {x})
      BY <1>8, <2>2, <2>4, <2>5, <2>6, <2>7, <2>8, <2>10, FreshTaken
    <2> QED
      BY <2>9 DEF Good
  <1>9. CASE w.t.room > 0 /\ w.head = {} /\ w.last < Len(Records)
             /\ a = TakeFrom(w, Records[w.last + 1], w.last + 1)
    <2>1. PICK R : R = Records[w.last + 1]
      OBVIOUS
    <2>2. /\ w.last + 1 \in Lasts /\ R \subseteq Pgs /\ R # {}
          /\ UnreadAfter(w.last) = R \cup UnreadAfter(w.last + 1)
          /\ R \cap UnreadAfter(w.last + 1) = {}
      BY <1>2, <1>9, <2>1, RecordsFacts
    <2>3. PICK x : x = Min(R)
      OBVIOUS
    <2>4. x \in R /\ x \in Pgs
      BY <2>2, <2>3, MinIn, PgsFinite
    <2>5. PICK v : v = [w EXCEPT !.head = R \ {x}, !.last = w.last + 1]
      OBVIOUS
    <2>6. /\ v \in WorkT /\ v.t = w.t /\ v.head = R \ {x} /\ v.last = w.last + 1
          /\ v.file = w.file /\ v.cur = w.cur /\ v.rc = w.rc
      BY <1>1, <2>2, <2>5 DEF WorkT
    <2>7. a = Dirtied(v, x, Blank)
      BY <1>9, <2>1, <2>3, <2>5 DEF TakeFrom
    <2>8. Frame(w, v)
      BY <2>6 DEF Frame
    <2>9. x \in FreshIn(w.head, w.last, w.t.next)
      BY <2>2, <2>4 DEF FreshIn
    <2>10. FreshIn(v.head, v.last, v.t.next) = FreshIn(w.head, w.last, w.t.next) \ {x}
      BY <1>5, <1>9, <2>2, <2>4, <2>6 DEF FreshIn
    <2>11. /\ v.head \cap UnreadAfter(v.last) = {} /\ v.head \cap From(v.t.next) = {}
           /\ UnreadAfter(v.last) \cap From(v.t.next) = {}
      BY <1>5, <2>2, <2>6
    <2>12. /\ Good(a, T \cup {x}) /\ Frame(w, a) /\ a.new = x /\ x \in Pgs \ T
           /\ Dirty(a, x) /\ Keeps(w, a, {x})
      BY <1>9, <2>4, <2>6, <2>7, <2>8, <2>9, <2>10, <2>11, FreshTaken
    <2> QED
      BY <2>12 DEF Good
  <1>10. CASE /\ w.t.room > 0 /\ w.t.next + 1 < MaxPg
              /\ a = Dirtied([w EXCEPT !.t.next = @ + 1], w.t.next, Blank)
    <2>1. PICK x : x = w.t.next
      OBVIOUS
    <2>2. x \in Pgs /\ x \in From(w.t.next)
      BY <1>2, <1>10, <2>1 DEF Pgs, From
    <2>3. PICK u : u = [w.t EXCEPT !.next = w.t.next + 1]
      OBVIOUS
    <2>4. /\ u \in Txn /\ u.dirty = w.t.dirty /\ u.spill = w.t.spill /\ u.room = w.t.room
          /\ u.free = w.t.free /\ u.next = w.t.next + 1 /\ u.loose = w.t.loose
          /\ u.root = w.t.root /\ u.head0 = w.t.head0 /\ u.last0 = w.t.last0 /\ u.error = w.t.error
      <3>1. w.t.next + 1 \in NextPgno..MaxPg
        BY <1>2, <1>10
      <3> QED
        BY <1>1, <2>3, <3>1 DEF Txn
    <2>5. PICK v : v = [w EXCEPT !.t = u]
      OBVIOUS
    <2>6. /\ v \in WorkT /\ v.t = u /\ v.head = w.head /\ v.last = w.last
          /\ v.file = w.file /\ v.cur = w.cur /\ v.rc = w.rc
      BY <1>1, <2>4, <2>5 DEF WorkT
    <2>7. a = Dirtied(v, x, Blank)
      BY <1>10, <2>1, <2>3, <2>5
    <2>8. Frame(w, v)
      BY <2>4, <2>6 DEF Frame
    <2>9. x \in FreshIn(w.head, w.last, w.t.next)
      BY <2>2 DEF FreshIn
    <2>10. From(w.t.next + 1) = From(w.t.next) \ {x}
      <3>1. \A p \in Pgs : p \in Nat
        BY PgsFinite
      <3> QED
        BY <1>2, <2>1, <3>1 DEF From
    <2>11. FreshIn(v.head, v.last, v.t.next) = FreshIn(w.head, w.last, w.t.next) \ {x}
      BY <1>5, <2>2, <2>4, <2>6, <2>10 DEF FreshIn
    <2>12. /\ v.head \cap UnreadAfter(v.last) = {} /\ v.head \cap From(v.t.next) = {}
           /\ UnreadAfter(v.last) \cap From(v.t.next) = {}
      BY <1>5, <2>4, <2>6, <2>10
    <2>13. /\ Good(a, T \cup {x}) /\ Frame(w, a) /\ a.new = x /\ x \in Pgs \ T
           /\ Dirty(a, x) /\ Keeps(w, a, {x})
      BY <1>10, <2>2, <2>4, <2>6, <2>7, <2>8, <2>9, <2>11, <2>12, FreshTaken
    <2> QED
      BY <2>13 DEF Good
  <1> QED
    <2>1. Len(Records) \in Nat
      BY RecordsFacts
    <2>2. /\ w.t.room = 0 \/ w.t.room > 0
          /\ w.last < Len(Records) \/ ~(w.last < Len(Records))
          /\ w.t.next + 1 >= MaxPg \/ w.t.next + 1 < MaxPg
      BY <2>1, <1>2
    <2>3. \/ w.t.loose # <<>>
          \/ a = Broken(w)
          \/ w.t.room > 0 /\ w.head # {} /\ a = TakeFrom(w, w.head, w.last)
          \/ /\ w.t.room > 0 /\ w.head = {} /\ w.last < Len(Records)
             /\ a = TakeFrom(w, Records[w.last + 1], w.last + 1)
          \/ /\ w.t.room > 0 /\ w.t.next + 1 < MaxPg
             /\ a = Dirtied([w EXCEPT !.t.next = @ + 1], w.t.next, Blank)
      BY <2>2, Zenon DEF PageAlloc
    <2> QED
      BY <2>3, <1>6, <1>7, <1>8, <1>9, <1>10, Zenon

(* What a step of a call may rely on.                                      *)
LEMMA GoodFacts ==
    ASSUME Started, NEW w, NEW T, Good(w, T)
    PROVE  /\ w \in WorkT /\ w.t \in Txn /\ Typed(w) /\ Ok(w) /\ ~w.t.error
           /\ Top \in Nat \ {0} /\ Top - 1 \in Nat /\ Stacked /\ Top > 0
           /\ ListsOK(txns, Top, w.t, w.head, w.last, T)
           /\ DOMAIN w.t.dirty \subseteq Pgs /\ w.t.dirty \in [DOMAIN w.t.dirty -> PageT]
           /\ DOMAIN w.t.dirty \cap w.t.spill = {}
  <1>1. /\ w \in WorkT /\ w.t \in Txn /\ Typed(w) /\ Ok(w) /\ ~w.t.error
        /\ Top \in Nat \ {0} /\ Top - 1 \in Nat /\ Stacked /\ Top > 0
        /\ ListsOK(txns, Top, w.t, w.head, w.last, T)
    BY Shapes DEF Good, Typed, WorkT, Started, Types, Lists
  <1>2. DOMAIN w.t.dirty \subseteq Pgs /\ w.t.dirty \in [DOMAIN w.t.dirty -> PageT]
    BY <1>1, DirtyType DEF Txn
  <1>3. DOMAIN w.t.dirty \cap w.t.spill = {}
    BY <1>1 DEF ListsOK, Apart
  <1> QED
    BY <1>1, <1>2, <1>3

(* A page is written in the dirty list.                                    *)
Writes(w, x, p, c) == x = [w EXCEPT !.t.dirty[p] = c]

Wrote(w, x, T, p, c) ==
  /\ Good(x, T) /\ Frame(w, x) /\ Keeps(w, x, {p}) /\ PageOf(x, p) = c
  /\ WhereIs(x, p) = WhereIs(w, p)
  /\ x.new = w.new /\ x.head = w.head /\ x.last = w.last
  /\ DOMAIN x.t.dirty = DOMAIN w.t.dirty /\ x.t.spill = w.t.spill
  /\ \A q : Dirty(x, q) <=> Dirty(w, q)

(* A dirty page is written.                                                *)
LEMMA WriteGood ==
    ASSUME Started, NEW w, NEW T, Good(w, T), NEW p, Dirty(w, p), NEW c \in PageT,
           NEW x, Writes(w, x, p, c)
    PROVE  Wrote(w, x, T, p, c)
  <1>1. /\ w \in WorkT /\ w.t \in Txn /\ Typed(w) /\ Ok(w) /\ ~w.t.error
        /\ Top \in Nat \ {0} /\ Stacked /\ Top > 0
        /\ ListsOK(txns, Top, w.t, w.head, w.last, T)
        /\ DOMAIN w.t.dirty \subseteq Pgs /\ w.t.dirty \in [DOMAIN w.t.dirty -> PageT]
    BY GoodFacts
  <1>2. PICK d : d = [w.t.dirty EXCEPT ![p] = c]
    OBVIOUS
  <1>3. p \in DOMAIN w.t.dirty /\ p \notin w.t.spill /\ p \in Pgs
    BY <1>1 DEF Dirty
  <1>4. /\ d \in [DOMAIN w.t.dirty -> PageT] /\ DOMAIN d = DOMAIN w.t.dirty /\ d[p] = c
        /\ \A q \in DOMAIN w.t.dirty : q # p => d[q] = w.t.dirty[q]
    BY <1>1, <1>2, <1>3
  <1>5. d \in Dirties
    BY <1>1, <1>4, DirtyType
  <1>6. PICK u : u = [w.t EXCEPT !.dirty = d]
    OBVIOUS
  <1>7. /\ u \in Txn /\ u.dirty = d /\ u.root = w.t.root /\ u.head0 = w.t.head0
        /\ u.last0 = w.t.last0 /\ u.spill = w.t.spill /\ u.room = w.t.room
        /\ u.loose = w.t.loose /\ u.free = w.t.free /\ u.next = w.t.next
        /\ u.error = w.t.error /\ u.spills = w.t.spills
    BY <1>1, <1>5, <1>6 DEF Txn
  <1>8. x = [w EXCEPT !.t = u]
    BY <1>1, <1>2, <1>6 DEF Writes, WorkT, Txn
  <1>9. /\ x \in WorkT /\ x.t = u /\ x.new = w.new /\ x.head = w.head /\ x.last = w.last
        /\ x.file = w.file /\ x.cur = w.cur /\ x.rc = w.rc
    BY <1>1, <1>7, <1>8 DEF WorkT
  <1>10. Frame(w, x)
    BY <1>7, <1>9 DEF Frame
  <1>11. Typed(x)
    BY <1>1, <1>9, <1>10, TypedFrame
  <1>12. SameLists(w.t, u)
    BY <1>4, <1>7 DEF SameLists
  <1>13. ListsOK(txns, Top, u, w.head, w.last, T)
    BY <1>1, <1>12, ListsSame
  <1>14. Good(x, T)
    BY <1>1, <1>7, <1>9, <1>11, <1>13 DEF Good, Ok, Lists
  <1>15. Keeps(w, x, {p})
    BY <1>1, <1>4, <1>7, <1>9, KeepsBy
  <1>16. PageOf(x, p) = c /\ WhereIs(x, p) = WhereIs(w, p)
    BY <1>1, <1>3, <1>4, <1>7, <1>9, WorkAt
  <1>17. \A q : Dirty(x, q) <=> Dirty(w, q)
    BY <1>4, <1>7, <1>9 DEF Dirty
  <1> QED
    BY <1>4, <1>7, <1>9, <1>10, <1>14, <1>15, <1>16, <1>17 DEF Wrote

(* A page goes to the free list.                                           *)
LEMMA FreeGood ==
    ASSUME Started, NEW w, NEW T, Good(w, T), NEW p \in T, p \in Pgs, NEW x, x = FreePage(w, p)
    PROVE  /\ Good(x, T \ {p}) /\ Frame(w, x) /\ Keeps(w, x, {})
           /\ x.new = w.new /\ x.t.dirty = w.t.dirty /\ x.t.spill = w.t.spill
           /\ x.t.room = w.t.room /\ x.t.spills = w.t.spills
  <1>1. /\ w \in WorkT /\ w.t \in Txn /\ Typed(w) /\ Ok(w) /\ ~w.t.error
        /\ Top \in Nat \ {0} /\ Stacked /\ Top > 0
        /\ ListsOK(txns, Top, w.t, w.head, w.last, T)
    BY GoodFacts
  <1>2. PICK m : m = [w.t.free EXCEPT ![p] = @ + 1]
    OBVIOUS
  <1>3. m \in [Pgs -> Nat]
    <2>1. w.t.free \in [Pgs -> Nat]
      BY <1>1 DEF Txn
    <2> QED
      BY <1>2, <2>1
  <1>4. PICK u : u = [w.t EXCEPT !.free = m]
    OBVIOUS
  <1>5. /\ u \in Txn /\ u.dirty = w.t.dirty /\ u.root = w.t.root /\ u.head0 = w.t.head0
        /\ u.last0 = w.t.last0 /\ u.spill = w.t.spill /\ u.room = w.t.room
        /\ u.loose = w.t.loose /\ u.free = m /\ u.next = w.t.next
        /\ u.error = w.t.error /\ u.spills = w.t.spills
    BY <1>1, <1>3, <1>4 DEF Txn
  <1>6. x = [w EXCEPT !.t = u]
    BY <1>1, <1>2, <1>4 DEF FreePage, WorkT, Txn
  <1>7. /\ x \in WorkT /\ x.t = u /\ x.new = w.new /\ x.head = w.head /\ x.last = w.last
        /\ x.file = w.file /\ x.cur = w.cur /\ x.rc = w.rc
    BY <1>1, <1>5, <1>6 DEF WorkT
  <1>8. Frame(w, x)
    BY <1>5, <1>7 DEF Frame
  <1>9. Typed(x)
    BY <1>1, <1>7, <1>8, TypedFrame
  <1>10. PICK t : t = w.t
    OBVIOUS
  <1>11. Frees(t, u, p)
    BY <1>1, <1>2, <1>5, <1>10 DEF Frees
  <1>12. ListsOK(txns, Top, u, w.head, w.last, T \ {p})
    BY <1>1, <1>10, <1>11, MoveFree
  <1>13. Good(x, T \ {p})
    BY <1>1, <1>5, <1>7, <1>9, <1>12 DEF Good, Ok, Lists
  <1>14. Keeps(w, x, {})
    BY <1>1, <1>5, <1>7, KeepsBy
  <1> QED
    BY <1>5, <1>7, <1>8, <1>13, <1>14

(* What the place of a page says.                                          *)
LEMMA PlaceFacts ==
    ASSUME Started, NEW w, NEW T, Good(w, T), NEW p \in Pgs
    PROVE  /\ WhereIs(w, p) = Top <=> Dirty(w, p)
           /\ WhereIs(w, p) \in 0..Top
           /\ p \in Seen(w.t, SeenTo(txns, Top - 1)) <=> WhereIs(w, p) > 0
           /\ WhereIs(w, p) > 0 \/ Spilled(w, p) => p \in Held(w.t) \cup HeldTo(txns, Top - 1)
           /\ WhereIs(w, p) < Top => p \notin DOMAIN w.t.dirty
           /\ WhereIs(w, p) = 0 => PageOf(w, p) = w.file[p]
           /\ p \in Held(w.t) \cup HeldTo(txns, Top - 1)
                => \A k \in 0..(Top - 1) : p \in FreshAt(txns, k) \cup HeldTo(txns, k)
           /\ PageOf(w, p) \in PageT
  <1>1. /\ w \in WorkT /\ w.t \in Txn /\ Top \in Nat \ {0} /\ Top - 1 \in Nat /\ Stacked /\ Top > 0
        /\ ListsOK(txns, Top, w.t, w.head, w.last, T)
        /\ DOMAIN w.t.dirty \cap w.t.spill = {}
    BY GoodFacts
  <1>2. PICK b : b = Where(txns, Top - 1, p)
    OBVIOUS
  <1>3. /\ WhereIs(w, p) = IF p \in w.t.spill THEN 0 ELSE IF p \in DOMAIN w.t.dirty THEN Top ELSE b
        /\ Spilled(w, p) <=> p \in w.t.spill \/ \E j \in 1..(Top - 1) : p \in txns[j].spill
    BY <1>1, <1>2, WorkAt
  <1>4. b \in 0..(Top - 1) /\ (b > 0 => p \in DOMAIN txns[b].dirty)
    BY <1>1, <1>2, WhereType
  <1>5. WhereIs(w, p) = Top <=> Dirty(w, p)
    BY <1>1, <1>3, <1>4 DEF Dirty
  <1>6. WhereIs(w, p) \in 0..Top
    BY <1>1, <1>3, <1>4
  <1>7. p \in Seen(w.t, SeenTo(txns, Top - 1)) <=> WhereIs(w, p) > 0
    <2>1. p \in SeenTo(txns, Top - 1) <=> b > 0
      BY <1>2 DEF SeenTo
    <2> QED
      BY <1>1, <1>3, <1>4, <2>1 DEF Seen, Held
  <1>8. ASSUME WhereIs(w, p) > 0 \/ Spilled(w, p)
        PROVE  p \in Held(w.t) \cup HeldTo(txns, Top - 1)
    <2>1. CASE p \in Held(w.t)
      BY <2>1
    <2>2. CASE p \notin Held(w.t)
      <3>1. CASE b > 0
        <4>1. b \in 1..(Top - 1) /\ p \in Held(txns[b])
          BY <3>1, <1>4, <1>1 DEF Held
        <4> QED
          BY <4>1 DEF HeldTo
      <3>2. CASE \E j \in 1..(Top - 1) : p \in txns[j].spill
        BY <3>2 DEF HeldTo, Held
      <3>3. b > 0 \/ \E j \in 1..(Top - 1) : p \in txns[j].spill
        BY <1>8, <2>2, <1>3 DEF Held
      <3> QED
        BY <3>1, <3>2, <3>3
    <2> QED
      BY <2>1, <2>2
  <1>9. WhereIs(w, p) < Top => p \notin DOMAIN w.t.dirty
    BY <1>1, <1>3
  <1>10. WhereIs(w, p) = 0 => PageOf(w, p) = w.file[p]
    BY DEF WhereIs, PageOf, Page
  <1>11. p \in Held(w.t) \cup HeldTo(txns, Top - 1)
                => \A k \in 0..(Top - 1) : p \in FreshAt(txns, k) \cup HeldTo(txns, k)
    <2>1. \A k \in 0..(Top - 1) : Held(w.t) \subseteq FreshAt(txns, k) \cup HeldTo(txns, k)
      BY <1>1 DEF ListsOK, Within
    <2>2. \A k \in 0..(Top - 1) : HeldTo(txns, Top - 1) \subseteq FreshAt(txns, k) \cup HeldTo(txns, k)
      BY DEF Started, Inherits
    <2> QED
      BY <2>1, <2>2
  <1>12. PageOf(w, p) \in PageT
    BY <1>1, WorkTypes
  <1> QED
    BY <1>5, <1>6, <1>7, <1>8, <1>9, <1>10, <1>11, <1>12

(* A page that is held becomes this transaction's own again.               *)
LEMMA RegainGood ==
    ASSUME Started, NEW w, NEW T, Good(w, T), NEW p \in Pgs, p \in T,
           WhereIs(w, p) < Top, WhereIs(w, p) > 0 \/ Spilled(w, p),
           NEW x \in WorkT, Frame(w, x), x.rc = w.rc, x.t.error = w.t.error,
           x.new = p, x.head = w.head, x.last = w.last, x.t.spill = w.t.spill \ {p},
           DOMAIN x.t.dirty = DOMAIN w.t.dirty \cup {p}, x.t.dirty[p] = PageOf(w, p),
           \A q \in DOMAIN w.t.dirty : q # p => x.t.dirty[q] = w.t.dirty[q],
           x.t.room = IF WhereIs(w, p) > 0 THEN w.t.room ELSE w.t.room - 1,
           x.t.loose = w.t.loose, x.t.free = w.t.free, x.t.next = w.t.next
    PROVE  /\ Good(x, T) /\ Dirty(x, p) /\ PageOf(x, p) = PageOf(w, p) /\ Keeps(w, x, {p})
  <1>1. /\ w \in WorkT /\ w.t \in Txn /\ x.t \in Txn /\ Typed(w) /\ Ok(w) /\ ~w.t.error
        /\ Top \in Nat \ {0} /\ Stacked /\ Top > 0
        /\ ListsOK(txns, Top, w.t, w.head, w.last, T)
    BY GoodFacts DEF WorkT
  <1>2. /\ p \in Seen(w.t, SeenTo(txns, Top - 1)) <=> WhereIs(w, p) > 0
        /\ p \in Held(w.t) \cup HeldTo(txns, Top - 1)
        /\ p \notin DOMAIN w.t.dirty
        /\ \A k \in 0..(Top - 1) : p \in FreshAt(txns, k) \cup HeldTo(txns, k)
    BY PlaceFacts
  <1>3. PICK t, u : t = w.t /\ u = x.t
    OBVIOUS
  <1>4. Regains(txns, Top, t, u, p)
    BY <1>1, <1>2, <1>3 DEF Regains
  <1>5. ListsOK(txns, Top, u, w.head, w.last, T)
    BY <1>1, <1>3, <1>4, MoveDirty
  <1>6. Typed(x)
    BY <1>1, TypedFrame
  <1>7. Good(x, T)
    BY <1>1, <1>3, <1>5, <1>6 DEF Good, Ok, Lists
  <1>8. Dirty(x, p)
    BY DEF Dirty
  <1>9. PageOf(x, p) = x.t.dirty[p]
    BY <1>1, WorkAt
  <1>10. Keeps(w, x, {p})
    <2>1. x.file = w.file
      BY DEF Frame
    <2> QED
      BY <1>1, <2>1, KeepsBy
  <1> QED
    BY <1>7, <1>8, <1>9, <1>10

(* mdb_page_unspill                                                        *)
LEMMA UnspillGood ==
    ASSUME Started, NEW w, NEW T, Good(w, T), NEW p \in Pgs, p \in T,
           WhereIs(w, p) = 0, Spilled(w, p), NEW x, x = Unspill(w, p)
    PROVE  /\ Frame(w, x) /\ Typed(x)
           /\ Ok(x) => /\ Good(x, T) /\ Dirty(x, p) /\ PageOf(x, p) = PageOf(w, p)
                       /\ Keeps(w, x, {p}) /\ x.new = p
           /\ ~Ok(x) => x = [w EXCEPT !.rc = "failed"]
  <1>1. /\ w \in WorkT /\ w.t \in Txn /\ Typed(w) /\ Ok(w) /\ ~w.t.error
        /\ Top \in Nat \ {0} /\ Top > 0
    BY GoodFacts
  <1>2. CASE w.t.room = 0
    <2>1. x = [w EXCEPT !.rc = "failed"]
      BY <1>2 DEF Unspill
    <2>2. /\ x \in WorkT /\ x.t = w.t /\ x.file = w.file /\ x.cur = w.cur /\ x.rc = "failed"
      BY <1>1, <2>1 DEF WorkT
    <2>3. Frame(w, x) /\ ~Ok(x)
      BY <2>2 DEF Frame, Ok
    <2>4. Typed(x)
      BY <1>1, <2>2, <2>3, TypedFrame
    <2> QED
      BY <2>1, <2>3, <2>4
  <1>3. CASE w.t.room # 0
    <2>1. w.t.room > 0
      BY <1>1, <1>3, BoundsAssumption DEF Txn
    <2>2. PICK u : u = [w.t EXCEPT !.spill = w.t.spill \ {p}]
      OBVIOUS
    <2>3. /\ u \in Txn /\ u.dirty = w.t.dirty /\ u.root = w.t.root /\ u.head0 = w.t.head0
          /\ u.last0 = w.t.last0 /\ u.spill = w.t.spill \ {p} /\ u.room = w.t.room
          /\ u.loose = w.t.loose /\ u.free = w.t.free /\ u.next = w.t.next
          /\ u.error = w.t.error
      BY <1>1, <2>2 DEF Txn
    <2>4. PICK v : v = [w EXCEPT !.t = u]
      OBVIOUS
    <2>5. /\ v \in WorkT /\ v.t = u /\ v.head = w.head /\ v.last = w.last
          /\ v.file = w.file /\ v.cur = w.cur /\ v.rc = w.rc
      BY <1>1, <2>3, <2>4 DEF WorkT
    <2>6. PICK c : c = w.file[p]
      OBVIOUS
    <2>7. c = PageOf(w, p) /\ c \in PageT
      BY <2>6, PlaceFacts
    <2>8. x = Dirtied(v, p, c)
      BY <1>3, <1>1, <2>2, <2>4, <2>6 DEF Unspill, WorkT, Txn
    <2>9. v.t.room > 0
      BY <2>1, <2>3, <2>5
    <2>10. /\ x \in WorkT /\ x.t \in Txn /\ Frame(v, x)
           /\ x.rc = v.rc /\ x.new = p /\ x.head = v.head /\ x.last = v.last
           /\ x.t.spill = v.t.spill /\ x.t.room = v.t.room - 1 /\ x.t.loose = v.t.loose
           /\ x.t.free = v.t.free /\ x.t.next = v.t.next /\ x.t.error = v.t.error
           /\ DOMAIN x.t.dirty = DOMAIN v.t.dirty \cup {p} /\ x.t.dirty[p] = c
           /\ \A q \in DOMAIN v.t.dirty : q # p => x.t.dirty[q] = v.t.dirty[q]
      BY <2>5, <2>7, <2>8, <2>9, DirtiedFields
    <2>11. Frame(w, x)
      BY <2>3, <2>5, <2>10 DEF Frame
    <2>12. /\ x.rc = w.rc /\ x.t.error = w.t.error
           /\ x.new = p /\ x.head = w.head /\ x.last = w.last /\ x.t.spill = w.t.spill \ {p}
           /\ DOMAIN x.t.dirty = DOMAIN w.t.dirty \cup {p} /\ x.t.dirty[p] = PageOf(w, p)
           /\ \A q \in DOMAIN w.t.dirty : q # p => x.t.dirty[q] = w.t.dirty[q]
           /\ x.t.room = IF WhereIs(w, p) > 0 THEN w.t.room ELSE w.t.room - 1
           /\ x.t.loose = w.t.loose /\ x.t.free = w.t.free /\ x.t.next = w.t.next
      BY <2>3, <2>5, <2>7, <2>10
    <2>13. WhereIs(w, p) < Top
      BY <1>1
    <2>14. Good(x, T) /\ Dirty(x, p) /\ PageOf(x, p) = PageOf(w, p) /\ Keeps(w, x, {p})
      BY <2>10, <2>11, <2>12, <2>13, RegainGood
    <2>15. Ok(x) /\ Typed(x)
      BY <2>14 DEF Good
    <2> QED
      BY <2>11, <2>12, <2>14, <2>15
  <1> QED
    BY <1>2, <1>3

(* An ancestor's page is copied.                                           *)
LEMMA CopyGood ==
    ASSUME Started, NEW w, NEW T, Good(w, T), NEW p \in Pgs, p \in T,
           WhereIs(w, p) > 0, WhereIs(w, p) < Top, NEW x, x = CopyFromParent(w, p)
    PROVE  /\ Frame(w, x) /\ Ok(x) /\ Good(x, T) /\ Dirty(x, p) /\ PageOf(x, p) = PageOf(w, p)
           /\ Keeps(w, x, {p}) /\ x.new = p
  <1>1. /\ w \in WorkT /\ w.t \in Txn /\ Typed(w) /\ Ok(w) /\ ~w.t.error
        /\ Top \in Nat \ {0} /\ Top > 0 /\ Stacked
        /\ DOMAIN w.t.dirty \subseteq Pgs /\ w.t.dirty \in [DOMAIN w.t.dirty -> PageT]
    BY GoodFacts
  <1>2. PICK c : c = PageOf(w, p)
    OBVIOUS
  <1>3. c \in PageT /\ p \notin DOMAIN w.t.dirty
    BY <1>2, PlaceFacts
  <1>4. p \notin w.t.spill
    BY <1>1, WorkAt
  <1>5. PICK d : d = Added(w.t.dirty, p, c)
    OBVIOUS
  <1>6. /\ DOMAIN d = DOMAIN w.t.dirty \cup {p} /\ d[p] = c
        /\ \A q \in DOMAIN w.t.dirty : q # p => d[q] = w.t.dirty[q]
    BY <1>5 DEF Added
  <1>7. d \in [DOMAIN d -> PageT] /\ DOMAIN d \subseteq Pgs
    <2>1. d = [q \in DOMAIN w.t.dirty \cup {p} |-> IF q = p THEN c ELSE w.t.dirty[q]]
      BY <1>5 DEF Added
    <2>2. \A q \in DOMAIN d : d[q] \in PageT
      BY <1>1, <1>3, <1>6
    <2> QED
      BY <2>1, <2>2, <1>1, <1>6
  <1>8. d \in Dirties
    BY <1>7, DirtyType
  <1>9. PICK u : u = [w.t EXCEPT !.dirty = d]
    OBVIOUS
  <1>10. /\ u \in Txn /\ u.dirty = d /\ u.root = w.t.root /\ u.head0 = w.t.head0
         /\ u.last0 = w.t.last0 /\ u.spill = w.t.spill /\ u.room = w.t.room
         /\ u.loose = w.t.loose /\ u.free = w.t.free /\ u.next = w.t.next
         /\ u.error = w.t.error
    BY <1>1, <1>8, <1>9 DEF Txn
  <1>11. x = [w EXCEPT !.t = u, !.new = p]
    BY <1>1, <1>2, <1>5, <1>9 DEF CopyFromParent, WorkT, Txn
  <1>12. p \in Opt
    BY DEF Opt
  <1>13. /\ x \in WorkT /\ x.t = u /\ x.new = p /\ x.head = w.head /\ x.last = w.last
         /\ x.file = w.file /\ x.cur = w.cur /\ x.rc = w.rc
    BY <1>1, <1>10, <1>11, <1>12 DEF WorkT
  <1>14. Frame(w, x)
    BY <1>10, <1>13 DEF Frame
  <1>15. /\ x.t.error = w.t.error /\ x.t.spill = w.t.spill \ {p}
         /\ DOMAIN x.t.dirty = DOMAIN w.t.dirty \cup {p} /\ x.t.dirty[p] = PageOf(w, p)
         /\ \A q \in DOMAIN w.t.dirty : q # p => x.t.dirty[q] = w.t.dirty[q]
         /\ x.t.room = IF WhereIs(w, p) > 0 THEN w.t.room ELSE w.t.room - 1
         /\ x.t.loose = w.t.loose /\ x.t.free = w.t.free /\ x.t.next = w.t.next
    BY <1>2, <1>4, <1>6, <1>10, <1>13
  <1>16. Good(x, T) /\ Dirty(x, p) /\ PageOf(x, p) = PageOf(w, p) /\ Keeps(w, x, {p})
    BY <1>13, <1>14, <1>15, RegainGood
  <1> QED
    BY <1>13, <1>14, <1>16 DEF Good

-----------------------------------------------------------------------------
(* What the calls do to a tree. *)

WithRoot(D, q)       == [D EXCEPT !.r = q]
WithKid(D, n, q)     == [D EXCEPT !.k = [D.k EXCEPT ![n] = q]]
WithLeaf(D, m, q, v) == [D EXCEPT !.k = [D.k EXCEPT ![m] = q], !.c = [D.c EXCEPT ![m] = v]]
WithVal(D, n, v)     == [D EXCEPT !.c = [D.c EXCEPT ![n] = v]]
WithBig(D, q, v)     == [D EXCEPT !.o = q, !.b = v]

(* The pages of a tree are pages.                                          *)
LEMMA TreeFacts ==
    ASSUME NEW D, WellMade(D)
    PROVE  /\ D \in Trees /\ D.r \in Pgs /\ D.r # NoPage /\ D.o \in Opt /\ D.k \in [Nodes -> Opt]
           /\ D.c \in [Nodes -> Vals \cup {NoVal}] /\ BigNode \in Nodes
           /\ PagesIn(D) \subseteq Pgs /\ D.r \in PagesIn(D)
           /\ \A n \in Nodes : D.k[n] # NoPage => D.k[n] \in PagesIn(D) /\ D.k[n] \in Pgs
           /\ D.o # NoPage => D.o \in PagesIn(D) /\ D.o \in Pgs
  <1>1. /\ D \in Trees /\ D.r \in Pgs /\ D.o \in Opt /\ D.k \in [Nodes -> Opt]
        /\ D.c \in [Nodes -> Vals \cup {NoVal}] /\ BigNode \in Nodes
    BY DEF WellMade, Trees
  <1>2. NoPage \notin Pgs
    BY PgsFinite
  <1>3. \A n \in Nodes : D.k[n] \in Opt
    BY <1>1
  <1> QED
    BY <1>1, <1>2, <1>3 DEF PagesIn, Opt

(* A tree with another root page, with another page for a node, with one   *)
(* leaf more                                                               *)
(* or less, with another value or another overflow page.                   *)
LEMMA TreeRoot ==
    ASSUME NEW D, WellMade(D), NEW q \in Pgs, q = D.r \/ q \notin PagesIn(D),
           NEW E, E = WithRoot(D, q)
    PROVE  /\ WellMade(E) /\ E.r = q /\ E.k = D.k /\ E.c = D.c /\ E.o = D.o /\ E.b = D.b
           /\ PagesIn(E) = (PagesIn(D) \ {D.r}) \cup {q}
  <1>1. D \in Trees /\ \A n \in Nodes : D.k[n] \in Opt
    BY TreeFacts
  <1>2. E \in Trees /\ E.r = q /\ E.k = D.k /\ E.c = D.c /\ E.o = D.o /\ E.b = D.b
    BY <1>1 DEF Trees, WithRoot, WithKid, WithLeaf, WithVal, WithBig
  <1>3. q # NoPage /\ D.r # NoPage
    BY PgsFinite, TreeFacts
  <1>4. WellMade(E)
    BY <1>2, <1>3 DEF WellMade, PagesIn
  <1>5. PagesIn(E) = (PagesIn(D) \ {D.r}) \cup {q}
    BY <1>2, <1>3 DEF PagesIn, WellMade
  <1> QED
    BY <1>2, <1>4, <1>5

LEMMA TreeKid ==
    ASSUME NEW D, WellMade(D), NEW n \in Nodes, D.k[n] # NoPage,
           NEW q \in Pgs, q = D.k[n] \/ q \notin PagesIn(D),
           NEW E, E = WithKid(D, n, q)
    PROVE  /\ WellMade(E) /\ E.r = D.r /\ E.c = D.c /\ E.o = D.o /\ E.b = D.b
           /\ E.k = [D.k EXCEPT ![n] = q]
           /\ E.k[n] = q /\ \A m \in Nodes : m # n => E.k[m] = D.k[m]
           /\ PagesIn(E) = (PagesIn(D) \ {D.k[n]}) \cup {q}
  <1>1. D \in Trees /\ D.k \in [Nodes -> Opt] /\ q \in Opt
    BY TreeFacts DEF Opt
  <1>2. PICK k : k = [D.k EXCEPT ![n] = q]
    OBVIOUS
  <1>3. k \in [Nodes -> Opt] /\ k[n] = q /\ \A m \in Nodes : m # n => k[m] = D.k[m]
    BY <1>1, <1>2
  <1>4. E \in Trees /\ E.r = D.r /\ E.k = k /\ E.c = D.c /\ E.o = D.o /\ E.b = D.b
    BY <1>1, <1>2, <1>3 DEF Trees, WithRoot, WithKid, WithLeaf, WithVal, WithBig
  <1>5. q # NoPage /\ D.r # NoPage
    BY PgsFinite, TreeFacts
  <1>6. WellMade(E)
    BY <1>3, <1>4, <1>5 DEF WellMade, PagesIn
  <1>7. PagesIn(E) = (PagesIn(D) \ {D.k[n]}) \cup {q}
    BY <1>3, <1>4, <1>5 DEF PagesIn, WellMade
  <1> QED
    BY <1>2, <1>3, <1>4, <1>6, <1>7

LEMMA TreeAdd ==
    ASSUME NEW D, WellMade(D), NEW m \in Nodes, D.k[m] = NoPage, NEW v \in Vals,
           NEW q \in Pgs, q \notin PagesIn(D),
           NEW E, E = WithLeaf(D, m, q, v)
    PROVE  /\ WellMade(E) /\ E.r = D.r /\ E.o = D.o /\ E.b = D.b
           /\ E.k = [D.k EXCEPT ![m] = q] /\ m # BigNode
           /\ E.k[m] = q /\ \A n \in Nodes : n # m => E.k[n] = D.k[n]
           /\ E.c[m] = v /\ \A n \in Nodes : n # m => E.c[n] = D.c[n]
           /\ PagesIn(E) = PagesIn(D) \cup {q}
  <1>1. /\ D \in Trees /\ D.k \in [Nodes -> Opt] /\ q \in Opt
        /\ D.c \in [Nodes -> Vals \cup {NoVal}]
    BY TreeFacts DEF Opt
  <1>2. PICK k, c : k = [D.k EXCEPT ![m] = q] /\ c = [D.c EXCEPT ![m] = v]
    OBVIOUS
  <1>3. /\ k \in [Nodes -> Opt] /\ k[m] = q /\ \A n \in Nodes : n # m => k[n] = D.k[n]
        /\ c \in [Nodes -> Vals \cup {NoVal}]
        /\ c[m] = v /\ \A n \in Nodes : n # m => c[n] = D.c[n]
    BY <1>1, <1>2
  <1>4. E \in Trees /\ E.r = D.r /\ E.k = k /\ E.c = c /\ E.o = D.o /\ E.b = D.b
    BY <1>1, <1>2, <1>3 DEF Trees, WithRoot, WithKid, WithLeaf, WithVal, WithBig
  <1>5. q # NoPage /\ D.r # NoPage /\ m # BigNode
    BY PgsFinite, TreeFacts DEF WellMade
  <1>6. WellMade(E)
    BY <1>3, <1>4, <1>5 DEF WellMade, PagesIn
  <1>7. PagesIn(E) = PagesIn(D) \cup {q}
    BY <1>3, <1>4, <1>5 DEF PagesIn, WellMade
  <1> QED
    BY <1>2, <1>3, <1>4, <1>5, <1>6, <1>7

LEMMA TreeDrop ==
    ASSUME NEW D, WellMade(D), NEW m \in Nodes, D.k[m] # NoPage, m # BigNode,
           NEW E, E = WithKid(D, m, NoPage)
    PROVE  /\ WellMade(E) /\ E.r = D.r /\ E.c = D.c /\ E.o = D.o /\ E.b = D.b
           /\ E.k = [D.k EXCEPT ![m] = NoPage]
           /\ E.k[m] = NoPage /\ \A n \in Nodes : n # m => E.k[n] = D.k[n]
           /\ PagesIn(E) = PagesIn(D) \ {D.k[m]}
  <1>1. D \in Trees /\ D.k \in [Nodes -> Opt] /\ NoPage \in Opt
    BY TreeFacts DEF Opt
  <1>2. PICK k : k = [D.k EXCEPT ![m] = NoPage]
    OBVIOUS
  <1>3. k \in [Nodes -> Opt] /\ k[m] = NoPage /\ \A n \in Nodes : n # m => k[n] = D.k[n]
    BY <1>1, <1>2
  <1>4. E \in Trees /\ E.r = D.r /\ E.k = k /\ E.c = D.c /\ E.o = D.o /\ E.b = D.b
    BY <1>1, <1>2, <1>3 DEF Trees, WithRoot, WithKid, WithLeaf, WithVal, WithBig
  <1>5. D.r # NoPage
    BY TreeFacts
  <1>6. WellMade(E)
    BY <1>3, <1>4, <1>5 DEF WellMade
  <1>7. PagesIn(E) = PagesIn(D) \ {D.k[m]}
    BY <1>3, <1>4, <1>5 DEF PagesIn, WellMade
  <1> QED
    BY <1>2, <1>3, <1>4, <1>6, <1>7

LEMMA TreeVal ==
    ASSUME NEW D, WellMade(D), NEW n \in Nodes, NEW v \in Vals,
           NEW E, E = WithVal(D, n, v)
    PROVE  /\ WellMade(E) /\ E.r = D.r /\ E.k = D.k /\ E.o = D.o /\ E.b = D.b
           /\ E.c[n] = v /\ \A m \in Nodes : m # n => E.c[m] = D.c[m]
           /\ PagesIn(E) = PagesIn(D)
  <1>1. D \in Trees /\ D.c \in [Nodes -> Vals \cup {NoVal}]
    BY TreeFacts
  <1>2. PICK c : c = [D.c EXCEPT ![n] = v]
    OBVIOUS
  <1>3. /\ c \in [Nodes -> Vals \cup {NoVal}]
        /\ c[n] = v /\ \A m \in Nodes : m # n => c[m] = D.c[m]
    BY <1>1, <1>2
  <1>4. E \in Trees /\ E.r = D.r /\ E.k = D.k /\ E.c = c /\ E.o = D.o /\ E.b = D.b
    BY <1>1, <1>2, <1>3 DEF Trees, WithRoot, WithKid, WithLeaf, WithVal, WithBig
  <1>5. WellMade(E)
    BY <1>3, <1>4 DEF WellMade
  <1>6. PagesIn(E) = PagesIn(D)
    BY <1>4 DEF PagesIn
  <1> QED
    BY <1>3, <1>4, <1>5, <1>6

LEMMA TreeBig ==
    ASSUME NEW D, WellMade(D), NEW q \in Opt, q \in {D.o, NoPage} \/ q \notin PagesIn(D),
           NEW v \in Vals \cup {NoVal},
           NEW E, E = WithBig(D, q, v)
    PROVE  /\ WellMade(E) /\ E.r = D.r /\ E.k = D.k /\ E.c = D.c /\ E.o = q /\ E.b = v
           /\ PagesIn(E) = ((PagesIn(D) \ {D.o}) \cup {q}) \ {NoPage}
  <1>1. D \in Trees
    BY TreeFacts
  <1>2. E \in Trees /\ E.r = D.r /\ E.k = D.k /\ E.c = D.c /\ E.o = q /\ E.b = v
    BY <1>1 DEF Trees, WithRoot, WithKid, WithLeaf, WithVal, WithBig
  <1>3. D.r # NoPage
    BY TreeFacts
  <1>4. WellMade(E)
    BY <1>2, <1>3 DEF WellMade, PagesIn
  <1>5. PagesIn(E) = ((PagesIn(D) \ {D.o}) \cup {q}) \ {NoPage}
    BY <1>2, <1>3 DEF PagesIn, WellMade
  <1> QED
    BY <1>2, <1>4, <1>5

-----------------------------------------------------------------------------
(* mdb_page_touch *)

(* Steps one after the other.                                              *)
LEMMA FrameTrans ==
    ASSUME NEW w, NEW x, NEW y, Frame(w, x), Frame(x, y)
    PROVE  Frame(w, y)
  BY DEF Frame

LEMMA KeepsTrans ==
    ASSUME NEW w, NEW x, NEW y, NEW X, NEW Y, Keeps(w, x, X), Keeps(x, y, Y)
    PROVE  Keeps(w, y, X \cup Y)
  BY DEF Keeps

LEMMA KeepsMore ==
    ASSUME NEW w, NEW x, NEW X, NEW Y, Keeps(w, x, X), X \subseteq Y
    PROVE  Keeps(w, x, Y)
  BY DEF Keeps

(* The page p has been made writable: it is the page new of x.             *)
Moved(w, x, T, p) ==
  /\ Good(x, (T \ {p}) \cup {x.new})
  /\ x.new \in Pgs /\ (x.new = p \/ x.new \notin T)
  /\ Dirty(x, x.new) /\ PageOf(x, x.new) = PageOf(w, p)
  /\ Keeps(w, x, {p, x.new})

(* A clean page is replaced by a new one.                                  *)
LEMMA RenewedGood ==
    ASSUME Started, NEW w, NEW T, Good(w, T), NEW p \in Pgs, p \in T, NEW x, x = Renewed(w, p)
    PROVE  /\ Frame(w, x)
           /\ Ok(x) => Moved(w, x, T, p)
           /\ ~Ok(x) => Failing(x)
  <1>1. PICK a : a = PageAlloc(w)
    OBVIOUS
  <1>2. /\ Typed(a) /\ Frame(w, a)
        /\ Ok(a) => /\ Good(a, T \cup {a.new}) /\ a.new \in Pgs \ T
                    /\ Dirty(a, a.new) /\ Keeps(w, a, {a.new})
        /\ ~Ok(a) => Failing(a)
    BY <1>1, AllocGood
  <1>3. CASE ~Ok(a)
    BY <1>1, <1>2, <1>3 DEF Renewed
  <1>4. CASE Ok(a)
    <2>1. PICK q, U : q = a.new /\ U = T \cup {q}
      OBVIOUS
    <2>2. /\ Good(a, U) /\ q \in Pgs /\ q \notin T /\ Dirty(a, q) /\ Keeps(w, a, {q})
      BY <1>2, <1>4, <2>1
    <2>3. PICK c : c = PageOf(w, p)
      OBVIOUS
    <2>4. c \in PageT
      BY <2>3, PlaceFacts
    <2>5. PICK b : b = [a EXCEPT !.t.dirty[q] = c]
      OBVIOUS
    <2>6. Writes(a, b, q, c)
      BY <2>5 DEF Writes
    <2>7. /\ Good(b, U) /\ Frame(a, b) /\ Keeps(a, b, {q}) /\ PageOf(b, q) = c
          /\ b.new = a.new /\ Dirty(b, q)
      <3>1. Good(a, U) /\ Dirty(a, q)
        BY <2>2
      <3>2. /\ Good(b, U) /\ Frame(a, b) /\ Keeps(a, b, {q}) /\ PageOf(b, q) = c
            /\ b.new = a.new /\ \A z : Dirty(b, z) <=> Dirty(a, z)
        <4>1. Wrote(a, b, U, q, c)
          BY <3>1, <2>4, <2>6, WriteGood
        <4> QED
          BY <4>1 DEF Wrote
      <3> QED
        BY <3>1, <3>2
    <2>8. x = FreePage(b, p)
      BY <1>1, <1>4, <2>1, <2>3, <2>5 DEF Renewed
    <2>9. p \in U
      BY <2>1
    <2>10. /\ Good(x, U \ {p}) /\ Frame(b, x) /\ Keeps(b, x, {})
           /\ x.new = b.new /\ x.t.dirty = b.t.dirty /\ x.t.spill = b.t.spill
      BY <2>7, <2>8, <2>9, FreeGood
    <2>11. x.new = q /\ Dirty(x, q)
      BY <2>1, <2>7, <2>10 DEF Dirty
    <2>12. PageOf(x, q) = c
      BY <2>2, <2>7, <2>10 DEF Keeps
    <2>13. Keeps(w, x, {p, q})
      <3>1. Keeps(w, b, {q} \cup {q})
        BY <2>2, <2>7, KeepsTrans
      <3>2. Keeps(w, x, ({q} \cup {q}) \cup {})
        BY <3>1, <2>10, KeepsTrans
      <3> QED
        BY <3>2, KeepsMore
    <2>14. U \ {p} = (T \ {p}) \cup {q}
      BY <2>1, <2>2
    <2>15. Good(x, (T \ {p}) \cup {q})
      BY <2>10, <2>14, Zenon
    <2>16. Frame(w, x)
      BY <1>2, <2>7, <2>10, FrameTrans
    <2>17. Ok(x)
      BY <2>15 DEF Good
    <2>18. Moved(w, x, T, p)
      BY <2>2, <2>3, <2>11, <2>12, <2>13, <2>15 DEF Moved
    <2> QED
      BY <2>16, <2>17, <2>18
  <1> QED
    BY <1>3, <1>4

(* A page that stays where it is in the tree has been made writable.       *)
LEMMA InPlace ==
    ASSUME NEW w, NEW x, NEW T, NEW p \in Pgs, p \in T, x.new = p, Good(x, T), Dirty(x, p),
           PageOf(x, p) = PageOf(w, p), Keeps(w, x, {p})
    PROVE  Moved(w, x, T, p)
  <1>1. T = (T \ {p}) \cup {p}
    OBVIOUS
  <1>2. Good(x, (T \ {p}) \cup {p})
    BY <1>1, Zenon
  <1>3. {p, p} = {p}
    OBVIOUS
  <1>4. Keeps(w, x, {p, p})
    BY <1>3, Zenon
  <1> QED
    BY <1>2, <1>4 DEF Moved

(* mdb_page_touch, but for the cursors.                                    *)
LEMMA WritableGood ==
    ASSUME Started, NEW w, NEW T, Good(w, T), NEW p \in Pgs, p \in T, NEW x, x = Writable(w, p)
    PROVE  /\ Frame(w, x)
           /\ Ok(x) => Moved(w, x, T, p)
           /\ ~Ok(x) => Failing(x)
  <1>1. /\ w \in WorkT /\ w.t \in Txn /\ Typed(w) /\ Ok(w) /\ ~w.t.error
        /\ Top \in Nat \ {0} /\ Stacked /\ Top > 0
        /\ ListsOK(txns, Top, w.t, w.head, w.last, T)
    BY GoodFacts
  <1>2. WhereIs(w, p) \in 0..Top
    BY PlaceFacts
  <1>3. CASE WhereIs(w, p) = Top
    <2>1. x = [w EXCEPT !.new = p]
      BY <1>3 DEF Writable
    <2>2. p \in Opt
      BY DEF Opt
    <2>3. /\ x \in WorkT /\ x.t = w.t /\ x.new = p /\ x.head = w.head /\ x.last = w.last
          /\ x.file = w.file /\ x.cur = w.cur /\ x.rc = w.rc
      BY <1>1, <2>1, <2>2 DEF WorkT
    <2>4. Frame(w, x)
      BY <2>3 DEF Frame
    <2>5. Typed(x)
      BY <1>1, <2>3, <2>4, TypedFrame
    <2>6. Good(x, T)
      BY <1>1, <2>3, <2>5 DEF Good, Ok, Lists
    <2>7. Dirty(x, p)
      BY <1>3, <2>3, PlaceFacts DEF Dirty
    <2>8. PageOf(x, p) = PageOf(w, p)
      BY <1>1, <2>3, WorkAt
    <2>9. Keeps(w, x, {p})
      BY <1>1, <2>3, KeepsBy
    <2> QED
      BY <2>3, <2>4, <2>6, <2>7, <2>8, <2>9, InPlace DEF Good
  <1>4. CASE WhereIs(w, p) > 0 /\ WhereIs(w, p) < Top
    <2>1. x = CopyFromParent(w, p)
      BY <1>4, <1>2, <1>1 DEF Writable
    <2>2. /\ Frame(w, x) /\ Ok(x) /\ Good(x, T) /\ Dirty(x, p) /\ PageOf(x, p) = PageOf(w, p)
          /\ Keeps(w, x, {p}) /\ x.new = p
      BY <1>4, <2>1, CopyGood
    <2> QED
      BY <2>2, InPlace
  <1>5. CASE WhereIs(w, p) = 0 /\ w.t.spills /\ Spilled(w, p)
    <2>1. PICK u : u = Unspill(w, p)
      OBVIOUS
    <2>2. x = IF Ok(u) THEN u ELSE Broken(u)
      BY <1>1, <1>5, <2>1 DEF Writable
    <2>3. /\ Frame(w, u) /\ Typed(u)
          /\ Ok(u) => /\ Good(u, T) /\ Dirty(u, p) /\ PageOf(u, p) = PageOf(w, p)
                      /\ Keeps(w, u, {p}) /\ u.new = p
      BY <1>5, <2>1, UnspillGood
    <2>4. CASE Ok(u)
      BY <2>2, <2>3, <2>4, InPlace
    <2>5. CASE ~Ok(u)
      <3>1. x = Broken(u)
        BY <2>2, <2>5
      <3>2. Failing(x) /\ Frame(u, x)
        BY <3>1, <2>3, BrokenFails
      <3> QED
        BY <3>2, <2>3, FrameTrans DEF Failing
    <2> QED
      BY <2>4, <2>5
  <1>6. CASE WhereIs(w, p) = 0 /\ ~(w.t.spills /\ Spilled(w, p))
    <2>1. x = Renewed(w, p)
      BY <1>1, <1>6 DEF Writable
    <2> QED
      BY <2>1, RenewedGood
  <1> QED
    BY <1>1, <1>2, <1>3, <1>4, <1>5, <1>6

(* The cursors after mdb_page_touch.                                       *)
Follows(w, x, old, new) ==
  \A c \in Cursors :
    /\ x.cur[c].own = w.cur[c].own /\ x.cur[c].at = w.cur[c].at
    /\ x.cur[c].backup = w.cur[c].backup
    /\ x.cur[c].root = IF w.cur[c].root = old THEN new ELSE w.cur[c].root
    /\ x.cur[c].leaf = IF w.cur[c].leaf = old THEN new ELSE w.cur[c].leaf

(* The cursors of a call.                                                  *)
LEMMA CursorType ==
    ASSUME Started, NEW w, Typed(w), NEW c \in Cursors
    PROVE  /\ w.cur[c] \in Cursor /\ CurFrame(w.cur[c], cur[c]) /\ cur[c] \in Cursor
           /\ Spots(Top) \subseteq Spot
  <1>1. w.cur \in [Cursors -> Cursor] /\ CurFrame(w.cur[c], cur[c]) /\ cur \in [Cursors -> Cursor]
    BY DEF Typed, WorkT, Started, Types
  <1>2. Top \in Nat
    BY Shapes DEF Started, Types
  <1> QED
    BY <1>1, <1>2 DEF Spots, Spot

(* Only what the cursors point to may differ.                              *)
LEMMA CursGood ==
    ASSUME Started, NEW w, NEW T, Good(w, T), NEW x,
           NEW q, x = [w EXCEPT !.cur = q], q \in [Cursors -> Cursor],
           \A c \in Cursors : CurFrame(q[c], cur[c])
    PROVE  /\ Good(x, T) /\ Ok(x) /\ x.cur = q /\ x.t = w.t /\ x.file = w.file /\ x.new = w.new
           /\ x.head = w.head /\ x.last = w.last
           /\ Keeps(w, x, {}) /\ \A p : Dirty(x, p) <=> Dirty(w, p)
  <1>1. /\ w \in WorkT /\ w.t \in Txn /\ Typed(w) /\ Ok(w) /\ ~w.t.error
        /\ Top \in Nat \ {0} /\ Stacked /\ Top > 0
        /\ ListsOK(txns, Top, w.t, w.head, w.last, T)
    BY GoodFacts
  <1>2. /\ x \in WorkT /\ x.t = w.t /\ x.new = w.new /\ x.head = w.head /\ x.last = w.last
        /\ x.file = w.file /\ x.cur = q /\ x.rc = w.rc
    BY <1>1 DEF WorkT
  <1>3. Typed(x)
    BY <1>1, <1>2 DEF Typed
  <1>4. Good(x, T)
    BY <1>1, <1>2, <1>3 DEF Good, Ok, Lists
  <1>5. Keeps(w, x, {})
    BY <1>1, <1>2, KeepsBy
  <1>6. \A p : Dirty(x, p) <=> Dirty(w, p)
    BY <1>2 DEF Dirty
  <1> QED
    BY <1>2, <1>4, <1>5, <1>6 DEF Good

(* The cursors on the old copy get the new one.                            *)
LEMMA RepointedGood ==
    ASSUME Started, NEW w, NEW T, Good(w, T), NEW p \in Pgs, NEW q \in Pgs, NEW i,
           NEW x, x = Repointed(w, <<i, p>>, <<Top, q>>)
    PROVE  /\ Good(x, T) /\ Ok(x) /\ x.t = w.t /\ x.file = w.file /\ x.new = w.new
           /\ x.head = w.head /\ x.last = w.last
           /\ Keeps(w, x, {}) /\ \A y : Dirty(x, y) <=> Dirty(w, y)
           /\ Follows(w, x, <<i, p>>, <<Top, q>>)
  <1>1. /\ w \in WorkT /\ Typed(w) /\ Top \in Nat /\ NoPage \notin Pgs
    BY GoodFacts, PgsFinite
  <1>2. PICK old, new : old = <<i, p>> /\ new = <<Top, q>>
    OBVIOUS
  <1>3. /\ new \in Spots(Top) /\ old # NotAt
    BY <1>1, <1>2 DEF Spots, Opt, NotAt
  <1>4. PICK g : g = [c \in Cursors |->
     [w.cur[c] EXCEPT !.root = IF @ = old THEN new ELSE @,
                      !.leaf = IF @ = old THEN new ELSE @]]
    OBVIOUS
  <1>5. x = [w EXCEPT !.cur = g]
    BY <1>2, <1>4 DEF Repointed
  <1>6. ASSUME NEW c \in Cursors
        PROVE  /\ g[c] \in Cursor /\ CurFrame(g[c], cur[c])
               /\ g[c].own = w.cur[c].own /\ g[c].at = w.cur[c].at /\ g[c].backup = w.cur[c].backup
               /\ g[c].root = IF w.cur[c].root = old THEN new ELSE w.cur[c].root
               /\ g[c].leaf = IF w.cur[c].leaf = old THEN new ELSE w.cur[c].leaf
    <2>1. PICK r, z : r = w.cur[c] /\ z = g[c]
      OBVIOUS
    <2>2. r \in Cursor /\ CurFrame(r, cur[c]) /\ Spots(Top) \subseteq Spot
      BY <1>1, <2>1, CursorType
    <2>3. z = [r EXCEPT !.root = IF @ = old THEN new ELSE @, !.leaf = IF @ = old THEN new ELSE @]
      BY <2>1, <1>4
    <2>4. /\ z.own = r.own /\ z.at = r.at /\ z.backup = r.backup
          /\ z.root = IF r.root = old THEN new ELSE r.root
          /\ z.leaf = IF r.leaf = old THEN new ELSE r.leaf
          /\ z = [own |-> z.own, at |-> z.at, root |-> z.root, leaf |-> z.leaf, backup |-> z.backup]
          /\ r = [own |-> r.own, at |-> r.at, root |-> r.root, leaf |-> r.leaf, backup |-> r.backup]
      BY <2>2, <2>3 DEF Cursor
    <2>5. z.root \in Spots(Top) /\ z.leaf \in Spots(Top)
      BY <2>2, <2>4, <1>3 DEF CurFrame
    <2>6. z \in Cursor
      BY <2>2, <2>4, <2>5 DEF Cursor
    <2>7. ASSUME cur[c].own = 0
          PROVE  z = Closed
      <3>1. r = Closed
        BY <2>2, <2>7 DEF CurFrame
      <3>2. r.root = NotAt /\ r.leaf = NotAt
        BY <3>1 DEF Closed
      <3>3. z.root = r.root /\ z.leaf = r.leaf
        BY <3>2, <2>4, <1>3
      <3>4. z = r
        BY <3>3, <2>4
      <3> QED
        BY <3>4, <3>1
    <2>8. CurFrame(z, cur[c])
      BY <2>2, <2>4, <2>5, <2>7 DEF CurFrame
    <2> QED
      BY <2>1, <2>4, <2>6, <2>8
  <1>7. g \in [Cursors -> Cursor]
    <2>1. \A c \in Cursors : g[c] \in Cursor
      BY <1>6
    <2> QED
      BY <1>4, <2>1
  <1>8. \A c \in Cursors : CurFrame(g[c], cur[c])
    BY <1>6
  <1>9. /\ Good(x, T) /\ Ok(x) /\ x.cur = g /\ x.t = w.t /\ x.file = w.file /\ x.new = w.new
        /\ x.head = w.head /\ x.last = w.last
        /\ Keeps(w, x, {}) /\ \A y : Dirty(x, y) <=> Dirty(w, y)
    BY <1>5, <1>7, <1>8, CursGood
  <1>10. Follows(w, x, old, new)
    BY <1>6, <1>9 DEF Follows
  <1> QED
    BY <1>2, <1>9, <1>10

(* mdb_page_touch                                                          *)
LEMMA TouchedGood ==
    ASSUME Started, NEW w, NEW T, Good(w, T), NEW p \in Pgs, p \in T, NEW x, x = Touched(w, p)
    PROVE  /\ x.file = w.file /\ Typed(x)
           /\ Ok(x) => /\ Moved(w, x, T, p) /\ Follows(w, x, At(w, p), <<Top, x.new>>)
                       /\ x.t.root = w.t.root
           /\ ~Ok(x) => Failing(x)
  <1>1. PICK y : y = Writable(w, p)
    OBVIOUS
  <1>2. /\ Frame(w, y)
        /\ Ok(y) => Moved(w, y, T, p)
        /\ ~Ok(y) => Failing(y)
    BY <1>1, WritableGood
  <1>3. CASE ~Ok(y)
    <2>1. x = y
      BY <1>1, <1>3 DEF Touched
    <2> QED
      BY <2>1, <1>2, <1>3 DEF Failing, Frame
  <1>4. CASE Ok(y)
    <2>1. PICK q, U, i : q = y.new /\ U = (T \ {p}) \cup {q} /\ i = WhereIs(w, p)
      OBVIOUS
    <2>2. /\ Good(y, U) /\ q \in Pgs /\ (q = p \/ q \notin T)
          /\ Dirty(y, q) /\ PageOf(y, q) = PageOf(w, p) /\ Keeps(w, y, {p, q})
      BY <1>2, <1>4, <2>1 DEF Moved
    <2>3. x = Repointed(y, <<i, p>>, <<Top, q>>)
      BY <1>1, <1>4, <2>1 DEF Touched, At
    <2>4. /\ Good(x, U) /\ Ok(x) /\ x.t = y.t /\ x.file = y.file /\ x.new = y.new
          /\ Keeps(y, x, {}) /\ \A z : Dirty(x, z) <=> Dirty(y, z)
          /\ Follows(y, x, <<i, p>>, <<Top, q>>)
      BY <2>2, <2>3, RepointedGood, SMTT(30)
    <2>5. Follows(w, x, At(w, p), <<Top, x.new>>)
      BY <2>1, <2>4, <1>2 DEF Follows, Frame, At
    <2>6. PageOf(x, q) = PageOf(w, p)
      BY <2>2, <2>4 DEF Keeps
    <2>7. Keeps(w, x, {p, q})
      <3>1. Keeps(w, x, {p, q} \cup {})
        BY <2>2, <2>4, KeepsTrans
      <3> QED
        BY <3>1, KeepsMore
    <2>8. Moved(w, x, T, p)
      BY <2>1, <2>2, <2>4, <2>6, <2>7 DEF Moved
    <2>9. x.file = w.file /\ x.t.root = w.t.root /\ Typed(x)
      BY <1>2, <2>4 DEF Frame, Good
    <2> QED
      BY <2>4, <2>5, <2>8, <2>9
  <1> QED
    BY <1>3, <1>4

-----------------------------------------------------------------------------
(* The way to a leaf. *)

PointsIn(r, w, D) ==
  IF r.at = NoNode THEN r.leaf = NotAt
  ELSE r.root = At(w, D.r) /\ D.k[r.at] # NoPage /\ r.leaf = At(w, D.k[r.at])
Shown(w, D) == Shows(D, Chain(w), Top, w.file)

(* The transaction at work is as it should be, with the tree D.            *)
Fine(w, D) ==
  /\ Good(w, PagesIn(D)) /\ WellMade(D) /\ D.r = w.t.root /\ Shown(w, D)
  /\ \A c \in Cursors : PointsIn(w.cur[c], w, D)

(* The same to whoever reads it.                                           *)
Alike(D, E) ==
  /\ E.c = D.c /\ E.o = D.o /\ E.b = D.b
  /\ \A n \in Nodes : E.k[n] = NoPage <=> D.k[n] = NoPage

(* What a call shows of a tree.                                            *)
LEMMA ShownIs ==
    ASSUME NEW w, NEW D
    PROVE  Shown(w, D) <=>
             /\ PageOf(w, D.r).kids = D.k
             /\ \A n \in Nodes : D.k[n] # NoPage =>
                  /\ PageOf(w, D.k[n]).val = D.c[n]
                  /\ PageOf(w, D.k[n]).ov = IF n = BigNode THEN D.o ELSE NoPage
             /\ D.o # NoPage => PageOf(w, D.o).val = D.b
  BY DEF Shown, Shows, PageOf

LEMMA FineFacts ==
    ASSUME Started, NEW w, NEW D, Fine(w, D)
    PROVE  /\ w \in WorkT /\ w.t \in Txn /\ Typed(w) /\ Ok(w) /\ ~w.t.error
           /\ Top \in Nat \ {0} /\ Top - 1 \in Nat /\ Stacked /\ Top > 0
           /\ Good(w, PagesIn(D)) /\ WellMade(D) /\ D.r = w.t.root /\ Shown(w, D)
           /\ \A c \in Cursors : PointsIn(w.cur[c], w, D)
           /\ \A n \in Nodes : KidOf(w, n) = D.k[n]
  <1>1. /\ Good(w, PagesIn(D)) /\ WellMade(D) /\ D.r = w.t.root /\ Shown(w, D)
        /\ \A c \in Cursors : PointsIn(w.cur[c], w, D)
    BY DEF Fine
  <1>2. /\ w \in WorkT /\ w.t \in Txn /\ Typed(w) /\ Ok(w) /\ ~w.t.error
        /\ Top \in Nat \ {0} /\ Top - 1 \in Nat /\ Stacked /\ Top > 0
    BY <1>1, GoodFacts
  <1>3. Chain(w)[Top] = w.t
    BY <1>2, ChainFacts
  <1>4. \A n \in Nodes : KidOf(w, n) = D.k[n]
    BY <1>1, <1>3 DEF KidOf, Kids, Shown, Shows
  <1> QED
    BY <1>1, <1>2, <1>4

(* Edits of a dirty page.                                                  *)
LEMMA EditKid ==
    ASSUME Started, NEW w, NEW T, Good(w, T), NEW p, Dirty(w, p), NEW n \in Nodes, NEW q \in Opt,
           NEW x, x = [w EXCEPT !.t.dirty[p].kids[n] = q]
    PROVE  \E c \in PageT : /\ Wrote(w, x, T, p, c)
                            /\ c.kids = [PageOf(w, p).kids EXCEPT ![n] = q]
                            /\ c.val = PageOf(w, p).val /\ c.ov = PageOf(w, p).ov
  <1>1. /\ w \in WorkT /\ w.t \in Txn /\ Stacked /\ Top > 0
        /\ DOMAIN w.t.dirty \subseteq Pgs /\ w.t.dirty \in [DOMAIN w.t.dirty -> PageT]
    BY GoodFacts
  <1>2. p \in DOMAIN w.t.dirty /\ p \notin w.t.spill
    BY DEF Dirty
  <1>3. PICK b : b = w.t.dirty[p]
    OBVIOUS
  <1>4. b \in PageT /\ PageOf(w, p) = b
    <2>1. b \in PageT
      BY <1>1, <1>2, <1>3
    <2>2. PageOf(w, p) = b
      BY <1>1, <1>2, <1>3, WorkAt
    <2> QED
      BY <2>1, <2>2
  <1>5. PICK k : k = [b.kids EXCEPT ![n] = q]
    OBVIOUS
  <1>6. k \in [Nodes -> Opt]
    <2>1. b.kids \in [Nodes -> Opt]
      BY <1>4 DEF PageT
    <2> QED
      BY <2>1, <1>5
  <1>7. PICK c : c = [b EXCEPT !.kids = k]
    OBVIOUS
  <1>8. c \in PageT /\ c.kids = k /\ c.val = b.val /\ c.ov = b.ov
    BY <1>4, <1>6, <1>7 DEF PageT
  <1>9. Writes(w, x, p, c)
    <2>1. x = [w EXCEPT !.t.dirty[p] = c]
      BY <1>1, <1>2, <1>3, <1>4, <1>5, <1>7 DEF WorkT, Txn, PageT
    <2> QED
      BY <2>1 DEF Writes
  <1>10. Wrote(w, x, T, p, c)
    BY <1>8, <1>9, WriteGood
  <1> QED
    BY <1>4, <1>5, <1>8, <1>10

(* A leaf gets another value, or another overflow page.                    *)
LEMMA EditVal ==
    ASSUME Started, NEW w, NEW T, Good(w, T), NEW p, Dirty(w, p), NEW v \in Vals,
           NEW x, x = [w EXCEPT !.t.dirty[p].val = v]
    PROVE  \E c \in PageT : /\ Wrote(w, x, T, p, c)
                            /\ c.kids = PageOf(w, p).kids /\ c.val = v /\ c.ov = PageOf(w, p).ov
  <1>1. /\ w \in WorkT /\ w.t \in Txn /\ Stacked /\ Top > 0
        /\ DOMAIN w.t.dirty \subseteq Pgs /\ w.t.dirty \in [DOMAIN w.t.dirty -> PageT]
    BY GoodFacts
  <1>2. p \in DOMAIN w.t.dirty /\ p \notin w.t.spill
    BY DEF Dirty
  <1>3. PICK b : b = w.t.dirty[p]
    OBVIOUS
  <1>4. b \in PageT /\ PageOf(w, p) = b
    <2>1. b \in PageT
      BY <1>1, <1>2, <1>3
    <2>2. PageOf(w, p) = b
      BY <1>1, <1>2, <1>3, WorkAt
    <2> QED
      BY <2>1, <2>2
  <1>5. PICK c : c = [b EXCEPT !.val = v]
    OBVIOUS
  <1>6. c \in PageT /\ c.kids = b.kids /\ c.val = v /\ c.ov = b.ov
    BY <1>4, <1>5 DEF PageT
  <1>7. Writes(w, x, p, c)
    BY <1>1, <1>2, <1>3, <1>5 DEF WorkT, Txn, Writes
  <1>8. Wrote(w, x, T, p, c)
    BY <1>6, <1>7, WriteGood
  <1> QED
    BY <1>4, <1>6, <1>8

LEMMA EditOv ==
    ASSUME Started, NEW w, NEW T, Good(w, T), NEW p, Dirty(w, p), NEW o \in Opt,
           NEW x, x = [w EXCEPT !.t.dirty[p].ov = o]
    PROVE  \E c \in PageT : /\ Wrote(w, x, T, p, c)
                            /\ c.kids = PageOf(w, p).kids /\ c.val = PageOf(w, p).val /\ c.ov = o
  <1>1. /\ w \in WorkT /\ w.t \in Txn /\ Stacked /\ Top > 0
        /\ DOMAIN w.t.dirty \subseteq Pgs /\ w.t.dirty \in [DOMAIN w.t.dirty -> PageT]
    BY GoodFacts
  <1>2. p \in DOMAIN w.t.dirty /\ p \notin w.t.spill
    BY DEF Dirty
  <1>3. PICK b : b = w.t.dirty[p]
    OBVIOUS
  <1>4. b \in PageT /\ PageOf(w, p) = b
    <2>1. b \in PageT
      BY <1>1, <1>2, <1>3
    <2>2. PageOf(w, p) = b
      BY <1>1, <1>2, <1>3, WorkAt
    <2> QED
      BY <2>1, <2>2
  <1>5. PICK c : c = [b EXCEPT !.ov = o]
    OBVIOUS
  <1>6. c \in PageT /\ c.kids = b.kids /\ c.val = b.val /\ c.ov = o
    BY <1>4, <1>5 DEF PageT
  <1>7. Writes(w, x, p, c)
    BY <1>1, <1>2, <1>3, <1>5 DEF WorkT, Txn, Writes
  <1>8. Wrote(w, x, T, p, c)
    BY <1>6, <1>7, WriteGood
  <1> QED
    BY <1>4, <1>6, <1>8

(* The root that w.t.root names is not part of the lists.                  *)
LEMMA RootGood ==
    ASSUME Started, NEW w, NEW T, Good(w, T), NEW q \in Pgs, NEW x, x = [w EXCEPT !.t.root = q]
    PROVE  /\ Good(x, T) /\ Ok(x) /\ x.t.root = q /\ x.file = w.file /\ x.cur = w.cur /\ x.new = w.new
           /\ Keeps(w, x, {}) /\ \A p : Dirty(x, p) <=> Dirty(w, p)
  <1>1. /\ w \in WorkT /\ w.t \in Txn /\ Typed(w) /\ Ok(w) /\ ~w.t.error
        /\ Top \in Nat \ {0} /\ Stacked /\ Top > 0
        /\ ListsOK(txns, Top, w.t, w.head, w.last, T)
    BY GoodFacts
  <1>2. PICK u : u = [w.t EXCEPT !.root = q]
    OBVIOUS
  <1>3. /\ u \in Txn /\ u.dirty = w.t.dirty /\ u.root = q /\ u.head0 = w.t.head0
        /\ u.last0 = w.t.last0 /\ u.spill = w.t.spill /\ u.room = w.t.room
        /\ u.loose = w.t.loose /\ u.free = w.t.free /\ u.next = w.t.next
        /\ u.error = w.t.error
    BY <1>1, <1>2 DEF Txn
  <1>4. x = [w EXCEPT !.t = u]
    BY <1>1, <1>2 DEF WorkT
  <1>5. /\ x \in WorkT /\ x.t = u /\ x.new = w.new /\ x.head = w.head /\ x.last = w.last
        /\ x.file = w.file /\ x.cur = w.cur /\ x.rc = w.rc
    BY <1>1, <1>3, <1>4 DEF WorkT
  <1>6. Typed(x)
    BY <1>1, <1>3, <1>5 DEF Typed
  <1>7. SameLists(w.t, u)
    BY <1>3 DEF SameLists
  <1>8. ListsOK(txns, Top, u, w.head, w.last, T)
    BY <1>1, <1>7, ListsSame
  <1>9. Good(x, T)
    BY <1>1, <1>3, <1>5, <1>6, <1>8 DEF Good, Ok, Lists
  <1>10. Keeps(w, x, {})
    BY <1>1, <1>3, <1>5, KeepsBy
  <1>11. \A p : Dirty(x, p) <=> Dirty(w, p)
    BY <1>3, <1>5 DEF Dirty
  <1> QED
    BY <1>3, <1>5, <1>9, <1>10, <1>11 DEF Good

(* The cursors of the old page follow to the new one.                      *)
LEMMA PointsFollow ==
    ASSUME Started, NEW w, NEW D, Fine(w, D), NEW p \in Pgs, p \in PagesIn(D), NEW x,
           NEW q, q = x.new, Good(x, (PagesIn(D) \ {p}) \cup {q}), Moved(w, x, PagesIn(D), p),
           Follows(w, x, At(w, p), <<Top, q>>), NEW c \in Cursors, w.cur[c].at # NoNode
    PROVE  /\ x.cur[c].at = w.cur[c].at
           /\ x.cur[c].root = IF D.r = p THEN At(x, q) ELSE At(x, D.r)
           /\ D.k[w.cur[c].at] # NoPage
           /\ x.cur[c].leaf = IF D.k[w.cur[c].at] = p THEN At(x, q) ELSE At(x, D.k[w.cur[c].at])
  <1>1. PICK a : a = w.cur[c].at
    OBVIOUS
  <1>2. a \in Nodes
    <2>1. w.cur[c] \in Cursor
      BY FineFacts, CursorType
    <2> QED
      BY <2>1, <1>1 DEF Cursor
  <1>3. /\ WellMade(D) /\ w.cur[c].root = At(w, D.r) /\ D.k[a] # NoPage
        /\ w.cur[c].leaf = At(w, D.k[a])
    BY <1>1, FineFacts DEF PointsIn
  <1>4. /\ D.r \in Pgs /\ D.k[a] \in Pgs /\ D.r \in PagesIn(D) /\ D.k[a] \in PagesIn(D)
    BY <1>2, <1>3, TreeFacts
  <1>5. /\ q \in Pgs /\ (q = p \/ q \notin PagesIn(D)) /\ Dirty(x, q) /\ Keeps(w, x, {p, q})
    BY DEF Moved
  <1>6. At(x, q) = <<Top, q>>
    BY <1>5, PlaceFacts DEF At
  <1>7. \A z \in PagesIn(D) : z # p => At(x, z) = At(w, z)
    <2>1. PagesIn(D) \subseteq Pgs
      BY <1>3, TreeFacts
    <2> QED
      BY <1>5, <2>1 DEF Keeps, At
  <1>8. \A z : At(w, z) = At(w, p) <=> z = p
    BY DEF At
  <1>9. /\ x.cur[c].at = a
        /\ x.cur[c].root = IF At(w, D.r) = At(w, p) THEN At(x, q) ELSE At(w, D.r)
        /\ x.cur[c].leaf = IF At(w, D.k[a]) = At(w, p) THEN At(x, q) ELSE At(w, D.k[a])
    BY <1>1, <1>3, <1>6 DEF Follows
  <1> QED
    BY <1>1, <1>3, <1>4, <1>7, <1>8, <1>9

(* mdb_cursor_touch, page after page.                                      *)
LEMMA FineRoot ==
    ASSUME Started, NEW w, NEW D, Fine(w, D), NEW x, x = TouchRoot(w)
    PROVE  /\ x.file = w.file /\ Typed(x)
           /\ Ok(x) => \E E : Fine(x, E) /\ Alike(D, E) /\ E.k = D.k /\ Dirty(x, E.r)
           /\ ~Ok(x) => Failing(x)
  <1>1. /\ Good(w, PagesIn(D)) /\ WellMade(D) /\ D.r = w.t.root /\ Shown(w, D)
        /\ Top > 0 /\ Top \in Nat
    BY FineFacts
  <1>2. PICK r, T : r = D.r /\ T = PagesIn(D)
    OBVIOUS
  <1>3. /\ r \in Pgs /\ r \in T /\ T \subseteq Pgs
        /\ \A n \in Nodes : D.k[n] # NoPage => D.k[n] \in T /\ D.k[n] # r
        /\ D.o # NoPage => D.o \in T /\ D.o # r
    BY <1>1, <1>2, TreeFacts DEF WellMade
  <1>4. PICK y : y = Touched(w, r)
    OBVIOUS
  <1>5. /\ y.file = w.file /\ Typed(y)
        /\ Ok(y) => /\ Moved(w, y, T, r) /\ Follows(w, y, At(w, r), <<Top, y.new>>)
                    /\ y.t.root = w.t.root
        /\ ~Ok(y) => Failing(y)
    BY <1>1, <1>2, <1>3, <1>4, TouchedGood
  <1>6. CASE ~Ok(y)
    <2>1. x = y
      BY <1>1, <1>2, <1>4, <1>6 DEF TouchRoot
    <2> QED
      BY <2>1, <1>5, <1>6
  <1>7. CASE Ok(y)
    <2>1. PICK q, U : q = y.new /\ U = (T \ {r}) \cup {q}
      OBVIOUS
    <2>2. /\ Good(y, U) /\ q \in Pgs /\ (q = r \/ q \notin T)
          /\ Dirty(y, q) /\ PageOf(y, q) = PageOf(w, r) /\ Keeps(w, y, {r, q})
      BY <1>5, <1>7, <2>1 DEF Moved
    <2>3. x = [y EXCEPT !.t.root = q]
      BY <1>1, <1>2, <1>4, <1>7, <2>1 DEF TouchRoot
    <2>4. /\ Good(x, U) /\ Ok(x) /\ x.t.root = q /\ x.file = y.file /\ x.cur = y.cur /\ x.new = y.new
          /\ Keeps(y, x, {}) /\ \A z : Dirty(x, z) <=> Dirty(y, z)
      BY <2>2, <2>3, RootGood
    <2>5. PICK E : E = WithRoot(D, q)
      OBVIOUS
    <2>6. /\ WellMade(E) /\ E.r = q /\ E.k = D.k /\ E.c = D.c /\ E.o = D.o /\ E.b = D.b
          /\ PagesIn(E) = U
      BY <1>1, <1>2, <2>1, <2>2, <2>5, TreeRoot
    <2>7. \A z \in T : z # r => PageOf(x, z) = PageOf(w, z)
      BY <1>3, <2>2, <2>4 DEF Keeps
    <2>8. PageOf(x, q) = PageOf(w, r)
      BY <2>2, <2>4 DEF Keeps
    <2>9. Shown(x, E)
      <3>1. PageOf(x, E.r).kids = E.k
        BY <1>1, <1>2, <2>6, <2>8, ShownIs
      <3>2. \A n \in Nodes : E.k[n] # NoPage =>
                  /\ PageOf(x, E.k[n]).val = E.c[n]
                  /\ PageOf(x, E.k[n]).ov = IF n = BigNode THEN E.o ELSE NoPage
        BY <1>1, <1>3, <2>6, <2>7, ShownIs
      <3>3. E.o # NoPage => PageOf(x, E.o).val = E.b
        BY <1>1, <1>3, <2>6, <2>7, ShownIs
      <3> QED
        BY <3>1, <3>2, <3>3, ShownIs
    <2>10. \A z \in Pgs : At(x, z) = At(y, z)
      BY <2>4 DEF Keeps, At
    <2>11. ASSUME NEW c \in Cursors
           PROVE  PointsIn(x.cur[c], x, E)
      <3>1. CASE w.cur[c].at = NoNode
        <4>1. w.cur[c].leaf = NotAt /\ At(w, r) # NotAt
          <5>1. r # NoPage /\ PointsIn(w.cur[c], w, D)
            BY <1>3, PgsFinite, FineFacts
          <5> QED
            BY <3>1, <5>1 DEF PointsIn, At, NotAt
        <4>2. y.cur[c].at = NoNode /\ y.cur[c].leaf = NotAt
          BY <3>1, <4>1, <1>5, <1>7 DEF Follows
        <4> QED
          BY <4>2, <2>4 DEF PointsIn
      <3>2. CASE w.cur[c].at # NoNode
        <4>1. PICK a : a = w.cur[c].at
          OBVIOUS
        <4>2. a \in Nodes
          <5>1. w.cur[c] \in Cursor
            BY FineFacts, CursorType
          <5> QED
            BY <5>1, <3>2, <4>1 DEF Cursor
        <4>3. /\ y.cur[c].at = a
              /\ y.cur[c].root = IF D.r = r THEN At(y, q) ELSE At(y, D.r)
              /\ D.k[a] # NoPage
              /\ y.cur[c].leaf = IF D.k[a] = r THEN At(y, q) ELSE At(y, D.k[a])
          <5>1. /\ Good(y, (PagesIn(D) \ {r}) \cup {q}) /\ Moved(w, y, PagesIn(D), r)
                /\ Follows(w, y, At(w, r), <<Top, q>>) /\ r \in PagesIn(D)
            BY <1>2, <1>3, <1>5, <1>7, <2>1, <2>2
          <5> QED
            BY <1>3, <2>1, <3>2, <4>1, <5>1, PointsFollow
        <4>4. D.k[a] # r /\ D.k[a] \in Pgs
          BY <4>2, <4>3, <1>3
        <4> QED
          BY <3>2, <4>1, <4>3, <4>4, <1>2, <2>2, <2>4, <2>6, <2>10 DEF PointsIn
      <3> QED
        BY <3>1, <3>2
    <2>12. Good(x, PagesIn(E))
      BY <2>4, <2>6
    <2>13. Fine(x, E)
      BY <2>4, <2>6, <2>9, <2>11, <2>12 DEF Fine
    <2>14. Alike(D, E) /\ Dirty(x, E.r)
      BY <2>2, <2>4, <2>6 DEF Alike
    <2>15. Typed(x) /\ x.file = w.file
      BY <1>5, <2>4 DEF Good
    <2> QED
      BY <2>4, <2>6, <2>13, <2>14, <2>15
  <1> QED
    BY <1>6, <1>7

LEMMA FineLeaf ==
    ASSUME Started, NEW w, NEW D, Fine(w, D), Dirty(w, D.r), NEW n \in Nodes, D.k[n] # NoPage,
           NEW x, x = TouchLeaf(w, n)
    PROVE  /\ x.file = w.file /\ Typed(x)
           /\ Ok(x) => \E E : Fine(x, E) /\ Alike(D, E) /\ Dirty(x, E.r) /\ Dirty(x, E.k[n])
           /\ ~Ok(x) => Failing(x)
  <1>1. /\ Good(w, PagesIn(D)) /\ WellMade(D) /\ D.r = w.t.root /\ Shown(w, D)
        /\ Top > 0 /\ Top \in Nat /\ KidOf(w, n) = D.k[n] /\ Ok(w)
    BY FineFacts
  <1>2. PICK r, T, p : r = D.r /\ T = PagesIn(D) /\ p = D.k[n]
    OBVIOUS
  <1>3. /\ r \in Pgs /\ r \in T /\ T \subseteq Pgs /\ p \in Pgs /\ p \in T /\ p # r
        /\ \A m \in Nodes : D.k[m] # NoPage => D.k[m] \in T /\ D.k[m] # r /\ (m # n => D.k[m] # p)
        /\ D.o # NoPage => D.o \in T /\ D.o # r /\ D.o # p
    BY <1>1, <1>2, TreeFacts DEF WellMade
  <1>4. PICK y : y = Touched(w, p)
    OBVIOUS
  <1>5. /\ y.file = w.file /\ Typed(y)
        /\ Ok(y) => /\ Moved(w, y, T, p) /\ Follows(w, y, At(w, p), <<Top, y.new>>)
                    /\ y.t.root = w.t.root
        /\ ~Ok(y) => Failing(y)
    BY <1>1, <1>2, <1>3, <1>4, TouchedGood
  <1>6. CASE ~Ok(y)
    <2>1. x = y
      BY <1>1, <1>2, <1>4, <1>6 DEF TouchLeaf
    <2> QED
      BY <2>1, <1>5, <1>6
  <1>7. CASE Ok(y)
    <2>1. PICK q, U : q = y.new /\ U = (T \ {p}) \cup {q}
      OBVIOUS
    <2>2. /\ Good(y, U) /\ q \in Pgs /\ (q = p \/ q \notin T)
          /\ Dirty(y, q) /\ PageOf(y, q) = PageOf(w, p) /\ Keeps(w, y, {p, q})
      BY <1>5, <1>7, <2>1 DEF Moved
    <2>3. r # q /\ PageOf(y, r) = PageOf(w, r) /\ WhereIs(y, r) = WhereIs(w, r)
      BY <1>3, <2>2 DEF Keeps
    <2>4. Dirty(y, r)
      <3>1. WhereIs(w, r) = Top
        BY <1>1, <1>2, <1>3, PlaceFacts
      <3> QED
        BY <1>3, <2>2, <2>3, <3>1, PlaceFacts
    <2>5. x = [y EXCEPT !.t.dirty[r].kids[n] = q]
      <3>1. x = SetKid(y, n, y.new)
        BY <1>1, <1>2, <1>4, <1>7 DEF TouchLeaf
      <3>2. y.t.root = r
        BY <1>1, <1>2, <1>5, <1>7
      <3> QED
        BY <2>1, <3>1, <3>2 DEF SetKid
    <2>6. q \in Opt
      BY <2>2 DEF Opt
    <2>7. PICK c \in PageT : /\ Wrote(y, x, U, r, c)
                             /\ c.kids = [PageOf(y, r).kids EXCEPT ![n] = q]
      BY <2>2, <2>4, <2>5, <2>6, EditKid
    <2>8. /\ Good(x, U) /\ Frame(y, x) /\ Keeps(y, x, {r}) /\ PageOf(x, r) = c
          /\ WhereIs(x, r) = WhereIs(y, r) /\ \A z : Dirty(x, z) <=> Dirty(y, z)
      BY <2>7 DEF Wrote
    <2>9. PICK E : E = WithKid(D, n, q)
      OBVIOUS
    <2>10. /\ WellMade(E) /\ E.r = D.r /\ E.c = D.c /\ E.o = D.o /\ E.b = D.b
           /\ E.k = [D.k EXCEPT ![n] = q]
           /\ E.k[n] = q /\ \A m \in Nodes : m # n => E.k[m] = D.k[m]
           /\ PagesIn(E) = U
      <3>1. q = D.k[n] \/ q \notin PagesIn(D)
        BY <1>2, <2>2
      <3>2. U = (PagesIn(D) \ {D.k[n]}) \cup {q}
        BY <1>2, <2>1
      <3>3. /\ WellMade(E) /\ E.r = D.r /\ E.c = D.c /\ E.o = D.o /\ E.b = D.b
            /\ E.k = [D.k EXCEPT ![n] = q]
            /\ E.k[n] = q /\ \A m \in Nodes : m # n => E.k[m] = D.k[m]
            /\ PagesIn(E) = (PagesIn(D) \ {D.k[n]}) \cup {q}
        BY <1>1, <2>2, <2>9, <3>1, TreeKid
      <3> QED
        BY <3>2, <3>3, Zenon
    <2>11. \A z \in T : z # p /\ z # r => PageOf(x, z) = PageOf(w, z)
      BY <1>3, <2>2, <2>8 DEF Keeps
    <2>12. PageOf(x, q) = PageOf(w, p)
      BY <2>2, <2>3, <2>8 DEF Keeps
    <2>13. Shown(x, E)
      <3>1. PageOf(x, E.r).kids = E.k
        <4>1. PageOf(w, r).kids = D.k
          BY <1>1, <1>2, ShownIs
        <4> QED
          BY <4>1, <1>2, <2>3, <2>7, <2>8, <2>10
      <3>2. ASSUME NEW m \in Nodes, E.k[m] # NoPage
            PROVE  /\ PageOf(x, E.k[m]).val = E.c[m]
                   /\ PageOf(x, E.k[m]).ov = IF m = BigNode THEN E.o ELSE NoPage
        <4>1. CASE m = n
          BY <4>1, <1>1, <1>2, <2>10, <2>12, ShownIs
        <4>2. CASE m # n
          BY <4>2, <3>2, <1>1, <1>3, <2>10, <2>11, ShownIs
        <4> QED
          BY <4>1, <4>2
      <3>3. E.o # NoPage => PageOf(x, E.o).val = E.b
        BY <1>1, <1>3, <2>10, <2>11, ShownIs
      <3> QED
        BY <3>1, <3>2, <3>3, ShownIs
    <2>14. \A z \in Pgs : At(x, z) = At(y, z)
      BY <2>8 DEF Keeps, At
    <2>15. x.cur = y.cur /\ x.file = w.file /\ x.t.root = D.r /\ Typed(x) /\ Ok(x)
      BY <1>1, <1>5, <1>7, <2>8 DEF Frame, Good
    <2>16. ASSUME NEW d \in Cursors
           PROVE  PointsIn(x.cur[d], x, E)
      <3>1. CASE w.cur[d].at = NoNode
        <4>1. w.cur[d].leaf = NotAt /\ At(w, p) # NotAt
          <5>1. p # NoPage /\ PointsIn(w.cur[d], w, D)
            BY <1>3, PgsFinite, FineFacts
          <5> QED
            BY <3>1, <5>1 DEF PointsIn, At, NotAt
        <4>2. y.cur[d].at = NoNode /\ y.cur[d].leaf = NotAt
          BY <3>1, <4>1, <1>5, <1>7 DEF Follows
        <4> QED
          BY <4>2, <2>15 DEF PointsIn
      <3>2. CASE w.cur[d].at # NoNode
        <4>1. PICK a : a = w.cur[d].at
          OBVIOUS
        <4>2. a \in Nodes
          <5>1. w.cur[d] \in Cursor
            BY FineFacts, CursorType
          <5> QED
            BY <5>1, <3>2, <4>1 DEF Cursor
        <4>3. /\ y.cur[d].at = a
              /\ y.cur[d].root = IF D.r = p THEN At(y, q) ELSE At(y, D.r)
              /\ D.k[a] # NoPage
              /\ y.cur[d].leaf = IF D.k[a] = p THEN At(y, q) ELSE At(y, D.k[a])
          <5>1. /\ Good(y, (PagesIn(D) \ {p}) \cup {q}) /\ Moved(w, y, PagesIn(D), p)
                /\ Follows(w, y, At(w, p), <<Top, q>>) /\ p \in PagesIn(D)
            BY <1>2, <1>3, <1>5, <1>7, <2>1, <2>2
          <5> QED
            BY <1>3, <2>1, <3>2, <4>1, <5>1, PointsFollow, SMTT(30)
        <4>4. E.k[a] = (IF D.k[a] = p THEN q ELSE D.k[a]) /\ E.k[a] \in Pgs
          BY <4>2, <4>3, <1>2, <1>3, <2>2, <2>10
        <4>5. E.k[a] # NoPage
          BY <4>4, PgsFinite
        <4>6. y.cur[d].leaf = At(y, E.k[a]) /\ y.cur[d].root = At(y, D.r)
          BY <4>3, <4>4, <1>2, <1>3
        <4> QED
          BY <3>2, <4>1, <4>3, <4>4, <4>5, <4>6, <1>2, <1>3, <2>10, <2>14, <2>15 DEF PointsIn
      <3> QED
        BY <3>1, <3>2
    <2>17. Good(x, PagesIn(E))
      BY <2>8, <2>10
    <2>18. Fine(x, E)
      BY <2>10, <2>13, <2>15, <2>16, <2>17 DEF Fine
    <2>19. Alike(D, E) /\ Dirty(x, E.r) /\ Dirty(x, E.k[n])
      <3>1. q # NoPage
        BY <2>2, PgsFinite
      <3> QED
        BY <1>2, <2>2, <2>4, <2>8, <2>10, <3>1 DEF Alike
    <2> QED
      BY <2>15, <2>18, <2>19
  <1> QED
    BY <1>6, <1>7

LEMMA FinePath ==
    ASSUME Started, NEW w, NEW D, Fine(w, D), NEW n \in Nodes, D.k[n] # NoPage,
           NEW x, x = Path(w, n)
    PROVE  /\ x.file = w.file /\ Typed(x)
           /\ Ok(x) => \E E : Fine(x, E) /\ Alike(D, E) /\ Dirty(x, E.r) /\ Dirty(x, E.k[n])
           /\ ~Ok(x) => Failing(x)
  <1>1. PICK y : y = TouchRoot(w)
    OBVIOUS
  <1>2. x = TouchLeaf(y, n)
    BY <1>1 DEF Path
  <1>3. /\ y.file = w.file /\ Typed(y)
        /\ Ok(y) => \E E : Fine(y, E) /\ Alike(D, E) /\ E.k = D.k /\ Dirty(y, E.r)
        /\ ~Ok(y) => Failing(y)
    BY <1>1, FineRoot
  <1>4. CASE ~Ok(y)
    <2>1. x = y
      BY <1>2, <1>4 DEF TouchLeaf
    <2> QED
      BY <2>1, <1>3, <1>4
  <1>5. CASE Ok(y)
    <2>1. PICK B : Fine(y, B) /\ Alike(D, B) /\ B.k = D.k /\ Dirty(y, B.r)
      BY <1>3, <1>5
    <2>2. B.k[n] # NoPage
      BY <2>1
    <2>3. /\ x.file = y.file /\ Typed(x)
          /\ Ok(x) => \E E : Fine(x, E) /\ Alike(B, E) /\ Dirty(x, E.r) /\ Dirty(x, E.k[n])
          /\ ~Ok(x) => Failing(x)
      BY <1>2, <2>1, <2>2, FineLeaf
    <2>4. \A E : Alike(B, E) => Alike(D, E)
      BY <2>1 DEF Alike
    <2> QED
      BY <1>3, <2>3, <2>4
  <1> QED
    BY <1>4, <1>5

-----------------------------------------------------------------------------
(* What a call starts from, and mdb_page_spill. *)

(* What each transaction has, seen on its own.                             *)
Level(i, D) == LevelOK(txns, file, HeadOf(i), LastOf(i), i, D)

(* The levels below are sound, and what they can have includes what a      *)
(* child can.                                                              *)
LEMMA LowerLevels ==
    ASSUME Types, LevelsOK, NEW i \in 1..(Top - 1)
    PROVE  \E D \in Trees : Level(i, D)
  <1>1. Top \in Nat /\ i \in 1..Top /\ ~txns[i].error
    BY DEF Types, Stacked, Top
  <1> QED
    BY <1>1 DEF LevelsOK, Level

LEMMA StartedHolds ==
    ASSUME Types, LevelsOK, Top > 0
    PROVE  Started
  <1>1. Top \in Nat
    BY DEF Types, Stacked, Top
  <1>2. ASSUME NEW k \in 0..(Top - 1), NEW p \in HeldTo(txns, Top - 1)
        PROVE  p \in FreshAt(txns, k) \cup HeldTo(txns, k)
    <2>1. PICK j \in 1..(Top - 1) : p \in Held(txns[j])
      BY <1>2 DEF HeldTo
    <2>2. CASE k >= j
      <3>1. j \in 1..k
        BY <1>1, <2>2
      <3> QED
        BY <2>1, <3>1 DEF HeldTo
    <2>3. CASE k < j
      <3>1. PICK D \in Trees : Level(j, D)
        BY LowerLevels
      <3>2. Within(txns, j, txns[j], HeadOf(j), LastOf(j))
        BY <3>1 DEF Level, LevelOK, ListsOK
      <3>3. k \in 0..(j - 1)
        BY <1>1, <2>3
      <3> QED
        BY <2>1, <3>2, <3>3 DEF Within
    <2> QED
      BY <1>1, <2>2, <2>3
  <1>3. Inherits
    BY <1>2 DEF Inherits
  <1> QED
    BY <1>3 DEF Started

(* A call begins with the innermost transaction as it is.                  *)
LEMMA WorkFacts ==
    ASSUME Types, CursorsOK, Top > 0
    PROVE  /\ Typed(Work) /\ Ok(Work) /\ Chain(Work) = txns
           /\ Work.t = txns[Top] /\ Work.file = file /\ Work.cur = cur
           /\ Work.head = pghead /\ Work.last = pglast /\ Work.t \in Txn
  <1>1. txns \in Seq(Txn) /\ Top = Len(txns) /\ Top \in Nat /\ Top \in DOMAIN txns /\ txns[Top] \in Txn
    BY DEF Types, Stacked, Top
  <1>2. NoPage \in Opt
    BY DEF Opt
  <1>3. PICK w : w = Work
    OBVIOUS
  <1>4. /\ w.t = txns[Top] /\ w.file = file /\ w.cur = cur /\ w.head = pghead /\ w.last = pglast
        /\ w.rc = "ok" /\ w \in WorkT
    BY <1>1, <1>2, <1>3 DEF Work, WorkT, Types
  <1>5. \A c \in Cursors : CurFrame(cur[c], cur[c])
    BY DEF CursorsOK, CursorOK, CurFrame
  <1>6. Typed(w)
    BY <1>4, <1>5 DEF Typed
  <1>7. Chain(w) = txns
    BY <1>1, <1>4 DEF Chain
  <1> QED
    BY <1>1, <1>3, <1>4, <1>6, <1>7 DEF Ok

LEMMA WorkFine ==
    ASSUME Types, LevelsOK, CursorsOK, Top > 0, ~txns[Top].error
    PROVE  /\ \E D \in Trees : Level(Top, D)
           /\ \A D : Level(Top, D) => Fine(Work, D)
  <1>1. Top \in Nat /\ Top \in 1..Top
    BY DEF Types, Stacked, Top
  <1>2. \E D \in Trees : Level(Top, D)
    BY <1>1 DEF LevelsOK, Level
  <1>3. ASSUME NEW D, Level(Top, D)
        PROVE  Fine(Work, D)
    <2>1. PICK w : w = Work
      OBVIOUS
    <2>2. /\ Typed(w) /\ Ok(w) /\ Chain(w) = txns
          /\ w.t = txns[Top] /\ w.file = file /\ w.cur = cur
          /\ w.head = pghead /\ w.last = pglast
      BY <2>1, WorkFacts
    <2>3. HeadOf(Top) = pghead /\ LastOf(Top) = pglast
      BY DEF HeadOf, LastOf
    <2>4. /\ WellMade(D) /\ D.r = txns[Top].root /\ Shows(D, txns, Top, file)
          /\ ListsOK(txns, Top, txns[Top], pghead, pglast, PagesIn(D))
      BY <1>3, <2>3 DEF Level, LevelOK
    <2>5. Good(w, PagesIn(D))
      BY <2>2, <2>4 DEF Good, Lists
    <2>6. Shown(w, D)
      BY <2>2, <2>4 DEF Shown
    <2>7. ASSUME NEW c \in Cursors
          PROVE  PointsIn(w.cur[c], w, D)
      <3>1. PICK r : r = cur[c]
        OBVIOUS
      <3>2. /\ r.own = 0 => r = Closed
            /\ r.own > 0 => PointsAt(r, txns, Top, file)
            /\ r \in Cursor
        BY <3>1 DEF CursorsOK, CursorOK, Types
      <3>3. r.own = 0 \/ r.own > 0
        BY <3>2 DEF Cursor
      <3>4. CASE r.own = 0
        BY <3>1, <3>2, <3>4, <2>2 DEF Closed, PointsIn
      <3>5. CASE r.own > 0
        <4>1. \A n : Kids(txns, Top, file)[n] = D.k[n]
          BY <2>4 DEF Kids, Shows
        <4>2. \A p : At(w, p) = <<Where(txns, Top, p), p>>
          BY <2>2 DEF At, WhereIs
        <4> QED
          BY <3>1, <3>2, <3>5, <4>1, <4>2, <2>2, <2>4 DEF PointsAt, PointsIn
      <3> QED
        BY <3>3, <3>4, <3>5
    <2> QED
      BY <2>1, <2>2, <2>4, <2>5, <2>6, <2>7 DEF Fine
  <1> QED
    BY <1>2, <1>3

(* A file in which whoever waits, and what is stored, finds its pages.     *)
Safe(f) ==
  /\ \A i \in 1..(Top - 1), D \in Trees : Level(i, D) =>
       \A p \in PagesIn(D) : Page(txns, i, f, p) = Page(txns, i, file, p)
  /\ \A p \in HomeTree : f[p] = file[p]

LEMMA SameSafe == Safe(file)
  BY DEF Safe

(* Pages that mdb_page_spill may write.                                    *)
MayFlush(P) ==
  P \subseteq DOMAIN txns[Top].dirty /\ \A i \in 1..(Top - 1) : P \cap txns[i].spill = {}

(* Writing dirty pages to the map changes these pages.                     *)
LEMMA FlushFacts ==
    ASSUME Types, Top > 0, NEW P, P \subseteq DOMAIN txns[Top].dirty,
           NEW f, f = Flushed(file, P)
    PROVE  /\ f \in Files
           /\ \A p \in Pgs : f[p] = IF p \in P THEN txns[Top].dirty[p] ELSE file[p]
  <1>1. txns[Top] \in Txn /\ file \in Files
    BY DEF Types, Stacked, Top
  <1>2. DOMAIN txns[Top].dirty \subseteq Pgs /\ txns[Top].dirty \in [DOMAIN txns[Top].dirty -> PageT]
    BY <1>1, DirtyType DEF Txn
  <1>3. \A p \in Pgs : f[p] = IF p \in P THEN txns[Top].dirty[p] ELSE file[p]
    BY DEF Flushed
  <1>4. \A p \in Pgs : f[p] \in PageT
    BY <1>1, <1>2, <1>3 DEF Files
  <1>5. f = [p \in Pgs |-> f[p]]
    BY DEF Flushed
  <1> QED
    BY <1>3, <1>4, <1>5 DEF Files

(* The stored tree and what may be allocated share no page.                *)
LEMMA HomeFacts ==
    /\ HomeTree \subseteq Pgs /\ NextPgno \in Nat
    /\ HomeTree \cap UnreadAfter(0) = {} /\ HomeTree \cap From(NextPgno) = {}
    /\ UnreadAfter(0) \cup HomeTree = 2..(NextPgno - 1)
  <1>1. /\ HomeTree \cap UNION Range(Records) = {} /\ NextPgno \in Nat
        /\ HomeTree \cup UNION Range(Records) = 2..(NextPgno - 1)
    BY StoreAssumption, BoundsAssumption
  <1>2. Records \in Seq((SUBSET Pgs) \ {{}}) /\ HomeRoot \in Pgs /\ HomeBig \in {NoPage} \cup Pgs
        /\ Home \in [DOMAIN Home -> Pgs]
    BY StoreAssumption
  <1>3. UnreadAfter(0) = UNION Range(Records)
    <2>1. DOMAIN Records = (0 + 1)..Len(Records)
      BY <1>2
    <2> QED
      BY <2>1 DEF UnreadAfter, Range
  <1>4. HomeTree \subseteq Pgs
    BY <1>2 DEF HomeTree, Range
  <1>5. HomeTree \cap From(NextPgno) = {}
    <2> SUFFICES ASSUME NEW p \in HomeTree, p \in From(NextPgno)
                 PROVE  FALSE
      OBVIOUS
    <2>1. p \in 2..(NextPgno - 1) /\ p >= NextPgno
      BY <1>1 DEF From
    <2> QED
      BY <2>1, <1>1
  <1> QED
    BY <1>1, <1>3, <1>4, <1>5

(* No level below, and nothing that is stored, sees an early write.        *)
LEMMA FlushSafe ==
    ASSUME Types, LevelsOK, Top > 0, NEW T, NEW h, NEW l,
           ListsOK(txns, Top, txns[Top], h, l, T),
           NEW P, MayFlush(P), NEW f, f = Flushed(file, P)
    PROVE  Safe(f) /\ f \in Files
  <1>1. /\ txns \in Seq(Txn) /\ Top = Len(txns) /\ Top \in Nat /\ txns[Top] \in Txn /\ Started
        /\ txns[1].head0 = {} /\ txns[1].last0 = 0
    BY StartedHolds DEF Types, Stacked, Top
  <1>2. /\ f \in Files
        /\ \A p \in Pgs : f[p] = IF p \in P THEN txns[Top].dirty[p] ELSE file[p]
    BY FlushFacts DEF MayFlush
  <1>3. \A k \in 0..(Top - 1) : Held(txns[Top]) \subseteq FreshAt(txns, k) \cup HeldTo(txns, k)
    BY DEF ListsOK, Within
  <1>4. P \subseteq Held(txns[Top])
    BY DEF MayFlush, Held
  <1>5. ASSUME NEW i \in 1..(Top - 1), NEW D \in Trees, Level(i, D), NEW p \in PagesIn(D)
        PROVE  Page(txns, i, f, p) = Page(txns, i, file, p)
    <2>1. /\ WellMade(D)
          /\ ListsOK(txns, i, txns[i], HeadOf(i), LastOf(i), PagesIn(D))
      BY <1>5 DEF Level, LevelOK
    <2>2. p \in Pgs
      BY <1>5, <2>1, TreeFacts
    <2>3. CASE Where(txns, i, p) # 0
      BY <2>3 DEF Page
    <2>4. CASE Where(txns, i, p) = 0
      <3>1. ASSUME p \in P
            PROVE  FALSE
        <4>1. p \in FreshAt(txns, i) \cup HeldTo(txns, i)
          BY <1>1, <1>3, <1>4, <3>1
        <4>2. p \notin HeldTo(txns, i)
          <5>1. \A j \in 1..i : p \notin txns[j].spill
            BY <1>1, <3>1 DEF MayFlush
          <5>2. i \in Nat /\ i \in 0..i
            BY <1>1
          <5> QED
            BY <5>1, <5>2, <2>4, WhereHeld
        <4>3. HeadOf(i) = txns[i + 1].head0 /\ LastOf(i) = txns[i + 1].last0 /\ NextAt(txns, i) = txns[i].next
          BY <1>1 DEF HeadOf, LastOf, NextAt
        <4>4. p \in FreshIn(HeadOf(i), LastOf(i), txns[i].next)
          BY <4>1, <4>2, <4>3 DEF FreshAt
        <4>5. OneOf(p \in PagesIn(D), p \in HeadOf(i), p \in UnreadAfter(LastOf(i)),
                    txns[i].free[p] > 0 \/ p \in FreedIn(txns, i - 1),
                    p \in ToSet(txns[i].loose) \/ p \in LooseIn(txns, i - 1), p \in From(txns[i].next))
          BY <2>1, <2>2 DEF ListsOK, UseOK
        <4> QED
          BY <4>4, <4>5, <1>5 DEF OneOf, FreshIn
      <3>2. f[p] = file[p]
        BY <1>2, <2>2, <3>1
      <3> QED
        BY <2>4, <3>2 DEF Page
    <2> QED
      BY <2>3, <2>4
  <1>6. ASSUME NEW p \in HomeTree
        PROVE  f[p] = file[p]
    <2>1. p \in Pgs /\ p \notin FreshIn({}, 0, NextPgno)
      BY <1>6, HomeFacts DEF FreshIn
    <2>2. FreshAt(txns, 0) = FreshIn({}, 0, NextPgno)
      <3>1. 0 + 1 = 1
        OBVIOUS
      <3>2. FreshAt(txns, 0) = FreshIn(txns[1].head0, txns[1].last0, NextPgno)
        BY <3>1 DEF FreshAt, NextAt
      <3> QED
        BY <1>1, <3>2
    <2>3. HeldTo(txns, 0) = {}
      BY DEF HeldTo
    <2>4. p \notin P
      <3>1. 0 \in 0..(Top - 1)
        BY <1>1
      <3> QED
        BY <3>1, <1>3, <1>4, <2>1, <2>2, <2>3
    <2> QED
      BY <1>2, <2>1, <2>4
  <1> QED
    BY <1>2, <1>5, <1>6 DEF Safe

(* mdb_page_spill keeps what the cursors use, loose pages and what is      *)
(* spilled already.                                                        *)
LEMMA ToSpillFacts ==
    ASSUME NEW n
    PROVE  /\ MayFlush(ToSpill(n))
           /\ ToSpill(n) \cap ToSet(txns[Top].loose) = {}
           /\ \A c \in Cursors : cur[c].root[2] \notin ToSpill(n) /\ cur[c].leaf[2] \notin ToSpill(n)
  <1>1. \A S, k : Largest(S, k) \subseteq S
    BY DEF Largest
  <1>2. ToSpill(n) \subseteq DOMAIN txns[Top].dirty \ (Kept(n) \cup ToSet(txns[Top].loose)
            \cup UNION {txns[i].spill : i \in 1..(Top - 1)})
    BY <1>1 DEF ToSpill, Staying
  <1>3. \A c \in Cursors : cur[c].root[2] \in Kept(n) /\ cur[c].leaf[2] \in Kept(n)
    BY DEF Kept
  <1> QED
    BY <1>2, <1>3 DEF MayFlush

(* An early write leaves the tree and the cursors as they were.            *)
LEMMA SpillFine ==
    ASSUME Types, LevelsOK, CursorsOK, Top > 0, ~txns[Top].error, NEW D, Level(Top, D),
           NEW n, NEW x, x = Spill(n)
    PROVE  Fine(x, D) /\ Safe(x.file)
  <1>1. Started /\ Fine(Work, D)
    BY StartedHolds, WorkFine
  <1>2. PICK w, T : w = Work /\ T = PagesIn(D)
    OBVIOUS
  <1>3. /\ Typed(w) /\ Ok(w) /\ Chain(w) = txns /\ w.t = txns[Top] /\ w.file = file /\ w.cur = cur
        /\ w.head = pghead /\ w.last = pglast /\ w.t \in Txn
    BY <1>2, WorkFacts
  <1>4. /\ w \in WorkT /\ ~w.t.error /\ Top \in Nat \ {0} /\ Top - 1 \in Nat /\ Stacked /\ Top > 0
        /\ Good(w, T) /\ WellMade(D) /\ D.r = w.t.root /\ Shown(w, D)
        /\ \A c \in Cursors : PointsIn(w.cur[c], w, D)
    BY <1>1, <1>2, FineFacts
  <1>5. /\ ListsOK(txns, Top, w.t, w.head, w.last, T)
        /\ DOMAIN w.t.dirty \subseteq Pgs /\ w.t.dirty \in [DOMAIN w.t.dirty -> PageT]
        /\ DOMAIN w.t.dirty \cap w.t.spill = {}
    BY <1>1, <1>4, GoodFacts
  <1>6. CASE txns[Top].room > Need
    BY <1>1, <1>2, <1>3, <1>6, SameSafe DEF Spill
  <1>7. CASE ~(txns[Top].room > Need)
    <2>1. PICK P : P = ToSpill(n)
      OBVIOUS
    <2>2. /\ MayFlush(P) /\ P \cap ToSet(w.t.loose) = {} /\ P \subseteq DOMAIN w.t.dirty
          /\ \A c \in Cursors : cur[c].root[2] \notin P /\ cur[c].leaf[2] \notin P
      BY <1>3, <2>1, ToSpillFacts DEF MayFlush
    <2>3. PICK f : f = Flushed(file, P)
      OBVIOUS
    <2>4. f \in Files /\ Safe(f)
      <3>1. ListsOK(txns, Top, txns[Top], w.head, w.last, T)
        BY <1>3, <1>5
      <3> QED
        BY <1>4, <2>2, <2>3, <3>1, FlushSafe
    <2>5. \A p \in Pgs : f[p] = IF p \in P THEN w.t.dirty[p] ELSE w.file[p]
      BY <1>3, <1>4, <2>2, <2>3, FlushFacts
    <2>6. PICK d : d = [p \in DOMAIN w.t.dirty \ P |-> w.t.dirty[p]]
      OBVIOUS
    <2>7. /\ DOMAIN d = DOMAIN w.t.dirty \ P /\ \A p \in DOMAIN d : d[p] = w.t.dirty[p]
          /\ d \in [DOMAIN d -> PageT] /\ DOMAIN d \subseteq Pgs
      BY <1>5, <2>6
    <2>8. d \in Dirties
      BY <2>7, DirtyType
    <2>9. PICK m : m = w.t.room + Cardinality(P)
      OBVIOUS
    <2>10. PICK u : u = [w.t EXCEPT !.spill = w.t.spill \cup P, !.spills = TRUE,
                                    !.dirty = d, !.room = m]
      OBVIOUS
    <2>11. /\ u.dirty = d /\ u.root = w.t.root /\ u.head0 = w.t.head0
           /\ u.last0 = w.t.last0 /\ u.spill = w.t.spill \cup P /\ u.room = m
           /\ u.loose = w.t.loose /\ u.free = w.t.free /\ u.next = w.t.next
           /\ u.error = w.t.error
      BY <1>3, <2>10 DEF Txn
    <2>12. PICK t : t = w.t
      OBVIOUS
    <2>13. Spills(t, u, P)
      BY <1>3, <2>2, <2>7, <2>9, <2>11, <2>12 DEF Spills
    <2>14. ListsOK(txns, Top, u, w.head, w.last, T) /\ u.room \in 0..DirtyMax
      BY <1>4, <1>5, <2>12, <2>13, MoveSpill
    <2>15. u \in Txn
      <3>1. m \in 0..DirtyMax /\ P \subseteq Pgs
        BY <2>2, <2>11, <2>14, <1>5
      <3> QED
        BY <1>3, <2>8, <2>10, <3>1 DEF Txn
    <2>16. x = [w EXCEPT !.t = u, !.file = f]
      BY <1>2, <1>3, <1>4, <1>7, <2>1, <2>3, <2>6, <2>9, <2>10, ZenonT(60) DEF Spill, WorkT, Txn
    <2>17. /\ x \in WorkT /\ x.t = u /\ x.new = w.new /\ x.head = w.head /\ x.last = w.last
           /\ x.file = f /\ x.cur = w.cur /\ x.rc = w.rc
      BY <1>4, <2>4, <2>15, <2>16 DEF WorkT
    <2>18. Typed(x)
      BY <1>3, <2>11, <2>17 DEF Typed
    <2>19. Good(x, T)
      BY <1>3, <1>4, <2>11, <2>14, <2>17, <2>18 DEF Good, Ok, Lists
    <2>20. ASSUME NEW p \in Pgs
           PROVE  PageOf(x, p) = PageOf(w, p) /\ (p \notin P => At(x, p) = At(w, p))
      <3>1. /\ WhereIs(w, p) = IF p \in w.t.spill THEN 0
                              ELSE IF p \in DOMAIN w.t.dirty THEN Top
                              ELSE Where(txns, Top - 1, p)
            /\ PageOf(w, p) = IF p \in w.t.spill THEN w.file[p]
                             ELSE IF p \in DOMAIN w.t.dirty THEN w.t.dirty[p]
                             ELSE Page(txns, Top - 1, w.file, p)
        BY <1>3, <1>4, WorkAt
      <3>2. x.t \in Txn
        BY <2>15, <2>17
      <3>3. /\ WhereIs(x, p) = IF p \in x.t.spill THEN 0
                              ELSE IF p \in DOMAIN x.t.dirty THEN Top
                              ELSE Where(txns, Top - 1, p)
            /\ PageOf(x, p) = IF p \in x.t.spill THEN x.file[p]
                             ELSE IF p \in DOMAIN x.t.dirty THEN x.t.dirty[p]
                             ELSE Page(txns, Top - 1, x.file, p)
        BY <1>4, <3>2, WorkAt
      <3>4. Page(txns, Top - 1, x.file, p) = Page(txns, Top - 1, w.file, p) \/ p \in P
        BY <2>5, <2>17 DEF Page
      <3>5. p \in P => p \in DOMAIN w.t.dirty /\ p \notin w.t.spill
        BY <1>5, <2>2
      <3>6. PageOf(x, p) = PageOf(w, p)
        BY <1>5, <2>5, <2>7, <2>11, <2>17, <3>1, <3>3, <3>4, <3>5
      <3>7. p \notin P => WhereIs(x, p) = WhereIs(w, p)
        BY <2>7, <2>11, <2>17, <3>1, <3>3
      <3> QED
        BY <3>6, <3>7 DEF At
    <2>21. Shown(x, D)
      <3>1. /\ D.r \in Pgs /\ \A m1 \in Nodes : D.k[m1] # NoPage => D.k[m1] \in Pgs
            /\ D.o # NoPage => D.o \in Pgs
        BY <1>4, TreeFacts
      <3> QED
        BY <1>4, <2>20, <3>1, ShownIs
    <2>22. ASSUME NEW c \in Cursors
           PROVE  PointsIn(x.cur[c], x, D)
      <3>1. PICK r : r = cur[c]
        OBVIOUS
      <3>2. PointsIn(r, w, D) /\ r.root[2] \notin P /\ r.leaf[2] \notin P /\ x.cur[c] = r
        BY <1>3, <1>4, <2>2, <2>17, <3>1
      <3>3. CASE r.at = NoNode
        BY <3>2, <3>3 DEF PointsIn
      <3>4. CASE r.at # NoNode
        <4>1. r.at \in Nodes
          <5>1. r \in Cursor
            BY <3>1 DEF Types
          <5> QED
            BY <5>1, <3>4 DEF Cursor
        <4>2. r.root = At(w, D.r) /\ D.k[r.at] # NoPage /\ r.leaf = At(w, D.k[r.at])
          BY <3>2, <3>4 DEF PointsIn
        <4>3. r.root[2] = D.r /\ r.leaf[2] = D.k[r.at]
          BY <4>2 DEF At
        <4>4. D.r \in Pgs /\ D.k[r.at] \in Pgs
          BY <1>4, <4>1, <4>2, TreeFacts
        <4>5. At(x, D.r) = At(w, D.r) /\ At(x, D.k[r.at]) = At(w, D.k[r.at])
          BY <2>20, <3>2, <4>3, <4>4
        <4> QED
          BY <3>2, <4>2, <4>5 DEF PointsIn
      <3> QED
        BY <3>3, <3>4
    <2>23. D.r = x.t.root
      BY <1>4, <2>11, <2>17
    <2> QED
      BY <1>2, <1>4, <2>4, <2>17, <2>19, <2>21, <2>22, <2>23 DEF Fine
  <1> QED
    BY <1>6, <1>7

(* An early write that fails breaks the transaction, and only it.          *)
LEMMA SpillFailing ==
    ASSUME Types, LevelsOK, CursorsOK, Top > 0, ~txns[Top].error, NEW n, NEW P \in SUBSET ToSpill(n),
           NEW x, x = [Broken(Work) EXCEPT !.t.spill = @ \cup ToSpill(n), !.file = Flushed(@, P)]
    PROVE  Failing(x) /\ Safe(x.file)
  <1>1. Started /\ \E D \in Trees : Level(Top, D)
    BY StartedHolds, WorkFine
  <1>2. PICK w : w = Work
    OBVIOUS
  <1>3. /\ Typed(w) /\ w.t = txns[Top] /\ w.file = file /\ w.cur = cur /\ w.t \in Txn
        /\ w.head = pghead /\ w.last = pglast /\ w \in WorkT
    BY <1>2, WorkFacts DEF Typed
  <1>4. PICK b : b = Broken(w)
    OBVIOUS
  <1>5. b = [w EXCEPT !.t = [w.t EXCEPT !.error = TRUE], !.rc = "failed"]
    BY <1>3, <1>4 DEF Broken, WorkT
  <1>6. PICK S : S = ToSpill(n)
    OBVIOUS
  <1>7. MayFlush(S) /\ S \subseteq DOMAIN w.t.dirty /\ P \subseteq S
    BY <1>3, <1>6, ToSpillFacts DEF MayFlush
  <1>8. MayFlush(P)
    BY <1>7, <1>3 DEF MayFlush
  <1>9. PICK f : f = Flushed(file, P)
    OBVIOUS
  <1>10. f \in Files /\ Safe(f)
    <2>1. PICK D \in Trees : Level(Top, D)
      BY <1>1
    <2>2. ListsOK(txns, Top, txns[Top], HeadOf(Top), LastOf(Top), PagesIn(D))
      BY <2>1 DEF Level, LevelOK
    <2> QED
      BY <1>8, <1>9, <2>2, FlushSafe
  <1>11. PICK u : u = [w.t EXCEPT !.error = TRUE, !.spill = w.t.spill \cup S]
    OBVIOUS
  <1>12. S \subseteq Pgs
    <2>1. w.t.dirty \in Dirties
      BY <1>3 DEF Txn
    <2> QED
      BY <1>7, <2>1, DirtyType
  <1>13. u \in Txn /\ u.error /\ u.head0 = w.t.head0 /\ u.last0 = w.t.last0
    BY <1>3, <1>11, <1>12 DEF Txn
  <1>14. x = [w EXCEPT !.t = u, !.file = f, !.rc = "failed"]
    <2>1. PICK a : a = [w.t EXCEPT !.error = TRUE]
      OBVIOUS
    <2>2. a \in Txn /\ a.spill = w.t.spill /\ u = [a EXCEPT !.spill = w.t.spill \cup S]
      BY <1>3, <1>11, <2>1 DEF Txn
    <2>3. b = [w EXCEPT !.t = a, !.rc = "failed"]
      BY <1>5, <2>1
    <2>4. b \in WorkT /\ b.t = a /\ b.file = file
      BY <1>3, <2>2, <2>3 DEF WorkT
    <2>5. x = [b EXCEPT !.t.spill = @ \cup S, !.file = Flushed(@, P)]
      BY <1>2, <1>4, <1>6
    <2>6. x = [b EXCEPT !.t = u, !.file = f]
      BY <1>9, <2>2, <2>4, <2>5 DEF WorkT
    <2> QED
      BY <2>3, <2>6, <1>3 DEF WorkT
  <1>15. x \in WorkT /\ x.t = u /\ x.file = f /\ x.cur = w.cur /\ x.rc = "failed"
    BY <1>3, <1>10, <1>13, <1>14 DEF WorkT
  <1>16. Typed(x)
    BY <1>3, <1>13, <1>15 DEF Typed
  <1> QED
    BY <1>10, <1>13, <1>15, <1>16 DEF Failing, Ok

-----------------------------------------------------------------------------
(* What the calls do to the leaves. *)

(* The tree but for what the overflow page holds and what the cursors do.  *)
Skeleton(w, D) ==
  /\ PageOf(w, D.r).kids = D.k
  /\ \A n \in Nodes : D.k[n] # NoPage =>
       /\ PageOf(w, D.k[n]).val = D.c[n]
       /\ PageOf(w, D.k[n]).ov = IF n = BigNode THEN D.o ELSE NoPage
Bare(w, D, U)  == Good(w, U) /\ WellMade(D) /\ D.r = w.t.root /\ Skeleton(w, D)
BigShown(w, D) == D.o # NoPage => PageOf(w, D.o).val = D.b
Pointing(w, D) == \A c \in Cursors : PointsIn(w.cur[c], w, D)
SameAt(w, x)   == \A z \in Pgs : At(x, z) = At(w, z)

(* The tree without its overflow page, that page, and the cursors.         *)
LEMMA FineIs ==
    ASSUME NEW w, NEW D
    PROVE  Fine(w, D) <=> Bare(w, D, PagesIn(D)) /\ BigShown(w, D) /\ Pointing(w, D)
  BY ShownIs DEF Fine, Bare, Skeleton, BigShown, Pointing

LEMMA BareFacts ==
    ASSUME Started, NEW w, NEW D, NEW U, Bare(w, D, U)
    PROVE  /\ w \in WorkT /\ w.t \in Txn /\ Typed(w) /\ Ok(w) /\ ~w.t.error
           /\ Top \in Nat \ {0} /\ Top - 1 \in Nat /\ Stacked /\ Top > 0
           /\ Good(w, U) /\ WellMade(D) /\ D.r = w.t.root /\ Skeleton(w, D)
           /\ \A n \in Nodes : KidOf(w, n) = D.k[n]
  <1>1. Good(w, U) /\ WellMade(D) /\ D.r = w.t.root /\ Skeleton(w, D)
    BY DEF Bare
  <1>2. /\ w \in WorkT /\ w.t \in Txn /\ Typed(w) /\ Ok(w) /\ ~w.t.error
        /\ Top \in Nat \ {0} /\ Top - 1 \in Nat /\ Stacked /\ Top > 0
    BY <1>1, GoodFacts
  <1>3. Chain(w)[Top] = w.t
    BY <1>2, ChainFacts
  <1>4. \A n \in Nodes : KidOf(w, n) = D.k[n]
    BY <1>1, <1>3 DEF KidOf, Kids, Skeleton, PageOf
  <1> QED
    BY <1>1, <1>2, <1>4

(* Pages of no node but the overflow page may differ.                      *)
LEMMA BareKept ==
    ASSUME Started, NEW w, NEW D, NEW U, Bare(w, D, U), NEW x, NEW V, Good(x, V), Frame(w, x),
           NEW X, Keeps(w, x, X), D.r \notin X, \A n \in Nodes : D.k[n] # NoPage => D.k[n] \notin X
    PROVE  Bare(x, D, V)
  <1>1. WellMade(D) /\ D.r = w.t.root /\ Skeleton(w, D)
    BY DEF Bare
  <1>2. D.r \in Pgs /\ \A n \in Nodes : D.k[n] # NoPage => D.k[n] \in Pgs
    BY <1>1, TreeFacts
  <1>3. Skeleton(x, D)
    BY <1>1, <1>2 DEF Skeleton, Keeps
  <1> QED
    BY <1>1, <1>3 DEF Bare, Frame

(* Cursors and dirty pages that a step does not concern.                   *)
LEMMA PointsKeep ==
    ASSUME Started, NEW w, Typed(w), NEW D, WellMade(D), Pointing(w, D), NEW x, x.cur = w.cur,
           NEW X, Keeps(w, x, X), D.r \notin X, \A n \in Nodes : D.k[n] # NoPage => D.k[n] \notin X,
           NEW E, E.r = D.r, \A n \in Nodes : D.k[n] # NoPage => E.k[n] = D.k[n]
    PROVE  Pointing(x, E)
  <1> SUFFICES ASSUME NEW c \in Cursors
               PROVE  PointsIn(x.cur[c], x, E)
    BY DEF Pointing
  <1>1. PICK r : r = w.cur[c]
    OBVIOUS
  <1>2. r \in Cursor /\ PointsIn(r, w, D) /\ x.cur[c] = r
    BY <1>1, CursorType DEF Pointing
  <1>3. r.at \in Nodes \cup {NoNode}
    BY <1>2 DEF Cursor
  <1>4. D.r \in Pgs /\ \A n \in Nodes : D.k[n] # NoPage => D.k[n] \in Pgs
    BY TreeFacts
  <1>5. CASE r.at = NoNode
    BY <1>2, <1>5 DEF PointsIn
  <1>6. CASE r.at # NoNode
    <2>1. r.root = At(w, D.r) /\ D.k[r.at] # NoPage /\ r.leaf = At(w, D.k[r.at])
      BY <1>2, <1>6 DEF PointsIn
    <2>2. At(x, D.r) = At(w, D.r) /\ At(x, D.k[r.at]) = At(w, D.k[r.at])
      BY <2>1, <1>3, <1>4, <1>6 DEF Keeps, At
    <2>3. E.k[r.at] = D.k[r.at]
      BY <2>1, <1>3, <1>6
    <2> QED
      BY <2>1, <2>2, <2>3, <1>2, <1>6 DEF PointsIn
  <1> QED
    BY <1>5, <1>6

LEMMA DirtyKept ==
    ASSUME Started, NEW w, NEW U, Good(w, U), NEW x, NEW V, Good(x, V), NEW X, Keeps(w, x, X),
           NEW p \in Pgs \ X, Dirty(w, p)
    PROVE  Dirty(x, p)
  <1>1. WhereIs(w, p) = Top
    BY PlaceFacts
  <1>2. WhereIs(x, p) = Top
    BY <1>1 DEF Keeps
  <1> QED
    BY <1>2, PlaceFacts

(* The value of a leaf is set.                                             *)
LEMMA LeafSet ==
    ASSUME Started, NEW w, NEW D, NEW U, Bare(w, D, U), NEW n \in Nodes, D.k[n] # NoPage,
           Dirty(w, D.k[n]), NEW v \in Vals, NEW x, x = SetLeaf(w, n, v),
           NEW E, E = WithVal(D, n, v)
    PROVE  Bare(x, E, U) /\ Frame(w, x) /\ Keeps(w, x, {D.k[n]}) /\ SameAt(w, x)
  <1>1. PICK p : p = D.k[n]
    OBVIOUS
  <1>2. /\ Good(w, U) /\ WellMade(D) /\ D.r = w.t.root /\ Skeleton(w, D) /\ Ok(w)
        /\ KidOf(w, n) = p
    BY <1>1, BareFacts
  <1>3. /\ D.r \in Pgs /\ p \in Pgs /\ p # D.r
        /\ \A m \in Nodes : D.k[m] # NoPage => D.k[m] \in Pgs /\ (m # n => D.k[m] # p)
    BY <1>1, <1>2, TreeFacts DEF WellMade
  <1>4. x = [w EXCEPT !.t.dirty[p].val = v]
    BY <1>2 DEF SetLeaf
  <1>5. PICK c \in PageT : /\ Wrote(w, x, U, p, c)
                           /\ c.val = v /\ c.ov = PageOf(w, p).ov
    BY <1>1, <1>2, <1>4, EditVal
  <1>6. /\ Good(x, U) /\ Frame(w, x) /\ Keeps(w, x, {p}) /\ PageOf(x, p) = c
        /\ WhereIs(x, p) = WhereIs(w, p)
    BY <1>5 DEF Wrote
  <1>7. /\ WellMade(E) /\ E.r = D.r /\ E.k = D.k /\ E.o = D.o /\ E.b = D.b
        /\ E.c[n] = v /\ \A m \in Nodes : m # n => E.c[m] = D.c[m]
    BY <1>2, TreeVal
  <1>8. Skeleton(x, E)
    <2>1. PageOf(x, E.r).kids = E.k
      BY <1>2, <1>3, <1>6, <1>7 DEF Keeps, Skeleton
    <2>2. ASSUME NEW m \in Nodes, E.k[m] # NoPage
          PROVE  /\ PageOf(x, E.k[m]).val = E.c[m]
                 /\ PageOf(x, E.k[m]).ov = IF m = BigNode THEN E.o ELSE NoPage
      <3>1. CASE m = n
        BY <3>1, <1>1, <1>2, <1>5, <1>6, <1>7 DEF Skeleton
      <3>2. CASE m # n
        BY <3>2, <2>2, <1>2, <1>3, <1>6, <1>7 DEF Skeleton, Keeps
      <3> QED
        BY <3>1, <3>2
    <2> QED
      BY <2>1, <2>2 DEF Skeleton
  <1>9. Bare(x, E, U)
    BY <1>2, <1>6, <1>7, <1>8 DEF Bare, Frame
  <1>10. SameAt(w, x)
    BY <1>6 DEF SameAt, Keeps, At
  <1> QED
    BY <1>1, <1>6, <1>9, <1>10

LEMMA FineLeafSet ==
    ASSUME Started, NEW w, NEW D, Fine(w, D), NEW n \in Nodes, D.k[n] # NoPage,
           Dirty(w, D.k[n]), NEW v \in Vals, NEW x, x = SetLeaf(w, n, v)
    PROVE  x.file = w.file /\ Fine(x, WithVal(D, n, v))
  <1>1. PICK E, U, p : E = WithVal(D, n, v) /\ U = PagesIn(D) /\ p = D.k[n]
    OBVIOUS
  <1>2. Bare(w, D, U) /\ BigShown(w, D) /\ Pointing(w, D)
    BY <1>1, FineIs
  <1>3. Bare(x, E, U) /\ Frame(w, x) /\ Keeps(w, x, {p}) /\ SameAt(w, x)
    BY <1>1, <1>2, LeafSet
  <1>4. /\ WellMade(D) /\ Typed(w)
    BY <1>2, BareFacts
  <1>5. /\ E.r = D.r /\ E.k = D.k /\ E.o = D.o /\ E.b = D.b /\ PagesIn(E) = U
    BY <1>1, <1>4, TreeVal
  <1>6. /\ D.o # NoPage => D.o # p /\ D.o \in Pgs
        /\ D.r \in Pgs /\ \A m \in Nodes : D.k[m] # NoPage => D.k[m] \in Pgs
    BY <1>1, <1>4, TreeFacts DEF WellMade
  <1>7. BigShown(x, E)
    BY <1>2, <1>3, <1>5, <1>6 DEF BigShown, Keeps
  <1>8. Pointing(x, E)
    <2> SUFFICES ASSUME NEW c \in Cursors
                 PROVE  PointsIn(x.cur[c], x, E)
      BY DEF Pointing
    <2>1. w.cur[c] \in Cursor /\ x.cur[c] = w.cur[c] /\ PointsIn(w.cur[c], w, D)
      BY <1>2, <1>3, <1>4, CursorType DEF Pointing, Frame
    <2>2. w.cur[c].at \in Nodes \cup {NoNode}
      BY <2>1 DEF Cursor
    <2> QED
      BY <2>1, <2>2, <1>3, <1>5, <1>6 DEF PointsIn, SameAt
  <1>9. Fine(x, E)
    BY <1>3, <1>5, <1>7, <1>8, FineIs
  <1> QED
    BY <1>1, <1>3, <1>9 DEF Frame

(* The leaf of BigNode gets another overflow page, or none.                *)
LEMMA BigSet ==
    ASSUME Started, NEW w, NEW D, NEW U, Bare(w, D, U), Pointing(w, D), Dirty(w, D.k[BigNode]),
           NEW o \in Opt, o \in {D.o, NoPage} \/ o \notin PagesIn(D), NEW v \in Vals \cup {NoVal},
           o # NoPage => PageOf(w, o).val = v,
           NEW x, x = SetBig(w, BigNode, o), NEW E, E = WithBig(D, o, v), U = PagesIn(E)
    PROVE  x.file = w.file /\ Fine(x, E)
  <1>1. PICK p : p = D.k[BigNode]
    OBVIOUS
  <1>2. /\ Good(w, U) /\ WellMade(D) /\ D.r = w.t.root /\ Skeleton(w, D) /\ Typed(w)
        /\ BigNode \in Nodes /\ p # NoPage /\ KidOf(w, BigNode) = p
    BY <1>1, BareFacts DEF WellMade
  <1>3. /\ D.r \in Pgs /\ p \in Pgs /\ p # D.r
        /\ \A m \in Nodes : D.k[m] # NoPage => D.k[m] \in Pgs /\ (m # BigNode => D.k[m] # p)
    BY <1>1, <1>2, TreeFacts DEF WellMade
  <1>4. x = [w EXCEPT !.t.dirty[p].ov = o]
    BY <1>2 DEF SetBig
  <1>5. PICK c \in PageT : /\ Wrote(w, x, U, p, c)
                           /\ c.val = PageOf(w, p).val /\ c.ov = o
    BY <1>1, <1>2, <1>4, EditOv
  <1>6. /\ Good(x, U) /\ Frame(w, x) /\ Keeps(w, x, {p}) /\ PageOf(x, p) = c
        /\ WhereIs(x, p) = WhereIs(w, p)
    BY <1>5 DEF Wrote
  <1>7. WellMade(E) /\ E.r = D.r /\ E.k = D.k /\ E.c = D.c /\ E.o = o /\ E.b = v
    BY <1>2, TreeBig
  <1>8. Skeleton(x, E)
    <2>1. PageOf(x, E.r).kids = E.k
      BY <1>2, <1>3, <1>6, <1>7 DEF Keeps, Skeleton
    <2>2. ASSUME NEW m \in Nodes, E.k[m] # NoPage
          PROVE  /\ PageOf(x, E.k[m]).val = E.c[m]
                 /\ PageOf(x, E.k[m]).ov = IF m = BigNode THEN E.o ELSE NoPage
      <3>1. CASE m = BigNode
        BY <3>1, <1>1, <1>2, <1>5, <1>6, <1>7 DEF Skeleton
      <3>2. CASE m # BigNode
        BY <3>2, <2>2, <1>2, <1>3, <1>6, <1>7 DEF Skeleton, Keeps
      <3> QED
        BY <3>1, <3>2
    <2> QED
      BY <2>1, <2>2 DEF Skeleton
  <1>9. BigShown(x, E)
    <2>1. o # NoPage => o # p /\ o \in Pgs
      BY <1>1, <1>2, <1>7 DEF WellMade, Opt
    <2> QED
      BY <2>1, <1>6, <1>7 DEF BigShown, Keeps
  <1>10. Pointing(x, E)
    <2> SUFFICES ASSUME NEW d \in Cursors
                 PROVE  PointsIn(x.cur[d], x, E)
      BY DEF Pointing
    <2>1. w.cur[d] \in Cursor /\ x.cur[d] = w.cur[d] /\ PointsIn(w.cur[d], w, D)
      BY <1>2, <1>6, CursorType DEF Pointing, Frame
    <2>2. w.cur[d].at \in Nodes \cup {NoNode}
      BY <2>1 DEF Cursor
    <2>3. \A z \in Pgs : At(x, z) = At(w, z)
      BY <1>6 DEF Keeps, At
    <2> QED
      BY <2>1, <2>2, <2>3, <1>3, <1>7 DEF PointsIn
  <1>11. Bare(x, E, U)
    BY <1>2, <1>6, <1>7, <1>8 DEF Bare, Frame
  <1>12. Fine(x, E)
    BY <1>9, <1>10, <1>11, FineIs
  <1> QED
    BY <1>6, <1>12 DEF Frame

(* What a call that touches the overflow page starts from: its leaf is     *)
(* dirty, and U are the pages in use but the overflow page.                *)
Ready(w, D, U) ==
  Bare(w, D, U) /\ Pointing(w, D) /\ Dirty(w, D.k[BigNode]) /\ U = PagesIn(D) \ {D.o}

LEMMA ReadyKept ==
    ASSUME Started, NEW w, NEW D, NEW T, Bare(w, D, T), Pointing(w, D), Dirty(w, D.k[BigNode]),
           NEW x, NEW U, Good(x, U), Frame(w, x), NEW p, Keeps(w, x, {p}),
           p = D.o \/ p \notin PagesIn(D)
    PROVE  Bare(x, D, U) /\ Pointing(x, D) /\ Dirty(x, D.k[BigNode])
  <1>1. WellMade(D) /\ Good(w, T) /\ Typed(w) /\ BigNode \in Nodes /\ D.k[BigNode] # NoPage
    BY BareFacts DEF WellMade
  <1>2. /\ D.r # p /\ \A n \in Nodes : D.k[n] # NoPage => D.k[n] # p /\ D.k[n] \in Pgs
    BY <1>1, TreeFacts DEF WellMade
  <1>3. Bare(x, D, U)
    BY <1>2, BareKept
  <1>4. Pointing(x, D)
    <2>1. x.cur = w.cur
      BY DEF Frame
    <2> QED
      BY <1>1, <1>2, <2>1, PointsKeep
  <1>5. Dirty(x, D.k[BigNode])
    BY <1>1, <1>2, DirtyKept
  <1> QED
    BY <1>3, <1>4, <1>5

(* A new overflow page.                                                    *)
LEMMA FineNewBig ==
    ASSUME Started, NEW w, NEW D, NEW U, Ready(w, D, U), NEW v \in Vals,
           NEW x, x = NewBig(w, BigNode, v)
    PROVE  /\ x.file = w.file
           /\ Ok(x) => \E q \in Opt : Fine(x, WithBig(D, q, v)) /\ WellMade(WithBig(D, q, v)) /\ q # NoPage
           /\ ~Ok(x) => Failing(x)
  <1>1. Bare(w, D, U) /\ Pointing(w, D) /\ Dirty(w, D.k[BigNode]) /\ U = PagesIn(D) \ {D.o}
    BY DEF Ready
  <1>2. Good(w, U) /\ WellMade(D)
    BY <1>1, BareFacts
  <1>3. PICK a : a = PageAlloc(w)
    OBVIOUS
  <1>4. /\ Typed(a) /\ Frame(w, a)
        /\ Ok(a) => /\ Good(a, U \cup {a.new}) /\ a.new \in Pgs \ U
                    /\ Dirty(a, a.new) /\ Keeps(w, a, {a.new})
        /\ ~Ok(a) => Failing(a)
    BY <1>2, <1>3, AllocGood
  <1>5. CASE ~Ok(a)
    <2>1. x = a
      BY <1>3, <1>5 DEF NewBig
    <2> QED
      BY <2>1, <1>4, <1>5 DEF Frame
  <1>6. CASE Ok(a)
    <2>1. PICK q, V : q = a.new /\ V = U \cup {q}
      OBVIOUS
    <2>2. Good(a, V) /\ q \in Pgs /\ q \notin U /\ Dirty(a, q) /\ Keeps(w, a, {q})
      BY <1>4, <1>6, <2>1
    <2>3. q = D.o \/ q \notin PagesIn(D)
      BY <1>1, <2>2
    <2>4. Bare(a, D, V) /\ Pointing(a, D) /\ Dirty(a, D.k[BigNode])
      BY <1>1, <1>4, <2>2, <2>3, ReadyKept
    <2>5. PICK c : c = Leaf(v, NoPage)
      OBVIOUS
    <2>6. c \in PageT /\ c.val = v
      BY <2>5, Shapes DEF Leaf
    <2>7. PICK b : b = [a EXCEPT !.t.dirty[q] = c]
      OBVIOUS
    <2>8. Wrote(a, b, V, q, c)
      <3>1. Writes(a, b, q, c)
        BY <2>7 DEF Writes
      <3> QED
        BY <2>2, <2>6, <3>1, WriteGood
    <2>9. Good(b, V) /\ Frame(a, b) /\ Keeps(a, b, {q}) /\ PageOf(b, q) = c
      BY <2>8 DEF Wrote
    <2>10. Bare(b, D, V) /\ Pointing(b, D) /\ Dirty(b, D.k[BigNode])
      BY <2>3, <2>4, <2>9, ReadyKept
    <2>11. x = SetBig(b, BigNode, q)
      BY <1>3, <1>6, <2>1, <2>5, <2>7 DEF NewBig
    <2>12. PICK E : E = WithBig(D, q, v)
      OBVIOUS
    <2>13. q \in Opt /\ q # NoPage /\ NoPage \notin PagesIn(D)
      BY <2>2, PgsFinite DEF Opt, PagesIn
    <2>14. WellMade(E) /\ PagesIn(E) = ((PagesIn(D) \ {D.o}) \cup {q}) \ {NoPage}
      BY <1>2, <2>3, <2>12, <2>13, TreeBig
    <2>15. V = PagesIn(E)
      BY <1>1, <2>1, <2>13, <2>14
    <2>16. PageOf(b, q).val = v
      BY <2>6, <2>9
    <2>17. x.file = b.file /\ Fine(x, E)
      BY <2>3, <2>10, <2>11, <2>12, <2>13, <2>15, <2>16, BigSet
    <2>18. x.file = w.file
      BY <1>4, <2>9, <2>17 DEF Frame
    <2>19. Ok(x)
      BY <2>17, FineFacts
    <2> QED
      BY <2>12, <2>13, <2>14, <2>17, <2>18, <2>19
  <1> QED
    BY <1>5, <1>6

(* mdb_ovpage_free: the page is in use no longer.                          *)
LEMMA FreeBigGood ==
    ASSUME Started, NEW w, NEW T, Good(w, T), NEW p \in Pgs, p \in T, NEW x, x = FreeOverflow(w, p)
    PROVE  Good(x, T \ {p}) /\ Frame(w, x) /\ Keeps(w, x, {p})
  <1>1. /\ w \in WorkT /\ w.t \in Txn /\ Typed(w) /\ Ok(w) /\ ~w.t.error
        /\ Top \in Nat \ {0} /\ Stacked /\ Top > 0
        /\ ListsOK(txns, Top, w.t, w.head, w.last, T)
        /\ DOMAIN w.t.dirty \subseteq Pgs /\ w.t.dirty \in [DOMAIN w.t.dirty -> PageT]
        /\ DOMAIN w.t.dirty \cap w.t.spill = {}
    BY GoodFacts
  <1>2. /\ WhereIs(w, p) = Top <=> Dirty(w, p)
        /\ WhereIs(w, p) \in 0..Top
    BY PlaceFacts
  <1>3. PICK mine, dirty : /\ dirty <=> WhereIs(w, p) > 0
                           /\ mine <=> w.last > 0 /\ Top = 1 /\ (dirty \/ p \in w.t.spill)
    <2>1. \E b : b = (WhereIs(w, p) > 0)
      OBVIOUS
    <2> QED
      OBVIOUS
  <1>4. x = IF ~mine THEN FreePage(w, p)
            ELSE IF ~dirty THEN [w EXCEPT !.head = @ \cup {p}, !.t.spill = @ \ {p}]
            ELSE [w EXCEPT !.head = @ \cup {p}, !.t.room = @ + 1,
                           !.t.dirty = [q \in DOMAIN @ \ {p} |-> @[q]]]
    BY <1>3 DEF FreeOverflow
  <1>5. CASE ~mine
    <2>1. x = FreePage(w, p)
      BY <1>4, <1>5
    <2>2. Good(x, T \ {p}) /\ Frame(w, x) /\ Keeps(w, x, {})
      BY <2>1, FreeGood
    <2> QED
      BY <2>2, KeepsMore
  <1>6. ASSUME mine, NEW u, u.root = w.t.root, u.head0 = w.t.head0, u.last0 = w.t.last0,
               u.error = w.t.error, u.spills = w.t.spills,
               x = [w EXCEPT !.t = u, !.head = w.head \cup {p}],
               GivesBack(w.t, u, p), u.room \in 0..DirtyMax => u \in Txn,
               \A q \in DOMAIN u.dirty : u.dirty[q] = w.t.dirty[q]
        PROVE  Good(x, T \ {p}) /\ Frame(w, x) /\ Keeps(w, x, {p})
    <2>1. Top = 1
      BY <1>3, <1>6
    <2>2. PICK t, h : t = w.t /\ h = w.head
      OBVIOUS
    <2>3. ListsOK(txns, 1, t, h, w.last, T) /\ GivesBack(t, u, p)
      BY <1>1, <1>6, <2>1, <2>2
    <2>4. ListsOK(txns, 1, u, h \cup {p}, w.last, T \ {p}) /\ u.room \in 0..DirtyMax
      BY <2>3, MoveBack
    <2>5. u \in Txn
      BY <1>6, <2>4
    <2>6. /\ x \in WorkT /\ x.t = u /\ x.head = h \cup {p} /\ x.last = w.last /\ x.rc = w.rc
          /\ x.file = w.file /\ x.cur = w.cur
      <3>1. PICK k : k = h \cup {p}
        OBVIOUS
      <3>2. k \in SUBSET Pgs
        BY <1>1, <2>2, <3>1 DEF WorkT
      <3>3. x = [w EXCEPT !.t = u, !.head = k]
        BY <1>6, <2>2, <3>1
      <3> QED
        BY <1>1, <2>5, <3>1, <3>2, <3>3 DEF WorkT
    <2>7. Frame(w, x)
      BY <1>6, <2>6 DEF Frame
    <2>8. Typed(x)
      BY <1>1, <2>6, <2>7, TypedFrame
    <2>9. Good(x, T \ {p})
      BY <1>1, <1>6, <2>1, <2>4, <2>6, <2>8 DEF Good, Ok, Lists
    <2>10. \A q \in Pgs \ {p} :
             /\ q \in x.t.spill <=> q \in w.t.spill
             /\ q \in DOMAIN x.t.dirty <=> q \in DOMAIN w.t.dirty
             /\ q \in DOMAIN x.t.dirty => x.t.dirty[q] = w.t.dirty[q]
      BY <1>6, <2>6 DEF GivesBack
    <2>11. Keeps(w, x, {p})
      BY <1>1, <2>6, <2>10, KeepsBy
    <2> QED
      BY <2>7, <2>9, <2>11
  <1>7. CASE mine /\ ~dirty
    <2>1. x = [w EXCEPT !.head = @ \cup {p}, !.t.spill = @ \ {p}]
      BY <1>4, <1>7
    <2>2. PICK u : u = [w.t EXCEPT !.spill = w.t.spill \ {p}]
      OBVIOUS
    <2>3. x = [w EXCEPT !.t = u, !.head = w.head \cup {p}]
      BY <1>1, <2>1, <2>2 DEF WorkT, Txn
    <2>4. /\ u \in Txn /\ u.root = w.t.root /\ u.head0 = w.t.head0 /\ u.last0 = w.t.last0
          /\ u.error = w.t.error /\ u.spills = w.t.spills /\ u.spill = w.t.spill \ {p}
          /\ u.dirty = w.t.dirty /\ u.room = w.t.room
          /\ u.loose = w.t.loose /\ u.free = w.t.free /\ u.next = w.t.next
      BY <1>1, <2>2 DEF Txn
    <2>5. p \in w.t.spill
      BY <1>3, <1>7
    <2>6. GivesBack(w.t, u, p)
      BY <1>1, <2>4, <2>5 DEF GivesBack, Held
    <2> QED
      BY <1>6, <1>7, <2>3, <2>4, <2>6
  <1>8. CASE mine /\ dirty
    <2>1. x = [w EXCEPT !.head = @ \cup {p}, !.t.room = @ + 1,
                        !.t.dirty = [q \in DOMAIN @ \ {p} |-> @[q]]]
      BY <1>4, <1>8
    <2>2. PICK d : d = [q \in DOMAIN w.t.dirty \ {p} |-> w.t.dirty[q]]
      OBVIOUS
    <2>3. PICK u : u = [w.t EXCEPT !.room = w.t.room + 1, !.dirty = d]
      OBVIOUS
    <2>4. x = [w EXCEPT !.t = u, !.head = w.head \cup {p}]
      BY <1>1, <2>1, <2>2, <2>3 DEF WorkT, Txn
    <2>5. /\ u.root = w.t.root /\ u.head0 = w.t.head0 /\ u.last0 = w.t.last0
          /\ u.error = w.t.error /\ u.spills = w.t.spills /\ u.spill = w.t.spill
          /\ u.dirty = d /\ u.room = w.t.room + 1
          /\ u.loose = w.t.loose /\ u.free = w.t.free /\ u.next = w.t.next
      BY <1>1, <2>3 DEF Txn
    <2>6. /\ DOMAIN d = DOMAIN w.t.dirty \ {p} /\ \A q \in DOMAIN d : d[q] = w.t.dirty[q]
          /\ d \in [DOMAIN d -> PageT]
      BY <1>1, <2>2
    <2>7. d \in Dirties
      <3>1. DOMAIN d \subseteq Pgs
        BY <1>1, <2>6
      <3> QED
        BY <2>6, <3>1, DirtyType
    <2>8. u.room \in 0..DirtyMax => u \in Txn
      BY <1>1, <2>3, <2>5, <2>7 DEF Txn
    <2>9. p \in DOMAIN w.t.dirty /\ p \notin w.t.spill
      <3>1. WhereIs(w, p) = Top
        BY <1>1, <1>2, <1>3, <1>8
      <3> QED
        BY <3>1, <1>2 DEF Dirty
    <2>10. GivesBack(w.t, u, p)
      BY <1>1, <2>5, <2>6, <2>9 DEF GivesBack, Held
    <2> QED
      BY <1>6, <1>8, <2>4, <2>5, <2>6, <2>8, <2>10, ZenonT(60)
  <1> QED
    BY <1>5, <1>7, <1>8

LEMMA BigIs ==
    ASSUME Started, NEW w, NEW D, NEW U, Bare(w, D, U)
    PROVE  /\ PageOf(w, KidOf(w, BigNode)).ov = D.o /\ BigNode \in Nodes /\ D.k[BigNode] # NoPage
           /\ D.o # NoPage => D.o \in Pgs /\ D.o \in PagesIn(D)
  <1>1. WellMade(D) /\ Skeleton(w, D) /\ \A n \in Nodes : KidOf(w, n) = D.k[n]
    BY BareFacts
  <1>2. BigNode \in Nodes /\ D.k[BigNode] # NoPage
    BY <1>1 DEF WellMade
  <1>3. PageOf(w, KidOf(w, BigNode)).ov = D.o
    BY <1>1, <1>2 DEF Skeleton
  <1> QED
    BY <1>1, <1>2, <1>3, TreeFacts

(* The overflow page is freed.                                             *)
LEMMA FineFreeBig ==
    ASSUME Started, NEW w, NEW D, Fine(w, D), Dirty(w, D.k[BigNode]), D.o # NoPage,
           NEW x, x = FreeOverflow(w, D.o)
    PROVE  x.file = w.file /\ Ok(x) /\ Ready(x, D, PagesIn(D) \ {D.o})
  <1>1. PICK T, U, p : T = PagesIn(D) /\ U = PagesIn(D) \ {D.o} /\ p = D.o
    OBVIOUS
  <1>2. Bare(w, D, T) /\ Pointing(w, D)
    BY <1>1, FineIs
  <1>3. Good(w, T) /\ p \in Pgs /\ p \in T
    BY <1>1, <1>2, BareFacts, BigIs
  <1>4. Good(x, T \ {p}) /\ Frame(w, x) /\ Keeps(w, x, {p})
    BY <1>1, <1>3, FreeBigGood
  <1>5. T \ {p} = U
    BY <1>1
  <1>6. Good(x, U)
    BY <1>4, <1>5, Zenon
  <1>7. Bare(x, D, U) /\ Pointing(x, D) /\ Dirty(x, D.k[BigNode])
    BY <1>1, <1>2, <1>4, <1>6, ReadyKept
  <1> QED
    BY <1>1, <1>4, <1>6, <1>7 DEF Ready, Frame, Good

(* mdb_del of the value with the overflow page.                            *)
LEMMA FineDropBig ==
    ASSUME Started, NEW w, NEW D, Fine(w, D), Dirty(w, D.k[BigNode]), D.o # NoPage,
           NEW x, x = DropBig(w)
    PROVE  x.file = w.file /\ Fine(x, WithBig(D, NoPage, NoVal))
  <1>1. PICK y, U, E : /\ y = FreeOverflow(w, D.o) /\ U = PagesIn(D) \ {D.o}
                       /\ E = WithBig(D, NoPage, NoVal)
    OBVIOUS
  <1>2. y.file = w.file /\ Ready(y, D, U)
    BY <1>1, FineFreeBig
  <1>3. Bare(y, D, U) /\ Pointing(y, D) /\ Dirty(y, D.k[BigNode])
    BY <1>2 DEF Ready
  <1>4. x = SetBig(y, BigNode, NoPage)
    <2>1. Bare(w, D, PagesIn(D)) /\ Ok(w)
      BY FineIs, FineFacts
    <2>2. PageOf(w, KidOf(w, BigNode)).ov = D.o
      BY <2>1, BigIs
    <2> QED
      BY <1>1, <2>1, <2>2 DEF DropBig
  <1>5. WellMade(D)
    BY FineFacts
  <1>6. NoPage \in Opt /\ NoVal \in Vals \cup {NoVal}
    BY DEF Opt
  <1>7. PagesIn(E) = ((PagesIn(D) \ {D.o}) \cup {NoPage}) \ {NoPage}
    BY <1>1, <1>5, <1>6, TreeBig
  <1>8. U = PagesIn(E)
    BY <1>1, <1>7 DEF PagesIn
  <1>9. x.file = y.file /\ Fine(x, E)
    BY <1>1, <1>3, <1>4, <1>6, <1>8, BigSet
  <1> QED
    BY <1>1, <1>2, <1>9

(* The overflow page is overwritten, after it has been copied or read      *)
(* back if need be.                                                        *)
LEMMA FineOverwrite ==
    ASSUME Started, NEW w, NEW D, Fine(w, D), D.o # NoPage, NEW v \in Vals,
           WhereIs(w, D.o) # 0 \/ Spilled(w, D.o),
           NEW x, x = Overwrite(w, D.o, v)
    PROVE  /\ x.file = w.file
           /\ Ok(x) => Fine(x, WithBig(D, D.o, v))
           /\ ~Ok(x) => x = [w EXCEPT !.rc = "failed"]
  <1>1. PICK T, p : T = PagesIn(D) /\ p = D.o
    OBVIOUS
  <1>2. Bare(w, D, T) /\ Pointing(w, D)
    BY <1>1, FineIs
  <1>3. /\ Good(w, T) /\ p \in Pgs /\ p \in T /\ p # NoPage /\ Top \in Nat /\ WellMade(D)
        /\ w \in WorkT /\ Typed(w) /\ D.r = w.t.root /\ Ok(w)
    BY <1>1, <1>2, BareFacts, BigIs
  <1>4. WhereIs(w, p) \in 0..Top /\ (WhereIs(w, p) = Top <=> Dirty(w, p))
    BY <1>3, PlaceFacts
  <1>5. PICK y : y = BigWritable(w, p)
    OBVIOUS
  <1>6. /\ Frame(w, y)
        /\ Ok(y) => Good(y, T) /\ Dirty(y, p) /\ Keeps(w, y, {p})
        /\ ~Ok(y) => y = [w EXCEPT !.rc = "failed"]
    <2>1. CASE WhereIs(w, p) = 0
      <3>1. y = Unspill(w, p)
        BY <1>5, <2>1 DEF BigWritable
      <3>2. Spilled(w, p)
        BY <1>1, <2>1
      <3> QED
        BY <1>3, <2>1, <3>1, <3>2, UnspillGood
    <2>2. CASE WhereIs(w, p) > 0 /\ WhereIs(w, p) < Top
      <3>1. y = CopyFromParent(w, p)
        BY <1>5, <2>2 DEF BigWritable
      <3> QED
        BY <1>3, <2>2, <3>1, CopyGood
    <2>3. CASE WhereIs(w, p) = Top /\ WhereIs(w, p) # 0
      <3>1. y = w
        BY <1>3, <1>5, <2>3 DEF BigWritable
      <3>2. Frame(w, w) /\ Keeps(w, w, {p})
        BY DEF Frame, Keeps
      <3> QED
        BY <1>3, <1>4, <2>3, <3>1, <3>2
    <2> QED
      BY <1>3, <1>4, <2>1, <2>2, <2>3
  <1>7. x = IF Ok(y) THEN [y EXCEPT !.t.dirty[p].val = v] ELSE y
    BY <1>1, <1>5 DEF Overwrite
  <1>8. CASE ~Ok(y)
    BY <1>6, <1>7, <1>8 DEF Frame
  <1>9. CASE Ok(y)
    <2>1. x = [y EXCEPT !.t.dirty[p].val = v]
      BY <1>7, <1>9
    <2>2. Good(y, T) /\ Dirty(y, p) /\ Keeps(w, y, {p}) /\ Frame(w, y)
      BY <1>6, <1>9
    <2>3. PICK c \in PageT : Wrote(y, x, T, p, c) /\ c.val = v
      BY <2>1, <2>2, EditVal
    <2>4. Good(x, T) /\ Frame(y, x) /\ Keeps(y, x, {p}) /\ PageOf(x, p) = c
      BY <2>3 DEF Wrote
    <2>5. Frame(w, x)
      BY <2>2, <2>4, FrameTrans
    <2>6. Keeps(w, x, {p})
      <3>1. Keeps(w, x, {p} \cup {p})
        BY <2>2, <2>4, KeepsTrans
      <3> QED
        BY <3>1, KeepsMore
    <2>7. PICK E : E = WithBig(D, p, v)
      OBVIOUS
    <2>8. /\ WellMade(E) /\ E.r = D.r /\ E.k = D.k /\ E.c = D.c /\ E.o = p /\ E.b = v
          /\ PagesIn(E) = ((PagesIn(D) \ {D.o}) \cup {p}) \ {NoPage}
      <3>1. p \in Opt /\ p \in {D.o, NoPage}
        BY <1>1, <1>3 DEF Opt
      <3> QED
        BY <1>3, <2>7, <3>1, TreeBig
    <2>9. PagesIn(E) = T
      BY <1>1, <1>3, <2>8, PgsFinite DEF PagesIn
    <2>10. D.r # p /\ \A n \in Nodes : D.k[n] # NoPage => D.k[n] # p /\ D.k[n] \in Pgs
      BY <1>1, <1>3, TreeFacts DEF WellMade
    <2>11. Bare(x, D, T)
      BY <1>2, <2>4, <2>5, <2>6, <2>10, BareKept
    <2>12. Bare(x, E, T)
      BY <2>8, <2>11, <1>1 DEF Bare, Skeleton
    <2>13. Pointing(x, E)
      <3>1. x.cur = w.cur
        BY <2>5 DEF Frame
      <3> QED
        BY <1>2, <1>3, <2>6, <2>8, <2>10, <3>1, PointsKeep
    <2>14. BigShown(x, E)
      BY <2>3, <2>4, <2>8 DEF BigShown
    <2>15. Fine(x, E)
      BY <2>9, <2>12, <2>13, <2>14, FineIs
    <2>16. Ok(x)
      BY <2>15, FineFacts
    <2> QED
      BY <1>1, <2>5, <2>7, <2>15, <2>16 DEF Frame
  <1> QED
    BY <1>8, <1>9

(* mdb_put of a value with an overflow page.                               *)
LEMMA FineWriteBig ==
    ASSUME Started, NEW w, NEW D, Fine(w, D), Dirty(w, D.k[BigNode]), NEW v \in Vals,
           NEW x, x = WriteBig(w, BigNode, v)
    PROVE  /\ x.file = w.file
           /\ Ok(x) => \E q \in Opt : q # NoPage /\ Fine(x, WithBig(D, q, v))
           /\ ~Ok(x) => Failing(x) \/ x = [w EXCEPT !.rc = "failed"]
  <1>1. PICK T, U : T = PagesIn(D) /\ U = PagesIn(D) \ {D.o}
    OBVIOUS
  <1>2. Bare(w, D, T) /\ Pointing(w, D)
    BY <1>1, FineIs
  <1>3. /\ PageOf(w, KidOf(w, BigNode)).ov = D.o /\ Ok(w)
        /\ D.o # NoPage => D.o \in Pgs
    BY <1>2, BigIs, BareFacts
  <1>4. CASE D.o = NoPage
    <2>1. x = NewBig(w, BigNode, v)
      BY <1>3, <1>4 DEF WriteBig
    <2>2. T = U
      BY <1>1, <1>4 DEF PagesIn
    <2>3. Ready(w, D, U)
      BY <1>1, <1>2, <2>2 DEF Ready
    <2> QED
      BY <2>1, <2>3, FineNewBig
  <1>5. CASE D.o # NoPage /\ WhereIs(w, D.o) = 0 /\ ~Spilled(w, D.o)
    <2>1. PICK y : y = FreeOverflow(w, D.o)
      OBVIOUS
    <2>2. x = NewBig(y, BigNode, v)
      BY <1>3, <1>5, <2>1 DEF WriteBig
    <2>3. y.file = w.file /\ Ready(y, D, U)
      BY <1>1, <1>5, <2>1, FineFreeBig
    <2> QED
      BY <2>2, <2>3, FineNewBig
  <1>6. CASE D.o # NoPage /\ ~(WhereIs(w, D.o) = 0 /\ ~Spilled(w, D.o))
    <2>1. x = Overwrite(w, D.o, v)
      BY <1>3, <1>6 DEF WriteBig
    <2>2. WhereIs(w, D.o) # 0 \/ Spilled(w, D.o)
      BY <1>6
    <2>3. /\ x.file = w.file
          /\ Ok(x) => Fine(x, WithBig(D, D.o, v))
          /\ ~Ok(x) => x = [w EXCEPT !.rc = "failed"]
      BY <1>6, <2>1, <2>2, FineOverwrite
    <2>4. D.o \in Opt
      BY <1>3, <1>6 DEF Opt
    <2> QED
      BY <1>6, <2>3, <2>4
  <1> QED
    BY <1>4, <1>5, <1>6

(* mdb_page_split *)
LEMMA FineAddLeaf ==
    ASSUME Started, NEW w, NEW D, Fine(w, D), Dirty(w, D.r), NEW m \in Nodes, D.k[m] = NoPage,
           NEW v \in Vals, NEW x, x = AddLeaf(w, m, v)
    PROVE  /\ x.file = w.file
           /\ Ok(x) => \E q \in Pgs : q \notin PagesIn(D) /\ Fine(x, WithLeaf(D, m, q, v))
           /\ ~Ok(x) => Failing(x)
  <1>1. PICK T : T = PagesIn(D)
    OBVIOUS
  <1>2. Bare(w, D, T) /\ BigShown(w, D) /\ Pointing(w, D)
    BY <1>1, FineIs
  <1>3. /\ Good(w, T) /\ WellMade(D) /\ D.r = w.t.root /\ Skeleton(w, D) /\ Ok(w) /\ Typed(w)
    BY <1>2, BareFacts
  <1>4. PICK a : a = PageAlloc(w)
    OBVIOUS
  <1>5. /\ Typed(a) /\ Frame(w, a)
        /\ Ok(a) => /\ Good(a, T \cup {a.new}) /\ a.new \in Pgs \ T
                    /\ Dirty(a, a.new) /\ Keeps(w, a, {a.new})
        /\ ~Ok(a) => Failing(a)
    BY <1>3, <1>4, AllocGood
  <1>6. CASE ~Ok(a)
    <2>1. x = a
      BY <1>3, <1>4, <1>6 DEF AddLeaf
    <2> QED
      BY <2>1, <1>5, <1>6 DEF Frame
  <1>7. CASE Ok(a)
    <2>1. PICK q, V, r : q = a.new /\ V = T \cup {q} /\ r = D.r
      OBVIOUS
    <2>2. Good(a, V) /\ q \in Pgs /\ q \notin T /\ Dirty(a, q) /\ Keeps(w, a, {q})
      BY <1>5, <1>7, <2>1
    <2>3. /\ r \in Pgs /\ r # q /\ q # NoPage
          /\ \A n \in Nodes : D.k[n] # NoPage => D.k[n] \in Pgs /\ D.k[n] # q /\ D.k[n] # r
          /\ D.o # NoPage => D.o \in Pgs /\ D.o # q /\ D.o # r
      BY <1>1, <1>3, <2>1, <2>2, TreeFacts, PgsFinite DEF WellMade
    <2>4. PICK c : c = Leaf(v, NoPage)
      OBVIOUS
    <2>5. c \in PageT /\ c.val = v /\ c.ov = NoPage
      BY <2>4, Shapes DEF Leaf
    <2>6. PICK b : b = [a EXCEPT !.t.dirty[q] = c]
      OBVIOUS
    <2>7. Wrote(a, b, V, q, c)
      <3>1. Writes(a, b, q, c)
        BY <2>6 DEF Writes
      <3> QED
        BY <2>2, <2>5, <3>1, WriteGood
    <2>8. Good(b, V) /\ Frame(a, b) /\ Keeps(a, b, {q}) /\ PageOf(b, q) = c
      BY <2>7 DEF Wrote
    <2>9. Frame(w, b)
      BY <1>5, <2>8, FrameTrans
    <2>10. Keeps(w, b, {q})
      <3>1. Keeps(w, b, {q} \cup {q})
        BY <2>2, <2>8, KeepsTrans
      <3> QED
        BY <3>1, KeepsMore
    <2>11. Dirty(b, r)
      BY <1>3, <2>1, <2>3, <2>8, <2>10, DirtyKept
    <2>12. x = [b EXCEPT !.t.dirty[r].kids[m] = q]
      <3>1. b.t.root = r
        BY <1>3, <2>1, <2>9 DEF Frame
      <3> QED
        BY <1>3, <1>4, <1>7, <2>1, <2>4, <2>6, <3>1 DEF AddLeaf, SetKid
    <2>13. PICK e \in PageT : Wrote(b, x, V, r, e) /\ e.kids = [PageOf(b, r).kids EXCEPT ![m] = q]
      <3>1. q \in Opt
        BY <2>2 DEF Opt
      <3> QED
        BY <2>8, <2>11, <2>12, <3>1, EditKid
    <2>14. /\ Good(x, V) /\ Frame(b, x) /\ Keeps(b, x, {r}) /\ PageOf(x, r) = e
           /\ WhereIs(x, r) = WhereIs(b, r)
      BY <2>13 DEF Wrote
    <2>15. \A z \in Pgs : z # q => WhereIs(x, z) = WhereIs(w, z)
      BY <2>10, <2>14 DEF Keeps
    <2>16. \A z \in Pgs : z # q /\ z # r => PageOf(x, z) = PageOf(w, z)
      BY <2>10, <2>14 DEF Keeps
    <2>17. PICK E : E = WithLeaf(D, m, q, v)
      OBVIOUS
    <2>18. /\ WellMade(E) /\ E.r = D.r /\ E.o = D.o /\ E.b = D.b
           /\ E.k = [D.k EXCEPT ![m] = q] /\ m # BigNode
           /\ E.k[m] = q /\ \A n \in Nodes : n # m => E.k[n] = D.k[n]
           /\ E.c[m] = v /\ \A n \in Nodes : n # m => E.c[n] = D.c[n]
           /\ PagesIn(E) = PagesIn(D) \cup {q}
      BY <1>1, <1>3, <2>2, <2>17, TreeAdd
    <2>19. Skeleton(x, E)
      <3>1. PageOf(x, E.r).kids = E.k
        BY <1>3, <2>1, <2>3, <2>10, <2>13, <2>14, <2>18 DEF Keeps, Skeleton
      <3>2. ASSUME NEW n \in Nodes, E.k[n] # NoPage
            PROVE  /\ PageOf(x, E.k[n]).val = E.c[n]
                   /\ PageOf(x, E.k[n]).ov = IF n = BigNode THEN E.o ELSE NoPage
        <4>1. CASE n = m
          <5>1. PageOf(x, q) = c
            BY <2>2, <2>3, <2>8, <2>14 DEF Keeps
          <5> QED
            BY <4>1, <5>1, <2>5, <2>18
        <4>2. CASE n # m
          BY <4>2, <3>2, <1>3, <2>3, <2>16, <2>18 DEF Skeleton
        <4> QED
          BY <4>1, <4>2
      <3> QED
        BY <3>1, <3>2 DEF Skeleton
    <2>20. BigShown(x, E)
      BY <1>2, <2>3, <2>16, <2>18 DEF BigShown
    <2>21. Pointing(x, E)
      <3> SUFFICES ASSUME NEW d \in Cursors
                   PROVE  PointsIn(x.cur[d], x, E)
        BY DEF Pointing
      <3>1. w.cur[d] \in Cursor /\ x.cur[d] = w.cur[d] /\ PointsIn(w.cur[d], w, D)
        BY <1>2, <1>3, <2>9, <2>14, CursorType DEF Pointing, Frame
      <3>2. w.cur[d].at \in Nodes \cup {NoNode}
        BY <3>1 DEF Cursor
      <3>3. CASE w.cur[d].at = NoNode
        BY <3>1, <3>3 DEF PointsIn
      <3>4. CASE w.cur[d].at # NoNode
        <4>1. PICK n : n = w.cur[d].at
          OBVIOUS
        <4>2. n \in Nodes /\ D.k[n] # NoPage /\ w.cur[d].root = At(w, r) /\ w.cur[d].leaf = At(w, D.k[n])
          BY <3>1, <3>2, <3>4, <4>1, <2>1 DEF PointsIn
        <4>3. E.k[n] = D.k[n]
          BY <4>2, <2>18
        <4>4. At(x, r) = At(w, r) /\ At(x, D.k[n]) = At(w, D.k[n])
          BY <4>2, <2>3, <2>15 DEF At
        <4> QED
          BY <3>1, <3>4, <4>1, <4>2, <4>3, <4>4, <2>1, <2>18 DEF PointsIn
      <3> QED
        BY <3>3, <3>4
    <2>22. Fine(x, E)
      <3>1. PagesIn(E) = V
        BY <1>1, <2>1, <2>18
      <3>2. Good(x, PagesIn(E))
        BY <3>1, <2>14
      <3>3. E.r = x.t.root
        BY <1>3, <2>9, <2>14, <2>18 DEF Frame
      <3>4. Bare(x, E, PagesIn(E))
        BY <3>2, <3>3, <2>18, <2>19 DEF Bare
      <3> QED
        BY <3>4, <2>20, <2>21, FineIs
    <2>23. x.file = w.file /\ Ok(x)
      BY <2>9, <2>14 DEF Frame, Good
    <2> QED
      BY <1>1, <2>2, <2>17, <2>22, <2>23
  <1> QED
    BY <1>6, <1>7

(* mdb_page_loose *)
LEMMA LoosenGood ==
    ASSUME Started, NEW w, NEW T, Good(w, T), NEW p \in Pgs, p \in T, NEW x, x = Loosen(w, p)
    PROVE  Good(x, T \ {p}) /\ Frame(w, x) /\ Keeps(w, x, {})
  <1>1. /\ w \in WorkT /\ w.t \in Txn /\ Typed(w) /\ Ok(w) /\ ~w.t.error
        /\ Top \in Nat \ {0} /\ Stacked /\ Top > 0
        /\ ListsOK(txns, Top, w.t, w.head, w.last, T)
    BY GoodFacts
  <1>2. CASE WhereIs(w, p) # Top
    <2>1. x = FreePage(w, p)
      BY <1>2 DEF Loosen
    <2> QED
      BY <2>1, FreeGood
  <1>3. CASE WhereIs(w, p) = Top
    <2>1. Dirty(w, p)
      BY <1>3, PlaceFacts
    <2>2. PICK m : m = <<p>> \o w.t.loose
      OBVIOUS
    <2>3. m \in Seq(Pgs)
      <3>1. w.t.loose \in Seq(Pgs) /\ <<p>> \in Seq(Pgs)
        BY <1>1 DEF Txn
      <3> QED
        BY <3>1, <2>2
    <2>4. PICK u : u = [w.t EXCEPT !.loose = m]
      OBVIOUS
    <2>5. /\ u \in Txn /\ u.dirty = w.t.dirty /\ u.root = w.t.root /\ u.head0 = w.t.head0
          /\ u.last0 = w.t.last0 /\ u.spill = w.t.spill /\ u.room = w.t.room
          /\ u.loose = m /\ u.free = w.t.free /\ u.next = w.t.next
          /\ u.error = w.t.error
      BY <1>1, <2>3, <2>4 DEF Txn
    <2>6. x = [w EXCEPT !.t = u]
      BY <1>1, <1>3, <2>2, <2>4 DEF Loosen, WorkT, Txn
    <2>7. /\ x \in WorkT /\ x.t = u /\ x.head = w.head /\ x.last = w.last
          /\ x.file = w.file /\ x.cur = w.cur /\ x.rc = w.rc
      BY <1>1, <2>5, <2>6 DEF WorkT
    <2>8. Frame(w, x)
      BY <2>5, <2>7 DEF Frame
    <2>9. Typed(x)
      BY <1>1, <2>7, <2>8, TypedFrame
    <2>10. PICK t : t = w.t
      OBVIOUS
    <2>11. Loosens(t, u, p)
      BY <1>1, <2>1, <2>2, <2>5, <2>10 DEF Loosens, Dirty
    <2>12. ListsOK(txns, Top, u, w.head, w.last, T \ {p})
      BY <1>1, <2>10, <2>11, MoveLoosen
    <2>13. Good(x, T \ {p})
      BY <1>1, <2>5, <2>7, <2>9, <2>12 DEF Good, Ok, Lists
    <2>14. Keeps(w, x, {})
      BY <1>1, <2>5, <2>7, KeepsBy
    <2> QED
      BY <2>8, <2>13, <2>14
  <1> QED
    BY <1>2, <1>3

LEMMA SameTrans ==
    ASSUME NEW w, NEW x, NEW y, SameAt(w, x), SameAt(x, y)
    PROVE  SameAt(w, y)
  BY DEF SameAt

LEMMA KeepsAt ==
    ASSUME NEW w, NEW x, NEW p, Keeps(w, x, {p}), WhereIs(x, p) = WhereIs(w, p)
    PROVE  SameAt(w, x)
  BY DEF SameAt, Keeps, At

(* A node loses its leaf.                                                  *)
LEMMA KidDropped ==
    ASSUME Started, NEW w, NEW D, NEW U, Bare(w, D, U), NEW n \in Nodes, D.k[n] # NoPage,
           n # BigNode, Dirty(w, D.r), NEW x, x = SetKid(w, n, NoPage),
           NEW E, E = WithKid(D, n, NoPage)
    PROVE  Bare(x, E, U) /\ Frame(w, x) /\ Keeps(w, x, {D.r}) /\ SameAt(w, x)
  <1>1. PICK r : r = D.r
    OBVIOUS
  <1>2. /\ Good(w, U) /\ WellMade(D) /\ w.t.root = r /\ Skeleton(w, D)
    BY <1>1, BareFacts
  <1>3. /\ r \in Pgs /\ \A m \in Nodes : D.k[m] # NoPage => D.k[m] \in Pgs /\ D.k[m] # r
    BY <1>1, <1>2, TreeFacts DEF WellMade
  <1>4. x = [w EXCEPT !.t.dirty[r].kids[n] = NoPage]
    BY <1>2 DEF SetKid
  <1>5. NoPage \in Opt
    BY DEF Opt
  <1>6. PICK c \in PageT : /\ Wrote(w, x, U, r, c)
                           /\ c.kids = [PageOf(w, r).kids EXCEPT ![n] = NoPage]
    BY <1>1, <1>2, <1>4, <1>5, EditKid
  <1>7. /\ Good(x, U) /\ Frame(w, x) /\ Keeps(w, x, {r}) /\ PageOf(x, r) = c
        /\ WhereIs(x, r) = WhereIs(w, r)
    BY <1>6 DEF Wrote
  <1>8. /\ WellMade(E) /\ E.r = D.r /\ E.c = D.c /\ E.o = D.o /\ E.b = D.b
        /\ E.k = [D.k EXCEPT ![n] = NoPage]
        /\ E.k[n] = NoPage /\ \A m \in Nodes : m # n => E.k[m] = D.k[m]
    BY <1>2, TreeDrop
  <1>9. Skeleton(x, E)
    <2>1. PageOf(x, E.r).kids = E.k
      BY <1>1, <1>2, <1>6, <1>7, <1>8 DEF Skeleton
    <2>2. ASSUME NEW m \in Nodes, E.k[m] # NoPage
          PROVE  /\ PageOf(x, E.k[m]).val = E.c[m]
                 /\ PageOf(x, E.k[m]).ov = IF m = BigNode THEN E.o ELSE NoPage
      <3>1. m # n
        BY <2>2, <1>8
      <3> QED
        BY <3>1, <2>2, <1>2, <1>3, <1>7, <1>8 DEF Skeleton, Keeps
    <2> QED
      BY <2>1, <2>2 DEF Skeleton
  <1>10. Bare(x, E, U)
    BY <1>1, <1>2, <1>7, <1>8, <1>9 DEF Bare, Frame
  <1>11. SameAt(w, x)
    BY <1>7, KeepsAt
  <1> QED
    BY <1>1, <1>7, <1>10, <1>11

(* The cursors of the leaf that is given up go to the one it joins.        *)
Rejoined(w, x, old, new, kept) ==
  \A c \in Cursors :
    /\ x.cur[c].root = w.cur[c].root
    /\ x.cur[c].leaf = IF w.cur[c].leaf = old THEN new ELSE w.cur[c].leaf
    /\ x.cur[c].at = IF w.cur[c].leaf = old THEN kept ELSE w.cur[c].at

(* The cursors of the leaf that goes are moved to the one that stays.      *)
LEMMA FollowGood ==
    ASSUME Started, NEW w, NEW T, Good(w, T), NEW p \in Pgs, NEW i, NEW kept \in Nodes,
           NEW q \in Pgs, KidOf(w, kept) = q, NEW x, x = FollowMerge(w, <<i, p>>, kept)
    PROVE  /\ Good(x, T) /\ Ok(x) /\ x.t = w.t /\ x.file = w.file /\ Keeps(w, x, {})
           /\ Rejoined(w, x, <<i, p>>, <<Top, q>>, kept)
  <1>1. /\ w \in WorkT /\ Typed(w) /\ Top \in Nat /\ NoPage \notin Pgs
    BY GoodFacts, PgsFinite
  <1>2. PICK old, new : old = <<i, p>> /\ new = <<Top, q>>
    OBVIOUS
  <1>3. /\ new \in Spots(Top) /\ old # NotAt
    BY <1>1, <1>2 DEF Spots, Opt, NotAt
  <1>4. PICK g : g = [c \in Cursors |->
     IF w.cur[c].leaf = old THEN [w.cur[c] EXCEPT !.leaf = new, !.at = kept] ELSE w.cur[c]]
    OBVIOUS
  <1>5. x = [w EXCEPT !.cur = g]
    BY <1>2, <1>4 DEF FollowMerge
  <1>6. ASSUME NEW c \in Cursors
        PROVE  /\ g[c] \in Cursor /\ CurFrame(g[c], cur[c])
               /\ g[c].root = w.cur[c].root
               /\ g[c].leaf = IF w.cur[c].leaf = old THEN new ELSE w.cur[c].leaf
               /\ g[c].at = IF w.cur[c].leaf = old THEN kept ELSE w.cur[c].at
    <2>1. PICK r, z : r = w.cur[c] /\ z = g[c]
      OBVIOUS
    <2>2. r \in Cursor /\ CurFrame(r, cur[c]) /\ Spots(Top) \subseteq Spot
      BY <1>1, <2>1, CursorType
    <2>3. CASE r.leaf # old
      <3>1. z = r
        BY <2>1, <2>3, <1>4
      <3> QED
        BY <3>1, <2>1, <2>2, <2>3
    <2>4. CASE r.leaf = old
      <3>1. z = [r EXCEPT !.leaf = new, !.at = kept]
        BY <2>1, <2>4, <1>4
      <3>2. /\ z.own = r.own /\ z.at = kept /\ z.backup = r.backup
            /\ z.root = r.root /\ z.leaf = new
            /\ z = [own |-> z.own, at |-> z.at, root |-> z.root, leaf |-> z.leaf, backup |-> z.backup]
        BY <2>2, <3>1 DEF Cursor
      <3>3. z.root \in Spots(Top) /\ z.leaf \in Spots(Top)
        BY <2>2, <3>2, <1>3 DEF CurFrame
      <3>4. z \in Cursor
        BY <2>2, <3>2, <3>3 DEF Cursor
      <3>5. cur[c].own # 0
        <4>1. cur[c].own = 0 => r.leaf = NotAt
          BY <2>2 DEF CurFrame, Closed
        <4> QED
          BY <4>1, <2>4, <1>3
      <3>6. CurFrame(z, cur[c])
        BY <2>2, <3>2, <3>3, <3>5 DEF CurFrame
      <3> QED
        BY <2>1, <2>4, <3>2, <3>4, <3>6
    <2> QED
      BY <2>3, <2>4
  <1>7. g \in [Cursors -> Cursor]
    <2>1. \A c \in Cursors : g[c] \in Cursor
      BY <1>6
    <2> QED
      BY <1>4, <2>1
  <1>8. \A c \in Cursors : CurFrame(g[c], cur[c])
    BY <1>6
  <1>9. /\ Good(x, T) /\ Ok(x) /\ x.cur = g /\ x.t = w.t /\ x.file = w.file /\ Keeps(w, x, {})
    BY <1>5, <1>7, <1>8, CursGood
  <1>10. Rejoined(w, x, old, new, kept)
    BY <1>6, <1>9 DEF Rejoined
  <1> QED
    BY <1>2, <1>9, <1>10

(* mdb_page_merge                                                          *)
LEMMA FineMerged ==
    ASSUME Started, NEW w, NEW D, Fine(w, D), Dirty(w, D.r), NEW dead \in Nodes, NEW kept \in Nodes,
           dead # kept, dead # BigNode, D.k[dead] # NoPage, D.k[kept] # NoPage,
           Dirty(w, D.k[kept]), NEW v \in Vals, NEW x, x = Merged(w, dead, kept, v)
    PROVE  x.file = w.file /\ Fine(x, WithVal(WithKid(D, dead, NoPage), kept, v))
  <1>1. PICK T, U, d, q, r : /\ T = PagesIn(D) /\ d = D.k[dead] /\ U = T \ {d}
                             /\ q = D.k[kept] /\ r = D.r
    OBVIOUS
  <1>2. PICK B, E : B = WithKid(D, dead, NoPage) /\ E = WithVal(B, kept, v)
    OBVIOUS
  <1>3. PICK y, z, u : /\ y = Loosen(w, d) /\ z = SetKid(y, dead, NoPage)
                       /\ u = SetLeaf(z, kept, v)
    OBVIOUS
  <1>4. Bare(w, D, T) /\ BigShown(w, D) /\ Pointing(w, D)
    BY <1>1, FineIs
  <1>5. /\ Good(w, T) /\ WellMade(D) /\ D.r = w.t.root /\ Ok(w) /\ Typed(w)
        /\ KidOf(w, dead) = d /\ Top \in Nat
    BY <1>1, <1>4, BareFacts
  <1>6. /\ r \in Pgs /\ d \in Pgs /\ d \in T /\ q \in Pgs /\ d # q /\ d # r /\ q # r /\ d # NoPage
        /\ q # NoPage
        /\ \A n \in Nodes : D.k[n] # NoPage => D.k[n] \in Pgs /\ (n # dead => D.k[n] # d)
        /\ D.o # NoPage => D.o \in Pgs /\ D.o # r /\ D.o # q
    BY <1>1, <1>5, TreeFacts DEF WellMade
  <1>7. Good(y, U) /\ Frame(w, y) /\ Keeps(w, y, {})
    BY <1>1, <1>3, <1>5, <1>6, LoosenGood
  <1>8. Bare(y, D, U)
    BY <1>4, <1>7, BareKept
  <1>9. SameAt(w, y)
    BY <1>7 DEF SameAt, Keeps, At
  <1>10. Dirty(y, r) /\ Dirty(y, q)
    BY <1>1, <1>5, <1>6, <1>7, DirtyKept
  <1>11. Bare(z, B, U) /\ Frame(y, z) /\ Keeps(y, z, {r}) /\ SameAt(y, z)
    BY <1>1, <1>2, <1>3, <1>6, <1>8, <1>10, KidDropped
  <1>12. /\ B.r = D.r /\ B.o = D.o /\ B.b = D.b /\ PagesIn(B) = U /\ WellMade(B)
         /\ B.k[dead] = NoPage /\ \A n \in Nodes : n # dead => B.k[n] = D.k[n]
    <2>1. /\ WellMade(B) /\ B.r = D.r /\ B.c = D.c /\ B.o = D.o /\ B.b = D.b
          /\ B.k = [D.k EXCEPT ![dead] = NoPage]
          /\ B.k[dead] = NoPage /\ \A n \in Nodes : n # dead => B.k[n] = D.k[n]
          /\ PagesIn(B) = PagesIn(D) \ {D.k[dead]}
      BY <1>2, <1>5, TreeDrop
    <2> QED
      BY <2>1, <1>1
  <1>13. Dirty(z, q) /\ B.k[kept] = q /\ Good(z, U)
    <2>1. Good(z, U)
      BY <1>11, BareFacts
    <2>2. Dirty(z, q)
      BY <2>1, <1>6, <1>7, <1>10, <1>11, DirtyKept
    <2> QED
      BY <2>1, <2>2, <1>1, <1>12
  <1>14. Bare(u, E, U) /\ Frame(z, u) /\ Keeps(z, u, {q}) /\ SameAt(z, u)
    BY <1>2, <1>3, <1>6, <1>11, <1>13, LeafSet
  <1>15. /\ WellMade(E) /\ E.r = D.r /\ E.k = B.k /\ E.o = D.o /\ E.b = D.b /\ PagesIn(E) = U
    BY <1>2, <1>12, TreeVal
  <1>16. Frame(w, u) /\ SameAt(w, u)
    BY <1>7, <1>9, <1>11, <1>14, FrameTrans, SameTrans
  <1>17. Good(u, U) /\ KidOf(u, kept) = q /\ Dirty(u, q)
    <2>1. Good(u, U) /\ KidOf(u, kept) = q
      BY <1>13, <1>14, <1>15, BareFacts
    <2>2. WhereIs(u, q) = WhereIs(z, q)
      BY <1>6, <1>14 DEF SameAt, At
    <2>3. WhereIs(z, q) = Top
      BY <1>6, <1>13, PlaceFacts
    <2>4. Dirty(u, q)
      BY <2>1, <2>2, <2>3, <1>6, PlaceFacts
    <2> QED
      BY <2>1, <2>4
  <1>18. PICK i : i = WhereIs(w, d)
    OBVIOUS
  <1>19. x = FollowMerge(u, <<i, d>>, kept)
    <2>1. Ok(z) /\ Ok(y)
      BY <1>8, <1>11, BareFacts
    <2>2. Joined(w, dead, kept, v) = u
      BY <1>3, <1>5 DEF Joined
    <2> QED
      BY <2>2, <1>5, <1>18 DEF Merged, At
  <1>20. /\ Good(x, U) /\ x.t = u.t /\ x.file = u.file /\ Keeps(u, x, {})
         /\ Rejoined(u, x, <<i, d>>, <<Top, q>>, kept)
    BY <1>6, <1>17, <1>19, FollowGood
  <1>21. \A a \in Pgs : At(x, a) = At(w, a)
    BY <1>16, <1>20 DEF SameAt, Keeps, At
  <1>22. Bare(x, E, U)
    <2>1. Skeleton(u, E) /\ E.r = u.t.root
      BY <1>14 DEF Bare
    <2>2. E.r \in Pgs /\ \A n \in Nodes : E.k[n] # NoPage => E.k[n] \in Pgs
      BY <1>15, TreeFacts
    <2>3. Skeleton(x, E)
      BY <2>1, <2>2, <1>20 DEF Skeleton, Keeps
    <2> QED
      BY <2>1, <2>3, <1>15, <1>20 DEF Bare
  <1>23. BigShown(x, E)
    BY <1>4, <1>6, <1>7, <1>11, <1>14, <1>15, <1>20 DEF BigShown, Keeps
  <1>24. Pointing(x, E)
    <2> SUFFICES ASSUME NEW c \in Cursors
                 PROVE  PointsIn(x.cur[c], x, E)
      BY DEF Pointing
    <2>1. PICK a, old : a = w.cur[c] /\ old = <<i, d>>
      OBVIOUS
    <2>2. a \in Cursor /\ PointsIn(a, w, D) /\ u.cur[c] = a
      BY <1>4, <1>5, <1>16, <2>1, CursorType DEF Pointing, Frame
    <2>3. a.at \in Nodes \cup {NoNode}
      BY <2>2 DEF Cursor
    <2>4. /\ x.cur[c].root = a.root
          /\ x.cur[c].leaf = IF a.leaf = old THEN <<Top, q>> ELSE a.leaf
          /\ x.cur[c].at = IF a.leaf = old THEN kept ELSE a.at
      BY <1>20, <2>1, <2>2 DEF Rejoined
    <2>5. old = At(w, d)
      BY <1>18, <2>1 DEF At
    <2>6. kept # NoNode
      BY StoreAssumption
    <2>7. At(x, q) = <<Top, q>>
      <3>1. At(x, q) = At(u, q)
        BY <1>6, <1>20 DEF Keeps, At
      <3>2. WhereIs(u, q) = Top
        BY <1>6, <1>17, PlaceFacts
      <3> QED
        BY <3>1, <3>2 DEF At
    <2>8. E.k[kept] = q
      BY <1>13, <1>15
    <2>9. CASE a.at = NoNode
      <3>1. a.leaf = NotAt /\ old # NotAt
        BY <2>1, <2>2, <2>9, <1>6 DEF PointsIn, NotAt
      <3> QED
        BY <3>1, <2>4, <2>9 DEF PointsIn
    <2>10. CASE a.at # NoNode /\ a.leaf = old
      <3>1. a.root = At(w, D.r)
        BY <2>2, <2>10 DEF PointsIn
      <3>2. At(x, D.r) = At(w, D.r)
        BY <1>1, <1>6, <1>21
      <3> QED
        BY <3>1, <3>2, <2>4, <2>6, <2>7, <2>8, <2>10, <1>6, <1>15 DEF PointsIn
    <2>11. CASE a.at # NoNode /\ a.leaf # old
      <3>1. PICK n : n = a.at
        OBVIOUS
      <3>2. n \in Nodes /\ a.root = At(w, D.r) /\ D.k[n] # NoPage /\ a.leaf = At(w, D.k[n])
        BY <2>2, <2>3, <2>11, <3>1 DEF PointsIn
      <3>3. n # dead
        BY <3>2, <2>5, <2>11, <1>1
      <3>4. E.k[n] = D.k[n]
        BY <3>2, <3>3, <1>12, <1>15
      <3>5. At(x, D.r) = At(w, D.r) /\ At(x, D.k[n]) = At(w, D.k[n])
        BY <3>2, <1>1, <1>6, <1>21
      <3> QED
        BY <3>1, <3>2, <3>4, <3>5, <2>4, <2>11, <1>15 DEF PointsIn
    <2> QED
      BY <2>9, <2>10, <2>11
  <1>25. Fine(x, E)
    BY <1>15, <1>22, <1>23, <1>24, FineIs
  <1>26. x.file = w.file
    BY <1>16, <1>20 DEF Frame
  <1> QED
    BY <1>2, <1>25, <1>26

-----------------------------------------------------------------------------
(* From a call to the next state. *)

(* What one sees of a tree.                                                *)
Picture(D) ==
  [n \in Nodes |-> IF D.k[n] = NoPage THEN <<>>
                   ELSE IF n = BigNode /\ D.o # NoPage THEN <<D.c[n], D.b>>
                   ELSE <<D.c[n]>>]

(* Whoever finds the tree D sees its picture, and that is not the mark of  *)
(* failure.                                                                *)
LEMMA ImageIs ==
    ASSUME NEW D, WellMade(D), NEW s, NEW i, NEW f, Shows(D, s, i, f)
    PROVE  Image(s, i, f, D.r) = Picture(D)
  <1>1. Image(s, i, f, D.r) = [n \in Nodes |-> Content(s, i, f, D.k[n])]
    BY DEF Image, Shows
  <1>2. ASSUME NEW n \in Nodes
        PROVE  Content(s, i, f, D.k[n]) =
                 IF D.k[n] = NoPage THEN <<>>
                 ELSE IF n = BigNode /\ D.o # NoPage THEN <<D.c[n], D.b>> ELSE <<D.c[n]>>
    <2>1. CASE D.k[n] = NoPage
      BY <2>1 DEF Content
    <2>2. CASE D.k[n] # NoPage
      <3>1. PICK l : l = Page(s, i, f, D.k[n])
        OBVIOUS
      <3>2. l.val = D.c[n] /\ l.ov = IF n = BigNode THEN D.o ELSE NoPage
        BY <2>2, <3>1 DEF Shows
      <3>3. D.o # NoPage => Page(s, i, f, D.o).val = D.b
        BY DEF Shows
      <3>4. Content(s, i, f, D.k[n]) =
               IF l.ov = NoPage THEN <<l.val>> ELSE <<l.val, Page(s, i, f, l.ov).val>>
        BY <2>2, <3>1 DEF Content
      <3> QED
        BY <2>2, <3>2, <3>3, <3>4
    <2> QED
      BY <2>1, <2>2
  <1> QED
    BY <1>1, <1>2 DEF Picture

LEMMA PictureSound ==
    ASSUME NEW D, WellMade(D)
    PROVE  Picture(D) # Failed
  <1>1. BigNode \in Nodes /\ D.k[BigNode] # NoPage /\ D.c[BigNode] \in Vals
    BY DEF WellMade
  <1>2. NoVal \notin Vals
    BY StoreAssumption
  <1>3. Picture(D)[BigNode] # <<NoVal>>
    <2>1. PICK c, b : c = D.c[BigNode] /\ b = D.b
      OBVIOUS
    <2>2. Picture(D)[BigNode] \in {<<c>>, <<c, b>>}
      BY <1>1, <2>1 DEF Picture
    <2>3. c # NoVal
      BY <1>1, <1>2, <2>1
    <2>4. <<c>> # <<NoVal>> /\ <<c, b>> # <<NoVal>>
      BY <2>3
    <2> QED
      BY <2>2, <2>4
  <1>4. Failed[BigNode] = <<NoVal>>
    BY <1>1 DEF Failed
  <1> QED
    BY <1>3, <1>4

(* What the lists of the i-th transaction say of those around it.          *)
LEMMA ListsAgree ==
    ASSUME NEW i \in Nat \ {0}, NEW s, NEW r, \A j \in 1..(i - 1) : s[j] = r[j],
           s[i].head0 = r[i].head0, s[i].last0 = r[i].last0,
           NEW t, NEW h, NEW l, NEW T, ListsOK(s, i, t, h, l, T)
    PROVE  ListsOK(r, i, t, h, l, T)
  <1>1. SeenTo(s, i - 1) = SeenTo(r, i - 1)
    <2>1. PICK n : n = i - 1
      OBVIOUS
    <2>2. n \in Nat /\ \A j \in 1..n : s[j].dirty = r[j].dirty /\ s[j].spill = r[j].spill
      BY <2>1
    <2>3. \A p : Where(s, n, p) = Where(r, n, p)
      BY <2>2, WhereSame
    <2> QED
      BY <2>1, <2>3 DEF SeenTo
  <1>2. \A k \in 0..(i - 1) : HeldTo(s, k) = HeldTo(r, k)
    <2> SUFFICES ASSUME NEW k \in 0..(i - 1)
                 PROVE  HeldTo(s, k) = HeldTo(r, k)
      OBVIOUS
    <2>1. \A j \in 1..k : Held(s[j]) = Held(r[j])
      BY DEF Held
    <2> QED
      BY <2>1 DEF HeldTo
  <1>3. LooseIn(s, i - 1) = LooseIn(r, i - 1) /\ FreedIn(s, i - 1) = FreedIn(r, i - 1)
    BY DEF LooseIn, FreedIn
  <1>4. \A k \in 0..(i - 1) : FreshAt(s, k) = FreshAt(r, k)
    <2> SUFFICES ASSUME NEW k \in 0..(i - 1)
                 PROVE  FreshAt(s, k) = FreshAt(r, k)
      OBVIOUS
    <2>1. k + 1 \in 1..i
      OBVIOUS
    <2>2. s[k + 1].head0 = r[k + 1].head0 /\ s[k + 1].last0 = r[k + 1].last0
      <3>1. CASE k + 1 = i
        BY <3>1
      <3>2. CASE k + 1 # i
        <4>1. k + 1 \in 1..(i - 1)
          BY <2>1, <3>2
        <4> QED
          BY <4>1
      <3> QED
        BY <3>1, <3>2
    <2>3. NextAt(s, k) = NextAt(r, k)
      BY DEF NextAt
    <2> QED
      BY <2>2, <2>3 DEF FreshAt
  <1>5. Apart(t) /\ RoomOK(s, i, t) /\ LooseOK(s, i, t) /\ FreeOK(s, i, t)
        /\ UseOK(s, i, t, h, l, T) /\ FreshOK(s, i, t, h, l) /\ Within(s, i, t, h, l)
    BY DEF ListsOK
  <1>6. RoomOK(r, i, t) /\ LooseOK(r, i, t) /\ FreeOK(r, i, t) /\ UseOK(r, i, t, h, l, T)
    BY <1>1, <1>3, <1>5 DEF RoomOK, LooseOK, FreeOK, UseOK
  <1>7. FreshOK(r, i, t, h, l)
    <2>1. i - 1 \in 0..(i - 1)
      OBVIOUS
    <2> QED
      BY <2>1, <1>2, <1>5 DEF FreshOK
  <1>8. Within(r, i, t, h, l)
    BY <1>2, <1>4, <1>5 DEF Within
  <1> QED
    BY <1>5, <1>6, <1>7, <1>8 DEF ListsOK

(* A transaction whose pages are left alone stays as it is.                *)
LEMMA Carried ==
    ASSUME NEW i \in Nat \ {0}, NEW s, NEW r, \A j \in 1..i : r[j] = s[j],
           NEW f, NEW g, NEW h, NEW l, NEW D, LevelOK(s, f, h, l, i, D),
           \A p \in PagesIn(D) : Page(s, i, g, p) = Page(s, i, f, p)
    PROVE  /\ LevelOK(r, g, h, l, i, D)
           /\ \A v : PointsAt(v, s, i, f) => PointsAt(v, r, i, g)
           /\ Image(r, i, g, r[i].root) = Picture(D) /\ Image(s, i, f, s[i].root) = Picture(D)
  <1>1. /\ WellMade(D) /\ D.r = s[i].root /\ Shows(D, s, i, f)
        /\ ListsOK(s, i, s[i], h, l, PagesIn(D))
    BY DEF LevelOK
  <1>2. i \in 1..i /\ r[i] = s[i] /\ \A j \in 1..(i - 1) : r[j] = s[j]
    OBVIOUS
  <1>3. /\ \A p : Where(r, i, p) = Where(s, i, p)
        /\ \A e, p : Page(r, i, e, p) = Page(s, i, e, p)
    <2>1. \A j \in 1..i : r[j].dirty = s[j].dirty /\ r[j].spill = s[j].spill
      OBVIOUS
    <2> QED
      BY <2>1, WhereSame
  <1>4. \A p \in PagesIn(D) : Page(r, i, g, p) = Page(s, i, f, p)
    BY <1>3
  <1>5. /\ D.r \in PagesIn(D) /\ \A n \in Nodes : D.k[n] # NoPage => D.k[n] \in PagesIn(D)
        /\ D.o # NoPage => D.o \in PagesIn(D)
    BY <1>1, TreeFacts
  <1>6. Shows(D, r, i, g)
    BY <1>1, <1>4, <1>5 DEF Shows
  <1>7. ListsOK(r, i, r[i], h, l, PagesIn(D))
    <2>1. ListsOK(r, i, s[i], h, l, PagesIn(D))
      BY <1>1, <1>2, ListsAgree
    <2> QED
      BY <2>1, <1>2
  <1>8. LevelOK(r, g, h, l, i, D)
    BY <1>1, <1>2, <1>6, <1>7 DEF LevelOK
  <1>9. ASSUME NEW v, PointsAt(v, s, i, f)
        PROVE  PointsAt(v, r, i, g)
    <2>1. Kids(r, i, g) = D.k /\ Kids(s, i, f) = D.k
      BY <1>1, <1>2, <1>6 DEF Kids, Shows
    <2> QED
      BY <1>2, <1>3, <1>9, <2>1 DEF PointsAt
  <1>10. Image(r, i, g, r[i].root) = Picture(D) /\ Image(s, i, f, s[i].root) = Picture(D)
    BY <1>1, <1>2, <1>6, ImageIs
  <1> QED
    BY <1>8, <1>9, <1>10

(* The stored tree.                                                        *)
FirstVal == CHOOSE v \in Vals : TRUE
HomeD == [r |-> HomeRoot, k |-> [n \in Nodes |-> IF n \in DOMAIN Home THEN Home[n] ELSE NoPage],
          c |-> [n \in Nodes |-> FirstVal], o |-> HomeBig, b |-> FirstVal]
AsStored(f) == \A p \in HomeTree : f[p] = Stored(FirstVal)[p]

(* The stored tree is a tree.                                              *)
LEMMA HomeMade ==
    /\ WellMade(HomeD) /\ PagesIn(HomeD) = HomeTree /\ HomeD.r = HomeRoot /\ FirstVal \in Vals
    /\ \A s, i, f : (\A p \in HomeTree : Page(s, i, f, p) = f[p]) /\ AsStored(f)
                      => Shows(HomeD, s, i, f)
  <1>1. /\ Nodes \subseteq Nat \ {NoNode} /\ Vals # {} /\ NoVal \notin Vals
        /\ Home \in [DOMAIN Home -> Pgs] /\ DOMAIN Home \subseteq Nodes
        /\ BigNode \in DOMAIN Home /\ HomeRoot \in Pgs /\ HomeBig \in {NoPage} \cup Pgs
        /\ HomeBig # HomeRoot /\ {HomeRoot, HomeBig} \cap Range(Home) = {}
        /\ \A m, n \in DOMAIN Home : Home[m] = Home[n] => m = n
    BY StoreAssumption
  <1>2. FirstVal \in Vals
    BY <1>1 DEF FirstVal
  <1>3. PICK k, c : /\ k = [n \in Nodes |-> IF n \in DOMAIN Home THEN Home[n] ELSE NoPage]
                    /\ c = [n \in Nodes |-> FirstVal]
    OBVIOUS
  <1>4. /\ HomeD.r = HomeRoot /\ HomeD.k = k /\ HomeD.c = c /\ HomeD.o = HomeBig /\ HomeD.b = FirstVal
        /\ HomeD = [r |-> HomeRoot, k |-> k, c |-> c, o |-> HomeBig, b |-> FirstVal]
    BY <1>3 DEF HomeD
  <1>5. NoPage \notin Pgs
    BY PgsFinite
  <1>6. \A n \in DOMAIN Home : Home[n] \in Pgs /\ Home[n] \in Range(Home)
    BY <1>1 DEF Range
  <1>7. /\ k \in [Nodes -> Opt] /\ c \in [Nodes -> Vals \cup {NoVal}]
        /\ \A n \in Nodes : /\ c[n] = FirstVal
                            /\ k[n] # NoPage <=> n \in DOMAIN Home
                            /\ n \in DOMAIN Home => k[n] = Home[n]
    BY <1>1, <1>2, <1>3, <1>5, <1>6 DEF Opt
  <1>8. WellMade(HomeD)
    <2>1. HomeD \in Trees
      BY <1>1, <1>2, <1>4, <1>7 DEF Trees, Opt
    <2>2. /\ BigNode \in Nodes /\ k[BigNode] # NoPage /\ HomeBig # HomeRoot
      BY <1>1, <1>7
    <2>3. \A m, n \in Nodes : k[m] = k[n] => m = n \/ k[m] = NoPage
      BY <1>1, <1>7
    <2>4. \A n \in Nodes : k[n] # HomeRoot /\ (k[n] # NoPage => k[n] # HomeBig /\ c[n] \in Vals)
      BY <1>1, <1>2, <1>5, <1>6, <1>7
    <2> QED
      BY <2>1, <2>2, <2>3, <2>4, <1>4 DEF WellMade
  <1>9. PagesIn(HomeD) = HomeTree
    <2>1. \A p : p \in {k[n] : n \in Nodes} \ {NoPage} <=> p \in Range(Home)
      <3>1. ASSUME NEW n \in Nodes, k[n] # NoPage
            PROVE  k[n] \in Range(Home)
        BY <3>1, <1>6, <1>7
      <3>2. ASSUME NEW p \in Range(Home)
            PROVE  p \in {k[n] : n \in Nodes} \ {NoPage}
        <4>1. PICK n \in DOMAIN Home : p = Home[n]
          BY <3>2 DEF Range
        <4> QED
          BY <4>1, <1>1, <1>5, <1>6, <1>7
      <3> QED
        BY <3>1, <3>2
    <2> QED
      BY <2>1, <1>4, <1>5, <1>6 DEF PagesIn, HomeTree
  <1>10. ASSUME NEW s, NEW i, NEW f, \A p \in HomeTree : Page(s, i, f, p) = f[p], AsStored(f)
         PROVE  Shows(HomeD, s, i, f)
    <2>1. PICK g : g = Stored(FirstVal)
      OBVIOUS
    <2>2. \A p \in HomeTree : Page(s, i, f, p) = g[p]
      BY <1>10, <2>1 DEF AsStored
    <2>3. /\ HomeRoot \in HomeTree /\ \A n \in DOMAIN Home : Home[n] \in HomeTree
          /\ HomeBig # NoPage => HomeBig \in HomeTree
      BY <1>1, <1>5, <1>6 DEF HomeTree
    <2>4. g[HomeRoot].kids = k
      BY <1>1, <1>3, <2>1 DEF Stored, Branch
    <2>5. ASSUME NEW n \in DOMAIN Home
          PROVE  g[Home[n]].val = FirstVal /\ g[Home[n]].ov = IF n = BigNode THEN HomeBig ELSE NoPage
      <3>1. Home[n] # HomeRoot /\ Home[n] \in Pgs /\ (Home[n] = Home[BigNode] <=> n = BigNode)
        BY <1>1, <1>6
      <3> QED
        BY <3>1, <1>6, <2>1 DEF Stored, Leaf
    <2>6. ASSUME HomeBig # NoPage
          PROVE  g[HomeBig].val = FirstVal
      <3>1. HomeBig \in Pgs /\ HomeBig # HomeRoot /\ HomeBig # Home[BigNode]
        BY <2>6, <1>1, <1>6
      <3> QED
        BY <3>1, <2>1 DEF Stored, Leaf
    <2> QED
      BY <1>4, <1>7, <2>2, <2>3, <2>4, <2>5, <2>6 DEF Shows
  <1> QED
    BY <1>2, <1>4, <1>8, <1>9, <1>10

LEMMA StoredImage ==
    ASSUME NEW f, AsStored(f), NEW s
    PROVE  Image(s, 0, f, HomeRoot) = Picture(HomeD)
  <1>1. \A p \in HomeTree : Page(s, 0, f, p) = f[p]
    BY PageNone
  <1>2. Shows(HomeD, s, 0, f)
    BY <1>1, HomeMade
  <1> QED
    BY <1>2, HomeMade, ImageIs

(* How a call that starts with the tree D ends: it has failed, or it has   *)
(* changed what one sees of two nodes at most.                             *)
Near(D, E) ==
  \E a, b \in Nodes : \A n \in Nodes \ {a, b} : Picture(E)[n] = Picture(D)[n]
Likewise(x, y) ==
  y.t = x.t /\ y.head = x.head /\ y.last = x.last /\ y.file = x.file /\ y.cur = x.cur
Ends(x, D) ==
  /\ Typed(x) /\ Safe(x.file)
  /\ Failing(x) \/ \E E \in Trees : \E y : Fine(y, E) /\ Likewise(x, y) /\ Near(D, E)

(* A call that ends so keeps the invariant.                                *)
LEMMA Applied ==
    ASSUME IInv, Top > 0, ~txns[Top].error, NEW D, Level(Top, D), NEW x, Ends(x, D),
           Apply(x), ending' = ending
    PROVE  IInv'
  <1>1. PICK s, f : s = Chain(x) /\ f = x.file
    OBVIOUS
  <1>2. /\ txns' = s /\ file' = f /\ meta' = meta /\ sees' = Images(s, f, meta)
        /\ pghead' = x.head /\ pglast' = x.last /\ cur' = x.cur
    BY <1>1 DEF Apply, Becomes
  <1>3. /\ Types /\ LevelsOK /\ StoredOK /\ CursorsOK /\ Started
    BY StartedHolds DEF IInv
  <1>4. /\ Typed(x) /\ Safe(f) /\ x \in WorkT /\ x.t \in Txn
        /\ x.t.head0 = txns[Top].head0 /\ x.t.last0 = txns[Top].last0
    BY <1>1 DEF Ends, Typed, WorkT
  <1>5. /\ s \in Seq(Txn) /\ Len(s) = Top /\ s[Top] = x.t /\ Top \in Nat \ {0} /\ Top - 1 \in Nat
        /\ \A j \in 1..(Top - 1) : s[j] = txns[j]
    BY <1>1, <1>3, <1>4, ChainFacts, Shapes DEF Types
  <1>6. Top' = Top
    BY <1>2, <1>5 DEF Top
  <1>7. \A i \in 1..(Top - 1) : HeadOf(i)' = HeadOf(i) /\ LastOf(i)' = LastOf(i)
    <2> SUFFICES ASSUME NEW i \in 1..(Top - 1)
                 PROVE  HeadOf(i)' = HeadOf(i) /\ LastOf(i)' = LastOf(i)
      OBVIOUS
    <2>1. HeadOf(i)' = s[i + 1].head0 /\ LastOf(i)' = s[i + 1].last0
      BY <1>2, <1>5, <1>6 DEF HeadOf, LastOf
    <2>2. HeadOf(i) = txns[i + 1].head0 /\ LastOf(i) = txns[i + 1].last0
      BY <1>5 DEF HeadOf, LastOf
    <2>3. i + 1 = Top \/ i + 1 \in 1..(Top - 1)
      BY <1>5
    <2> QED
      BY <2>1, <2>2, <2>3, <1>4, <1>5
  <1>8. HeadOf(Top)' = x.head /\ LastOf(Top)' = x.last
    BY <1>2, <1>6 DEF HeadOf, LastOf
  <1>9. Types'
    <2>1. Stacked'
      <3>1. \A i \in 1..(Top - 1) : ~s[i].error
        BY <1>3, <1>5 DEF Types, Stacked
      <3>2. s[1].head0 = {} /\ s[1].last0 = 0
        <4>1. 1 = Top \/ 1 \in 1..(Top - 1)
          BY <1>5
        <4>2. txns[1].head0 = {} /\ txns[1].last0 = 0
          BY <1>3, <1>5 DEF Types, Stacked
        <4> QED
          BY <4>1, <4>2, <1>4, <1>5
      <3>3. Top <= MaxLevel
        BY <1>3 DEF Types, Stacked
      <3> QED
        BY <3>1, <3>2, <3>3, <1>2, <1>5, <1>6 DEF Stacked
    <2>2. /\ pghead' \in SUBSET Pgs /\ pglast' \in Lasts /\ file' \in Files /\ cur' \in [Cursors -> Cursor]
      BY <1>1, <1>2, <1>4 DEF WorkT
    <2>3. meta' \in Pgs /\ (ending' = <<>> \/ ending' \in {"commit", "abort"} \X (1..Top'))
      <3>1. meta \in Pgs /\ (ending = <<>> \/ ending \in {"commit", "abort"} \X (1..Top))
        BY <1>3 DEF Types
      <3> QED
        BY <3>1, <1>2, <1>6
    <2> QED
      BY <2>1, <2>2, <2>3 DEF Types
  <1>10. ASSUME NEW i \in 1..(Top - 1)
         PROVE  /\ \E B \in Trees : LevelOK(s, f, HeadOf(i)', LastOf(i)', i, B)
                /\ \A v : PointsAt(v, txns, i, file) => PointsAt(v, s, i, f)
    <2>1. PICK B \in Trees : Level(i, B)
      BY <1>3, LowerLevels
    <2>2. LevelOK(txns, file, HeadOf(i), LastOf(i), i, B)
      BY <2>1 DEF Level
    <2>3. \A p \in PagesIn(B) : Page(txns, i, f, p) = Page(txns, i, file, p)
      BY <1>4, <2>1 DEF Safe
    <2>4. i \in Nat \ {0} /\ \A j \in 1..i : s[j] = txns[j]
      BY <1>5
    <2>5. /\ LevelOK(s, f, HeadOf(i), LastOf(i), i, B)
          /\ \A v : PointsAt(v, txns, i, file) => PointsAt(v, s, i, f)
      BY <2>2, <2>3, <2>4, Carried, ZenonT(60)
    <2> QED
      BY <2>5, <1>7
  <1>11. ASSUME ~x.t.error
         PROVE  /\ \E E \in Trees : LevelOK(s, f, x.head, x.last, Top, E)
                /\ \A c \in Cursors : PointsAt(x.cur[c], s, Top, f)
    <2>1. PICK E \in Trees : \E y : Fine(y, E) /\ Likewise(x, y)
      BY <1>11 DEF Ends, Failing
    <2>1a. PICK y : Fine(y, E) /\ Likewise(x, y)
      BY <2>1
    <2>2. /\ y \in WorkT /\ y.t \in Txn /\ Good(y, PagesIn(E)) /\ WellMade(E) /\ E.r = y.t.root
          /\ Shown(y, E) /\ \A c \in Cursors : PointsIn(y.cur[c], y, E)
      BY <2>1a, <1>3, FineFacts
    <2>3. Chain(y) = s /\ y.file = f /\ y.t = x.t /\ y.head = x.head /\ y.last = x.last /\ y.cur = x.cur
      BY <2>1a, <1>1 DEF Likewise, Chain
    <2>4. Shows(E, s, Top, f)
      BY <2>2, <2>3 DEF Shown
    <2>5. ListsOK(s, Top, s[Top], x.head, x.last, PagesIn(E))
      <3>1. ListsOK(txns, Top, x.t, x.head, x.last, PagesIn(E))
        BY <2>2, <2>3 DEF Good, Lists
      <3>2. \A j \in 1..(Top - 1) : txns[j] = s[j]
        BY <1>5
      <3>3. txns[Top].head0 = s[Top].head0 /\ txns[Top].last0 = s[Top].last0
        BY <1>4, <1>5
      <3>4. ListsOK(s, Top, x.t, x.head, x.last, PagesIn(E))
        <4>1. PICK n : n = Top
          OBVIOUS
        <4>2. /\ n \in Nat \ {0} /\ \A j \in 1..(n - 1) : txns[j] = s[j]
              /\ txns[n].head0 = s[n].head0 /\ txns[n].last0 = s[n].last0
              /\ ListsOK(txns, n, x.t, x.head, x.last, PagesIn(E))
          BY <1>5, <3>1, <3>2, <3>3, <4>1
        <4>3. ListsOK(s, n, x.t, x.head, x.last, PagesIn(E))
          BY <4>2, ListsAgree
        <4> QED
          BY <4>1, <4>3
      <3> QED
        BY <3>4, <1>5
    <2>6. LevelOK(s, f, x.head, x.last, Top, E)
      BY <2>2, <2>3, <2>4, <2>5, <1>5 DEF LevelOK
    <2>7. ASSUME NEW c \in Cursors
          PROVE  PointsAt(x.cur[c], s, Top, f)
      <3>1. PointsIn(x.cur[c], y, E)
        BY <2>2, <2>3
      <3>2. Kids(s, Top, f) = E.k
        BY <2>2, <2>3, <2>4, <1>5 DEF Kids, Shows
      <3>3. \A p : At(y, p) = <<Where(s, Top, p), p>>
        BY <2>3 DEF At, WhereIs
      <3> QED
        BY <3>1, <3>2, <3>3, <2>2, <2>3, <1>5 DEF PointsIn, PointsAt
    <2> QED
      BY <2>6, <2>7
  <1>12. LevelsOK'
    <2>1. ASSUME NEW i \in 1..Top, ~s[i].error
          PROVE  \E B \in Trees : LevelOK(s, f, HeadOf(i)', LastOf(i)', i, B)
      <3>1. CASE i = Top
        <4>1. \E B \in Trees : LevelOK(s, f, x.head, x.last, Top, B)
          BY <2>1, <3>1, <1>5, <1>11
        <4>2. HeadOf(i)' = x.head /\ LastOf(i)' = x.last
          BY <3>1, <1>8, <1>6
        <4> QED
          BY <4>1, <4>2, <3>1
      <3>2. CASE i \in 1..(Top - 1)
        BY <3>2, <1>10
      <3> QED
        BY <2>1, <3>1, <3>2, <1>5
    <2> QED
      BY <2>1, <1>2, <1>6 DEF LevelsOK
  <1>13. StoredOK'
    <2>1. /\ meta = HomeRoot
          /\ \E g \in {Stored(CHOOSE v \in Vals : TRUE)} : \A p \in HomeTree : file[p] = g[p]
      BY <1>3 DEF StoredOK
    <2>2. \A p \in HomeTree : f[p] = file[p]
      BY <1>4 DEF Safe
    <2> QED
      BY <2>1, <2>2, <1>2 DEF StoredOK
  <1>14. CursorsOK'
    <2> SUFFICES ASSUME NEW c \in Cursors
                 PROVE  CursorOK(c)'
      BY DEF CursorsOK
    <2>1. PICK r, q : r = cur[c] /\ q = x.cur[c]
      OBVIOUS
    <2>2. /\ r \in Cursor /\ q \in Cursor /\ CurFrame(q, r)
      BY <1>3, <1>4, <2>1, CursorType
    <2>3. /\ r.own = 0 => r = Closed
          /\ r.own > 0 => r.own = Top /\ Len(r.backup) < Top
          /\ \A k \in DOMAIN r.backup :
               /\ r.backup[k].root \in Spots(LevelOf(r, k)) /\ r.backup[k].leaf \in Spots(LevelOf(r, k))
               /\ PointsAt(r.backup[k], txns, LevelOf(r, k), file)
      BY <1>3, <2>1 DEF CursorsOK, CursorOK
    <2>4. /\ q.own = r.own /\ q.backup = r.backup /\ q.root \in Spots(Top) /\ q.leaf \in Spots(Top)
          /\ q.own = 0 => q = Closed
      BY <2>2 DEF CurFrame
    <2>5. \A k : LevelOf(q, k)' = LevelOf(r, k)
      BY <2>4, <1>6 DEF LevelOf
    <2>6. ASSUME NEW k \in DOMAIN q.backup
          PROVE  /\ q.backup[k].root \in Spots(LevelOf(q, k)') /\ q.backup[k].leaf \in Spots(LevelOf(q, k)')
                 /\ PointsAt(q.backup[k], s, LevelOf(q, k)', f)
      <3>1. k \in DOMAIN r.backup
        BY <2>4, <2>6
      <3>2. LevelOf(r, k) \in 1..(Top - 1)
        <4>1. r.own > 0
          <5>1. r.own = 0 => r.backup = <<>>
            BY <2>3 DEF Closed
          <5> QED
            BY <5>1, <3>1, <2>2 DEF Cursor
        <4>2. Len(r.backup) \in Nat /\ k \in 1..Len(r.backup)
          BY <3>1, <2>2 DEF Cursor
        <4> QED
          BY <4>1, <4>2, <2>3, <1>5 DEF LevelOf
      <3> QED
        BY <3>1, <3>2, <2>3, <2>4, <2>5, <1>10
    <2>7. q.own > 0 /\ ~s[Top].error => PointsAt(q, s, Top, f)
      BY <1>5, <1>11, <2>1
    <2> QED
      BY <2>1, <2>3, <2>4, <2>6, <2>7, <1>2, <1>6 DEF CursorOK
  <1>15. Seeing'
    BY <1>2 DEF Seeing
  <1> QED
    BY <1>9, <1>12, <1>13, <1>14, <1>15 DEF IInv

-----------------------------------------------------------------------------
(* How the calls end. *)

(* Only of a and b may one see something else.                             *)
Revised(D, E, a, b) ==
  \A n \in Nodes \ {a, b} :
    /\ E.k[n] = NoPage <=> D.k[n] = NoPage
    /\ E.c[n] = D.c[n] /\ (n = BigNode => E.o = D.o /\ E.b = D.b)

(* A tree that differs in two nodes at most.                               *)
LEMMA RevisedNear ==
    ASSUME NEW D, NEW E, NEW a \in Nodes, NEW b \in Nodes, Revised(D, E, a, b)
    PROVE  Near(D, E)
  <1>1. ASSUME NEW n \in Nodes \ {a, b}
        PROVE  Picture(E)[n] = Picture(D)[n]
    <2>1. /\ E.k[n] = NoPage <=> D.k[n] = NoPage
          /\ E.c[n] = D.c[n] /\ (n = BigNode => E.o = D.o /\ E.b = D.b)
      BY DEF Revised
    <2> QED
      BY <2>1 DEF Picture
  <1> QED
    BY <1>1 DEF Near

LEMMA RevisedMore ==
    ASSUME NEW D, NEW E, NEW F, NEW a, NEW b, Alike(D, E), Revised(E, F, a, b)
    PROVE  Revised(D, F, a, b)
  <1>1. ASSUME NEW n \in Nodes \ {a, b}
        PROVE  /\ F.k[n] = NoPage <=> D.k[n] = NoPage
               /\ F.c[n] = D.c[n] /\ (n = BigNode => F.o = D.o /\ F.b = D.b)
    <2>1. /\ F.k[n] = NoPage <=> E.k[n] = NoPage
          /\ F.c[n] = E.c[n] /\ (n = BigNode => F.o = E.o /\ F.b = E.b)
      BY DEF Revised
    <2>2. E.c = D.c /\ E.o = D.o /\ E.b = D.b /\ (E.k[n] = NoPage <=> D.k[n] = NoPage)
      BY DEF Alike
    <2> QED
      BY <2>1, <2>2
  <1> QED
    BY <1>1 DEF Revised

LEMMA AlikeTrans ==
    ASSUME NEW D, NEW E, NEW F, Alike(D, E), Alike(E, F)
    PROVE  Alike(D, F)
  BY DEF Alike

(* A call that has gone through, and one that has not.                     *)
LEMMA EndsWell ==
    ASSUME Started, NEW x, Safe(x.file), NEW D, NEW E, Fine(x, E),
           NEW a \in Nodes, NEW b \in Nodes, Revised(D, E, a, b)
    PROVE  Ends(x, D)
  <1>1. Typed(x) /\ E \in Trees
    BY FineFacts DEF WellMade
  <1>2. Near(D, E) /\ Likewise(x, x)
    BY RevisedNear DEF Likewise
  <1> QED
    BY <1>1, <1>2 DEF Ends

LEMMA EndsBadly ==
    ASSUME NEW x, Safe(x.file), NEW D, Failing(x)
    PROVE  Ends(x, D)
  BY DEF Ends, Failing

(* What a call finds.                                                      *)
Begun(D) ==
  /\ Types /\ LevelsOK /\ CursorsOK /\ Started /\ Top > 0 /\ ~txns[Top].error
  /\ Level(Top, D) /\ WellMade(D)

(* Each call, from its guard to its end.                                   *)
LEMMA CallStart ==
    ASSUME IInv, CanWork
    PROVE  \E D : Begun(D) /\ \A n \in Nodes : n \in Tree <=> D.k[n] # NoPage
  <1>1. Top > 0 /\ ~txns[Top].error
    BY DEF CanWork, Blocked
  <1>2. Types /\ LevelsOK /\ CursorsOK /\ Started
    BY <1>1, StartedHolds DEF IInv
  <1>3. PICK D \in Trees : Level(Top, D)
    BY <1>1, <1>2, WorkFine
  <1>4. WellMade(D) /\ D.r = txns[Top].root /\ Shows(D, txns, Top, file)
    BY <1>3 DEF Level, LevelOK
  <1>5. Kids(txns, Top, file) = D.k
    BY <1>4 DEF Kids, Shows
  <1>6. \A n \in Nodes : n \in Tree <=> D.k[n] # NoPage
    BY <1>1, <1>5 DEF Tree
  <1> QED
    BY <1>1, <1>2, <1>3, <1>4, <1>6 DEF Begun

LEMMA PathEnds ==
    ASSUME NEW D, Begun(D), NEW n \in Nodes, D.k[n] # NoPage,
           NEW x, x = Path(Spill(n), n)
    PROVE  /\ Typed(x) /\ Safe(x.file)
           /\ Ok(x) => \E E : Fine(x, E) /\ Alike(D, E) /\ Dirty(x, E.r) /\ Dirty(x, E.k[n])
           /\ ~Ok(x) => Failing(x)
  <1>1. PICK w : w = Spill(n)
    OBVIOUS
  <1>2. Fine(w, D) /\ Safe(w.file) /\ Started
    BY <1>1, SpillFine DEF Begun
  <1>3. x = Path(w, n)
    BY <1>1
  <1>4. /\ x.file = w.file /\ Typed(x)
        /\ Ok(x) => \E E : Fine(x, E) /\ Alike(D, E) /\ Dirty(x, E.r) /\ Dirty(x, E.k[n])
        /\ ~Ok(x) => Failing(x)
    BY <1>2, <1>3, FinePath
  <1> QED
    BY <1>2, <1>4

(* mdb_put                                                                 *)
LEMMA PutEnds ==
    ASSUME NEW D, Begun(D), NEW n \in Nodes, D.k[n] # NoPage, NEW v \in Vals,
           NEW x, x = SetLeaf(Path(Spill(n), n), n, v)
    PROVE  Ends(x, D)
  <1>1. PICK w : w = Path(Spill(n), n)
    OBVIOUS
  <1>2. /\ Typed(w) /\ Safe(w.file)
        /\ Ok(w) => \E E : Fine(w, E) /\ Alike(D, E) /\ Dirty(w, E.r) /\ Dirty(w, E.k[n])
        /\ ~Ok(w) => Failing(w)
    BY <1>1, PathEnds
  <1>3. x = SetLeaf(w, n, v) /\ Started
    BY <1>1 DEF Begun
  <1>4. CASE ~Ok(w)
    <2>1. x = w
      BY <1>3, <1>4 DEF SetLeaf
    <2> QED
      BY <2>1, <1>2, <1>4, EndsBadly
  <1>5. CASE Ok(w)
    <2>1. PICK E : Fine(w, E) /\ Alike(D, E) /\ Dirty(w, E.k[n])
      BY <1>2, <1>5
    <2>2. E.k[n] # NoPage /\ WellMade(E)
      BY <2>1, <1>3, FineFacts DEF Alike
    <2>3. PICK F : F = WithVal(E, n, v)
      OBVIOUS
    <2>4. x.file = w.file /\ Fine(x, F)
      BY <1>3, <2>1, <2>2, <2>3, FineLeafSet
    <2>5. /\ F.k = E.k /\ F.o = E.o /\ F.b = E.b
          /\ \A m \in Nodes : m # n => F.c[m] = E.c[m]
      BY <2>2, <2>3, TreeVal
    <2>6. Revised(E, F, n, n)
      BY <2>5 DEF Revised
    <2>7. Revised(D, F, n, n)
      BY <2>1, <2>6, RevisedMore
    <2>8. Safe(x.file)
      BY <1>2, <2>4
    <2> QED
      BY <1>3, <2>4, <2>7, <2>8, EndsWell
  <1> QED
    BY <1>4, <1>5

(* mdb_put with mdb_page_split                                             *)
LEMMA SplitEnds ==
    ASSUME NEW D, Begun(D), NEW n \in Nodes, D.k[n] # NoPage, NEW m \in Nodes, D.k[m] = NoPage,
           NEW v \in Vals, NEW x, x = AddLeaf(Path(Spill(n), n), m, v)
    PROVE  Ends(x, D)
  <1>1. PICK w : w = Path(Spill(n), n)
    OBVIOUS
  <1>2. /\ Typed(w) /\ Safe(w.file)
        /\ Ok(w) => \E E : Fine(w, E) /\ Alike(D, E) /\ Dirty(w, E.r) /\ Dirty(w, E.k[n])
        /\ ~Ok(w) => Failing(w)
    BY <1>1, PathEnds
  <1>3. x = AddLeaf(w, m, v) /\ Started
    BY <1>1 DEF Begun
  <1>4. CASE ~Ok(w)
    <2>1. x = w
      BY <1>3, <1>4 DEF AddLeaf
    <2> QED
      BY <2>1, <1>2, <1>4, EndsBadly
  <1>5. CASE Ok(w)
    <2>1. PICK E : Fine(w, E) /\ Alike(D, E) /\ Dirty(w, E.r)
      BY <1>2, <1>5
    <2>2. E.k[m] = NoPage /\ WellMade(E)
      BY <2>1, <1>3, FineFacts DEF Alike
    <2>3. /\ x.file = w.file
          /\ Ok(x) => \E q \in Pgs : q \notin PagesIn(E) /\ Fine(x, WithLeaf(E, m, q, v))
          /\ ~Ok(x) => Failing(x)
      BY <1>3, <2>1, <2>2, FineAddLeaf
    <2>4. Safe(x.file)
      BY <1>2, <2>3
    <2>5. CASE ~Ok(x)
      BY <2>3, <2>4, <2>5, EndsBadly
    <2>6. CASE Ok(x)
      <3>1. PICK q \in Pgs : q \notin PagesIn(E) /\ Fine(x, WithLeaf(E, m, q, v))
        BY <2>3, <2>6
      <3>2. PICK F : F = WithLeaf(E, m, q, v)
        OBVIOUS
      <3>3. E.k \in [Nodes -> Opt] /\ E.c \in [Nodes -> Vals \cup {NoVal}]
            /\ E = [r |-> E.r, k |-> E.k, c |-> E.c, o |-> E.o, b |-> E.b]
        BY <2>2 DEF WellMade, Trees
      <3>4. /\ F.k = [E.k EXCEPT ![m] = q] /\ F.c = [E.c EXCEPT ![m] = v]
            /\ F.o = E.o /\ F.b = E.b
        BY <2>2, <3>2 DEF WithLeaf, WellMade, Trees
      <3>5. m # BigNode
        BY <2>2 DEF WellMade
      <3>6. Revised(E, F, m, m)
        BY <3>3, <3>4 DEF Revised
      <3>7. Revised(D, F, m, m)
        BY <2>1, <3>6, RevisedMore
      <3> QED
        BY <1>3, <2>4, <3>1, <3>2, <3>7, EndsWell
    <2> QED
      BY <2>5, <2>6
  <1> QED
    BY <1>4, <1>5

LEMMA BigRevised ==
    ASSUME NEW E, WellMade(E), NEW q, NEW v, NEW F, F = WithBig(E, q, v)
    PROVE  Revised(E, F, BigNode, BigNode)
  <1>1. F.k = E.k /\ F.c = E.c
    BY DEF WithBig, WellMade, Trees
  <1> QED
    BY <1>1 DEF Revised

(* mdb_del of the overflow value                                           *)
LEMMA DropBigEnds ==
    ASSUME NEW D, Begun(D), D.o # NoPage,
           NEW x, x = DropBig(Path(Spill(BigNode), BigNode))
    PROVE  Ends(x, D)
  <1>1. PICK w : w = Path(Spill(BigNode), BigNode)
    OBVIOUS
  <1>2. BigNode \in Nodes /\ D.k[BigNode] # NoPage
    BY DEF Begun, WellMade
  <1>3. /\ Typed(w) /\ Safe(w.file)
        /\ Ok(w) => \E E : Fine(w, E) /\ Alike(D, E) /\ Dirty(w, E.r) /\ Dirty(w, E.k[BigNode])
        /\ ~Ok(w) => Failing(w)
    BY <1>1, <1>2, PathEnds
  <1>4. x = DropBig(w) /\ Started
    BY <1>1 DEF Begun
  <1>5. CASE ~Ok(w)
    <2>1. x = w
      BY <1>4, <1>5 DEF DropBig
    <2> QED
      BY <2>1, <1>3, <1>5, EndsBadly
  <1>6. CASE Ok(w)
    <2>1. PICK E : Fine(w, E) /\ Alike(D, E) /\ Dirty(w, E.k[BigNode])
      BY <1>3, <1>6
    <2>2. E.o # NoPage /\ WellMade(E)
      BY <2>1, <1>4, FineFacts DEF Alike
    <2>3. PICK F : F = WithBig(E, NoPage, NoVal)
      OBVIOUS
    <2>4. x.file = w.file /\ Fine(x, F)
      BY <1>4, <2>1, <2>2, <2>3, FineDropBig
    <2>5. Revised(E, F, BigNode, BigNode)
      BY <2>2, <2>3, BigRevised
    <2>6. Revised(D, F, BigNode, BigNode)
      BY <2>1, <2>5, RevisedMore
    <2>7. Safe(x.file)
      BY <1>3, <2>4
    <2> QED
      BY <1>2, <1>4, <2>4, <2>6, <2>7, EndsWell
  <1> QED
    BY <1>5, <1>6

(* mdb_put of the overflow value                                           *)
LEMMA WriteBigEnds ==
    ASSUME NEW D, Begun(D), NEW v \in Vals,
           NEW x, x = WriteBig(Path(Spill(BigNode), BigNode), BigNode, v)
    PROVE  Ends(x, D)
  <1>1. PICK w : w = Path(Spill(BigNode), BigNode)
    OBVIOUS
  <1>2. BigNode \in Nodes /\ D.k[BigNode] # NoPage
    BY DEF Begun, WellMade
  <1>3. /\ Typed(w) /\ Safe(w.file)
        /\ Ok(w) => \E E : Fine(w, E) /\ Alike(D, E) /\ Dirty(w, E.r) /\ Dirty(w, E.k[BigNode])
        /\ ~Ok(w) => Failing(w)
    BY <1>1, <1>2, PathEnds
  <1>4. x = WriteBig(w, BigNode, v) /\ Started
    BY <1>1 DEF Begun
  <1>5. CASE ~Ok(w)
    <2>1. x = w
      BY <1>4, <1>5 DEF WriteBig
    <2> QED
      BY <2>1, <1>3, <1>5, EndsBadly
  <1>6. CASE Ok(w)
    <2>1. PICK E : Fine(w, E) /\ Alike(D, E) /\ Dirty(w, E.k[BigNode])
      BY <1>3, <1>6
    <2>2. WellMade(E) /\ Typed(w) /\ w \in WorkT
      BY <2>1, <1>4, FineFacts
    <2>3. /\ x.file = w.file
          /\ Ok(x) => \E q \in Opt : q # NoPage /\ Fine(x, WithBig(E, q, v))
          /\ ~Ok(x) => Failing(x) \/ x = [w EXCEPT !.rc = "failed"]
      BY <1>4, <2>1, FineWriteBig
    <2>4. Safe(x.file)
      BY <1>3, <2>3
    <2>5. CASE Ok(x)
      <3>1. PICK q \in Opt : Fine(x, WithBig(E, q, v))
        BY <2>3, <2>5
      <3>2. PICK F : F = WithBig(E, q, v)
        OBVIOUS
      <3>3. Revised(E, F, BigNode, BigNode)
        BY <2>2, <3>2, BigRevised
      <3>4. Revised(D, F, BigNode, BigNode)
        BY <2>1, <3>3, RevisedMore
      <3> QED
        BY <1>2, <1>4, <2>4, <3>1, <3>2, <3>4, EndsWell
    <2>6. CASE Failing(x)
      BY <2>4, <2>6, EndsBadly
    <2>7. CASE x = [w EXCEPT !.rc = "failed"]
      <3>1. /\ x.t = w.t /\ x.head = w.head /\ x.last = w.last /\ x.file = w.file /\ x.cur = w.cur
            /\ x \in WorkT
        BY <2>2, <2>7 DEF WorkT
      <3>2. Typed(x) /\ Likewise(x, w)
        BY <2>2, <3>1 DEF Typed, Likewise
      <3>3. Revised(D, E, BigNode, BigNode)
        BY <2>1 DEF Alike, Revised
      <3>4. Near(D, E)
        BY <1>2, <3>3, RevisedNear
      <3>5. E \in Trees
        BY <2>2 DEF WellMade
      <3> QED
        BY <2>1, <2>4, <3>2, <3>4, <3>5 DEF Ends
    <2> QED
      BY <2>3, <2>5, <2>6, <2>7
  <1> QED
    BY <1>5, <1>6

(* mdb_del with mdb_page_merge                                             *)
LEMMA MergeEnds ==
    ASSUME NEW D, Begun(D), NEW dead \in Nodes, NEW kept \in Nodes, NEW n \in {dead, kept},
           dead # kept, dead # BigNode, D.k[dead] # NoPage, D.k[kept] # NoPage, NEW v \in Vals,
           NEW x, x = Merged(TouchLeaf(Path(Spill(n), n), kept), dead, kept, v)
    PROVE  Ends(x, D)
  <1>1. PICK w, y : w = Path(Spill(n), n) /\ y = TouchLeaf(w, kept)
    OBVIOUS
  <1>2. /\ Typed(w) /\ Safe(w.file)
        /\ Ok(w) => \E E : Fine(w, E) /\ Alike(D, E) /\ Dirty(w, E.r) /\ Dirty(w, E.k[n])
        /\ ~Ok(w) => Failing(w)
    BY <1>1, PathEnds
  <1>3. x = Merged(y, dead, kept, v) /\ Started
    BY <1>1 DEF Begun
  <1>4. CASE ~Ok(w)
    <2>1. x = w
      BY <1>1, <1>3, <1>4 DEF Merged, TouchLeaf
    <2> QED
      BY <2>1, <1>2, <1>4, EndsBadly
  <1>5. CASE Ok(w)
    <2>1. PICK E : Fine(w, E) /\ Alike(D, E) /\ Dirty(w, E.r)
      BY <1>2, <1>5
    <2>2. E.k[kept] # NoPage
      BY <2>1 DEF Alike
    <2>3. /\ y.file = w.file /\ Typed(y)
          /\ Ok(y) => \E F : Fine(y, F) /\ Alike(E, F) /\ Dirty(y, F.r) /\ Dirty(y, F.k[kept])
          /\ ~Ok(y) => Failing(y)
      BY <1>1, <1>3, <2>1, <2>2, FineLeaf
    <2>4. Safe(y.file)
      BY <1>2, <2>3
    <2>5. CASE ~Ok(y)
      <3>1. x = y
        BY <1>3, <2>5 DEF Merged
      <3> QED
        BY <3>1, <2>3, <2>4, <2>5, EndsBadly
    <2>6. CASE Ok(y)
      <3>1. PICK F : Fine(y, F) /\ Alike(E, F) /\ Dirty(y, F.r) /\ Dirty(y, F.k[kept])
        BY <2>3, <2>6
      <3>2. Alike(D, F)
        BY <2>1, <3>1, AlikeTrans
      <3>3. F.k[kept] # NoPage /\ F.k[dead] # NoPage /\ WellMade(F)
        BY <1>3, <3>1, <3>2, FineFacts DEF Alike
      <3>4. PICK G, H : G = WithKid(F, dead, NoPage) /\ H = WithVal(G, kept, v)
        OBVIOUS
      <3>5. x.file = y.file /\ Fine(x, H)
        <4>1. x.file = y.file /\ Fine(x, WithVal(WithKid(F, dead, NoPage), kept, v))
          BY <1>3, <3>1, <3>3, FineMerged
        <4> QED
          BY <4>1, <3>4
      <3>6. /\ F.k \in [Nodes -> Opt] /\ F.c \in [Nodes -> Vals \cup {NoVal}] /\ F \in Trees
        BY <3>3 DEF WellMade, Trees
      <3>7. /\ G.k = [F.k EXCEPT ![dead] = NoPage] /\ G.c = F.c /\ G.o = F.o /\ G.b = F.b
            /\ H.k = G.k /\ H.c = [G.c EXCEPT ![kept] = v] /\ H.o = G.o /\ H.b = G.b
        BY <3>4, <3>6 DEF WithKid, WithVal, Trees
      <3>8. Revised(F, H, dead, kept)
        BY <3>6, <3>7 DEF Revised
      <3>9. Revised(D, H, dead, kept)
        BY <3>2, <3>8, RevisedMore
      <3>10. Safe(x.file)
        BY <2>4, <3>5
      <3> QED
        BY <1>3, <3>5, <3>9, <3>10, EndsWell
    <2> QED
      BY <2>5, <2>6
  <1> QED
    BY <1>4, <1>5

-----------------------------------------------------------------------------
(* The calls keep the invariant. *)

(* Every operation is one of these.                                        *)
LEMMA OperationEnds ==
    ASSUME IInv, Operation
    PROVE  \E D, x : Begun(D) /\ Ends(x, D) /\ Apply(x) /\ ending' = ending
  <1>1. CASE CanWork
    <2>1. PICK D : Begun(D) /\ \A n \in Nodes : n \in Tree <=> D.k[n] # NoPage
      BY <1>1, CallStart
    <2>2. /\ Tree \subseteq Nodes /\ ending' = ending /\ Top > 0
          /\ Level(Top, D) /\ WellMade(D)
      BY <1>1, <2>1 DEF Tree, CanWork, Begun
    <2>3. ASSUME NEW n \in Tree, NEW v \in Vals, Put(n, v)
          PROVE  \E x : Ends(x, D) /\ Apply(x)
      <3>1. PICK x : x = SetLeaf(Path(Spill(n), n), n, v)
        OBVIOUS
      <3>2. Apply(x)
        BY <2>3, <3>1 DEF Put, Do
      <3>3. n \in Nodes /\ D.k[n] # NoPage
        BY <2>1, <2>2
      <3>4. Ends(x, D)
        BY <2>1, <3>1, <3>3, PutEnds
      <3> QED
        BY <3>2, <3>4
    <2>4. ASSUME NEW v \in Vals, PutBig(v)
          PROVE  \E x : Ends(x, D) /\ Apply(x)
      <3>1. PICK x : x = WriteBig(Path(Spill(BigNode), BigNode), BigNode, v)
        OBVIOUS
      <3>2. Apply(x)
        BY <2>4, <3>1 DEF PutBig, Do
      <3>3. Ends(x, D)
        BY <2>1, <3>1, WriteBigEnds
      <3> QED
        BY <3>2, <3>3
    <2>5. ASSUME DelBig
          PROVE  \E x : Ends(x, D) /\ Apply(x)
      <3>1. PICK x : x = DropBig(Path(Spill(BigNode), BigNode))
        OBVIOUS
      <3>2. Apply(x) /\ Overflow # NoPage
        BY <2>5, <3>1 DEF DelBig, Do
      <3>3. D.o # NoPage
        <4>1. D.r = txns[Top].root /\ Shows(D, txns, Top, file)
          BY <2>2 DEF Level, LevelOK
        <4>2. Kids(txns, Top, file) = D.k
          BY <4>1 DEF Kids, Shows
        <4>3. BigNode \in Nodes /\ D.k[BigNode] # NoPage
          BY <2>2 DEF WellMade
        <4>4. Overflow = Page(txns, Top, file, D.k[BigNode]).ov
          BY <4>2 DEF Overflow
        <4>5. Page(txns, Top, file, D.k[BigNode]).ov = D.o
          BY <4>1, <4>3 DEF Shows
        <4> QED
          BY <3>2, <4>4, <4>5
      <3>4. Ends(x, D)
        BY <2>1, <3>1, <3>3, DropBigEnds
      <3> QED
        BY <3>2, <3>4
    <2>6. ASSUME NEW n \in Tree, NEW m \in Nodes \ Tree, NEW v \in Vals, Split(n, m, v)
          PROVE  \E x : Ends(x, D) /\ Apply(x)
      <3>1. PICK x : x = AddLeaf(Path(Spill(n), n), m, v)
        OBVIOUS
      <3>2. Apply(x)
        BY <2>6, <3>1 DEF Split, Do
      <3>3. n \in Nodes /\ D.k[n] # NoPage /\ m \in Nodes /\ D.k[m] = NoPage
        BY <2>1, <2>2
      <3>4. Ends(x, D)
        BY <2>1, <3>1, <3>3, SplitEnds
      <3> QED
        BY <3>2, <3>4
    <2>7. ASSUME NEW d \in Tree, NEW k \in Tree, NEW v \in Vals, NEW n \in {d, k}, Merge(n, d, k, v)
          PROVE  \E x : Ends(x, D) /\ Apply(x)
      <3>1. PICK x : x = Merged(TouchLeaf(Path(Spill(n), n), k), d, k, v)
        OBVIOUS
      <3>2. Apply(x) /\ d # k /\ d # BigNode
        BY <2>7, <3>1 DEF Merge, Neighbours, Do
      <3>3. d \in Nodes /\ D.k[d] # NoPage /\ k \in Nodes /\ D.k[k] # NoPage
        BY <2>1, <2>2
      <3>4. Ends(x, D)
        BY <2>1, <3>1, <3>2, <3>3, MergeEnds
      <3> QED
        BY <3>2, <3>4
    <2>8. ASSUME NEW n \in Tree, SpillFails(n)
          PROVE  \E x : Ends(x, D) /\ Apply(x)
      <3>1. PICK P \in SUBSET ToSpill(n) :
              Apply([Broken(Work) EXCEPT !.t.spill = @ \cup ToSpill(n), !.file = Flushed(@, P)])
        BY <2>8 DEF SpillFails
      <3>2. PICK x : x = [Broken(Work) EXCEPT !.t.spill = @ \cup ToSpill(n), !.file = Flushed(@, P)]
        OBVIOUS
      <3>3. Apply(x)
        BY <3>1, <3>2
      <3>4. Failing(x) /\ Safe(x.file)
        BY <2>1, <3>2, SpillFailing DEF Begun
      <3>5. Ends(x, D)
        BY <3>4, EndsBadly
      <3> QED
        BY <3>3, <3>5
    <2>9. \E x : Ends(x, D) /\ Apply(x)
      BY <2>3, <2>4, <2>5, <2>6, <2>7, <2>8 DEF Operation
    <2> QED
      BY <2>1, <2>2, <2>9
  <1>2. CanWork
    BY DEF Operation, Put, PutBig, DelBig, Split, Merge, SpillFails
  <1> QED
    BY <1>1, <1>2

LEMMA OperationKeeps ==
    ASSUME IInv, Operation
    PROVE  IInv'
  <1>1. PICK D, x : Begun(D) /\ Ends(x, D) /\ Apply(x) /\ ending' = ending
    BY OperationEnds
  <1>2. Top > 0 /\ ~txns[Top].error /\ Level(Top, D)
    BY <1>1 DEF Begun
  <1> QED
    BY <1>1, <1>2, Applied
-----------------------------------------------------------------------------
(* Cursors. *)

(* What CursorOK says of a cursor that is r.                               *)
Right(r) ==
  /\ r.own = 0 => r = Closed
  /\ r.own > 0 => r.own = Top /\ Len(r.backup) < Top
  /\ r.root \in Spots(Top) /\ r.leaf \in Spots(Top)
  /\ \A k \in DOMAIN r.backup :
       /\ r.backup[k].root \in Spots(LevelOf(r, k)) /\ r.backup[k].leaf \in Spots(LevelOf(r, k))
       /\ PointsAt(r.backup[k], txns, LevelOf(r, k), file)
  /\ r.own > 0 /\ ~txns[Top].error => PointsAt(r, txns, Top, file)

(* A cursor is opened, closed or moved.                                    *)
LEMMA CursorSet ==
    ASSUME IInv, NEW c \in Cursors, NEW r \in Cursor, Right(r), Set(c, r), ending' = ending
    PROVE  IInv'
  <1>1. /\ txns' = txns /\ pghead' = pghead /\ pglast' = pglast /\ file' = file /\ meta' = meta
        /\ sees' = sees /\ ending' = ending /\ cur' = [cur EXCEPT ![c] = r]
    BY DEF Set
  <1>2. Top' = Top /\ cur \in [Cursors -> Cursor]
    BY <1>1 DEF Top, IInv, Types
  <1>3. cur' \in [Cursors -> Cursor]
    BY <1>1, <1>2
  <1>4. \A i \in 1..Top : HeadOf(i)' = HeadOf(i) /\ LastOf(i)' = LastOf(i)
    BY <1>1, <1>2 DEF HeadOf, LastOf
  <1>5. Types'
    BY <1>1, <1>2, <1>3 DEF IInv, Types, Stacked
  <1>6. LevelsOK'
    BY <1>1, <1>2, <1>4 DEF IInv, LevelsOK
  <1>7. StoredOK'
    BY <1>1, <1>2 DEF IInv, StoredOK
  <1>8. CursorsOK'
    <2> SUFFICES ASSUME NEW d \in Cursors
                 PROVE  CursorOK(d)'
      BY DEF CursorsOK
    <2>1. CursorOK(d)
      BY DEF IInv, CursorsOK
    <2>2. \A q, k : LevelOf(q, k)' = LevelOf(q, k)
      BY <1>2 DEF LevelOf
    <2>3. CASE d = c
      <3>1. cur'[d] = r
        BY <1>1, <1>2, <2>3
      <3> QED
        BY <1>1, <1>2, <2>2, <3>1 DEF CursorOK, Right
    <2>4. CASE d # c
      <3>1. cur'[d] = cur[d]
        BY <1>1, <1>2, <2>4
      <3> QED
        BY <1>1, <1>2, <2>1, <2>2, <3>1 DEF CursorOK
    <2> QED
      BY <2>3, <2>4
  <1>9. Seeing'
    BY <1>1 DEF IInv, Seeing
  <1> QED
    BY <1>5, <1>6, <1>7, <1>8, <1>9 DEF IInv

LEMMA ClosedRight == ASSUME Types PROVE Closed \in Cursor /\ Right(Closed)
  <1>1. Top \in Nat
    BY DEF Types, Stacked, Top
  <1>2. NotAt \in Spot /\ NotAt \in Spots(Top)
    BY <1>1 DEF NotAt, Spot, Spots, Opt
  <1>3. Closed \in Cursor
    BY <1>2 DEF Closed, Cursor
  <1>4. Closed.own = 0 /\ Closed.root = NotAt /\ Closed.leaf = NotAt /\ Closed.backup = <<>>
    BY DEF Closed
  <1> QED
    BY <1>2, <1>3, <1>4 DEF Right

LEMMA UseCursorKeeps ==
    ASSUME IInv, UseCursor
    PROVE  IInv'
  <1>1. Types /\ LevelsOK /\ CursorsOK
    BY DEF IInv
  <1>2. PICK c \in Cursors : OpenCursor(c) \/ CloseCursor(c) \/ \E n \in Tree : Position(c, n)
    BY DEF UseCursor
  <1>3. CASE OpenCursor(c)
    <2>1. Top > 0 /\ ending' = ending
      BY <1>3 DEF OpenCursor, CanWork
    <2>2. Top \in Nat
      BY <1>1 DEF Types, Stacked, Top
    <2>3. PICK r : r = [Closed EXCEPT !.own = Top]
      OBVIOUS
    <2>4. /\ r.own = Top /\ r.at = NoNode /\ r.root = NotAt /\ r.leaf = NotAt /\ r.backup = <<>>
          /\ r \in Cursor
      BY <1>1, <2>2, <2>3, ClosedRight DEF Closed, Cursor
    <2>5. NotAt \in Spots(Top)
      BY <2>2 DEF NotAt, Spots, Opt
    <2>6. PointsAt(r, txns, Top, file)
      BY <2>4 DEF PointsAt
    <2>7. Len(r.backup) = 0
      BY <2>4
    <2>8. Right(r)
      BY <2>1, <2>2, <2>4, <2>5, <2>6, <2>7 DEF Right
    <2>9. Set(c, r)
      BY <1>3, <2>3 DEF OpenCursor
    <2> QED
      BY <2>1, <2>4, <2>8, <2>9, CursorSet
  <1>4. CASE CloseCursor(c)
    <2>1. Set(c, Closed) /\ ending' = ending
      BY <1>4 DEF CloseCursor
    <2> QED
      BY <1>1, <2>1, ClosedRight, CursorSet
  <1>5. ASSUME NEW n \in Tree, Position(c, n)
        PROVE  IInv'
    <2>1. CanWork /\ Open(c) /\ cur[c].backup = <<>> /\ ending' = ending
      BY <1>5 DEF Position, Usable, CanWork
    <2>2. PICK D : Begun(D) /\ \A m \in Nodes : m \in Tree <=> D.k[m] # NoPage
      BY <2>1, CallStart
    <2>3. /\ Top > 0 /\ ~txns[Top].error /\ WellMade(D) /\ n \in Nodes /\ D.k[n] # NoPage
          /\ D.r = txns[Top].root /\ Shows(D, txns, Top, file) /\ Top \in Nat
      BY <1>1, <2>2 DEF Begun, Tree, Level, LevelOK, Types, Stacked, Top
    <2>4. Kids(txns, Top, file) = D.k
      BY <2>3 DEF Kids, Shows
    <2>5. \A p : At(Work, p) = <<Where(txns, Top, p), p>>
      BY <1>1, <2>3, WorkFacts DEF At, WhereIs
    <2>6. PICK q, r : /\ q = cur[c]
                      /\ r = [q EXCEPT !.at = n, !.root = At(Work, txns[Top].root),
                                       !.leaf = At(Work, Kids(txns, Top, file)[n])]
      OBVIOUS
    <2>7. q \in Cursor /\ q.own = Top /\ q.backup = <<>>
      <3>1. q \in Cursor
        BY <1>1, <2>6 DEF Types
      <3>2. q.own > 0
        BY <2>1, <2>6 DEF Open
      <3> QED
        BY <1>1, <2>1, <2>6, <3>1, <3>2 DEF CursorsOK, CursorOK
    <2>8. D.r \in Pgs /\ D.k[n] \in Pgs
      BY <2>3, TreeFacts
    <2>9. PICK a, b : a = <<Where(txns, Top, D.r), D.r>> /\ b = <<Where(txns, Top, D.k[n]), D.k[n]>>
      OBVIOUS
    <2>10. a \in Spots(Top) /\ b \in Spots(Top) /\ a \in Spot /\ b \in Spot
      <3>1. \A p : Where(txns, Top, p) \in 0..Top
        BY <2>3, WhereType
      <3> QED
        BY <2>3, <2>8, <2>9, <3>1 DEF Spots, Spot, Opt
    <2>11. r = [q EXCEPT !.at = n, !.root = a, !.leaf = b]
      BY <2>3, <2>4, <2>5, <2>6, <2>9
    <2>12. /\ r \in Cursor /\ r.own = Top /\ r.at = n /\ r.root = a /\ r.leaf = b /\ r.backup = <<>>
      BY <2>3, <2>7, <2>10, <2>11 DEF Cursor
    <2>13. PointsAt(r, txns, Top, file)
      <3>1. n # NoNode
        BY <2>3, StoreAssumption
      <3> QED
        BY <2>3, <2>4, <2>9, <2>12, <3>1 DEF PointsAt
    <2>14. Len(r.backup) = 0
      BY <2>12
    <2>15. Right(r)
      BY <2>3, <2>10, <2>12, <2>13, <2>14 DEF Right
    <2>16. Set(c, r)
      BY <1>5, <2>6 DEF Position
    <2> QED
      BY <2>1, <2>12, <2>15, <2>16, CursorSet
  <1> QED
    BY <1>2, <1>3, <1>4, <1>5

-----------------------------------------------------------------------------
(* The transactions that stay when one begins or ends. *)

(* The first m transactions are the same but for MDB_TXN_ERROR.            *)
SameTo(s, m) ==
  \A j \in 1..m : s[j].dirty = txns[j].dirty /\ s[j].spill = txns[j].spill /\ s[j].root = txns[j].root

(* What the transactions that stay say remains right.                      *)
LEMMA PointsSame ==
    ASSUME NEW s, NEW m \in Nat, SameTo(s, m), NEW i \in 1..m, NEW f,
           NEW v, PointsAt(v, txns, i, f)
    PROVE  PointsAt(v, s, i, f)
  <1>1. i \in Nat /\ s[i].root = txns[i].root
    BY DEF SameTo
  <1>2. \A j \in 1..i : s[j].dirty = txns[j].dirty /\ s[j].spill = txns[j].spill
    BY DEF SameTo
  <1>3. /\ \A p : Where(s, i, p) = Where(txns, i, p)
        /\ \A p : Page(s, i, f, p) = Page(txns, i, f, p)
    BY <1>1, <1>2, WhereSame
  <1>4. Kids(s, i, f) = Kids(txns, i, f)
    BY <1>1, <1>3 DEF Kids
  <1> QED
    BY <1>1, <1>3, <1>4 DEF PointsAt

LEMMA LevelSame ==
    ASSUME IInv, NEW s, NEW i \in 1..Top, \A j \in 1..i : s[j] = txns[j], ~txns[i].error
    PROVE  \E D \in Trees : LevelOK(s, file, HeadOf(i), LastOf(i), i, D)
  <1>1. i \in Nat \ {0}
    BY DEF IInv, Types, Stacked, Top
  <1>2. PICK D \in Trees : LevelOK(txns, file, HeadOf(i), LastOf(i), i, D)
    BY DEF IInv, LevelsOK
  <1>3. \A p \in PagesIn(D) : Page(txns, i, file, p) = Page(txns, i, file, p)
    OBVIOUS
  <1>4. LevelOK(s, file, HeadOf(i), LastOf(i), i, D)
    BY <1>1, <1>2, <1>3, Carried
  <1> QED
    BY <1>2, <1>4

(* What the transactions of s, m of them, are.                             *)
LEMMA StackShape ==
    ASSUME IInv
    PROVE  /\ txns \in Seq(Txn) /\ Top = Len(txns) /\ Top \in Nat /\ Top <= MaxLevel
           /\ \A i \in 1..Top : txns[i] \in Txn
           /\ \A i \in 1..(Top - 1) : ~txns[i].error
           /\ Top > 0 => txns[1].head0 = {} /\ txns[1].last0 = 0
           /\ cur \in [Cursors -> Cursor] /\ file \in Files /\ meta \in Pgs
           /\ pghead \in SUBSET Pgs /\ pglast \in Lasts /\ MaxLevel \in Nat
  BY BoundsAssumption DEF IInv, Types, Stacked, Top

(* A cursor that stays with its transaction.                               *)
Backups(r, n) ==
  /\ r.root \in Spots(n) /\ r.leaf \in Spots(n)
  /\ \A k \in DOMAIN r.backup :
       /\ r.backup[k].root \in Spots(LevelOf(r, k)) /\ r.backup[k].leaf \in Spots(LevelOf(r, k))
       /\ PointsAt(r.backup[k], txns, LevelOf(r, k), file)

LEMMA CursorIs ==
    ASSUME IInv, NEW c \in Cursors, NEW r, r = cur[c]
    PROVE  /\ r \in Cursor /\ r.own \in Nat /\ r.backup \in Seq(Place) /\ Len(r.backup) \in Nat
           /\ r.own = 0 => r = Closed /\ r.backup = <<>>
           /\ r.own > 0 => r.own = Top /\ Len(r.backup) < Top
           /\ Backups(r, Top)
           /\ \A k \in DOMAIN r.backup : LevelOf(r, k) \in 1..(Top - 1)
           /\ r.own > 0 /\ ~txns[Top].error => PointsAt(r, txns, Top, file)
  <1>1. r \in Cursor /\ CursorOK(c)
    BY StackShape DEF IInv, CursorsOK
  <1>2. r.own \in Nat /\ r.backup \in Seq(Place) /\ Len(r.backup) \in Nat
    BY <1>1 DEF Cursor
  <1>3. /\ r.own = 0 => r = Closed /\ r.backup = <<>>
        /\ r.own > 0 => r.own = Top /\ Len(r.backup) < Top
    BY <1>1 DEF CursorOK, Closed
  <1>4. ASSUME NEW k \in DOMAIN r.backup
        PROVE  LevelOf(r, k) \in 1..(Top - 1)
    <2>1. k \in 1..Len(r.backup)
      BY <1>2
    <2>2. r.own > 0
      BY <1>2, <1>3, <2>1
    <2> QED
      BY <1>2, <1>3, <2>1, <2>2, StackShape DEF LevelOf
  <1>5. /\ Backups(r, Top)
        /\ r.own > 0 /\ ~txns[Top].error => PointsAt(r, txns, Top, file)
    BY <1>1 DEF CursorOK, Backups
  <1> QED
    BY <1>1, <1>2, <1>3, <1>4, <1>5

(* Cursors that are closed with the transaction they were opened in.       *)
LEMMA ClosedOK ==
    ASSUME NEW c \in Cursors, cur'[c] = Closed, Top' \in Nat
    PROVE  CursorOK(c)' /\ cur'[c] \in Cursor
  <1>1. NotAt \in Spot /\ NotAt \in Spots(Top')
    BY DEF NotAt, Spot, Spots, Opt
  <1>2. Closed \in Cursor
    BY <1>1 DEF Closed, Cursor
  <1>3. Closed.own = 0 /\ Closed.root = NotAt /\ Closed.leaf = NotAt /\ Closed.backup = <<>>
    BY DEF Closed
  <1>4. cur'[c].root \in Spots(Top)' /\ cur'[c].leaf \in Spots(Top)'
    BY <1>1, <1>3 DEF Spots
  <1> QED
    BY <1>2, <1>3, <1>4 DEF CursorOK

(* A cursor goes back to the parent.                                       *)
LEMMA BackupsKept ==
    ASSUME IInv, NEW c \in Cursors, NEW r, r = cur[c], r.backup # <<>>,
           NEW q, q.backup = Front(r.backup), Top' = Top - 1, file' = file, SameTo(txns', Top - 2)
    PROVE  /\ q.backup \in Seq(Place) /\ Len(q.backup) = Len(r.backup) - 1 /\ Len(q.backup) < Top - 1
           /\ r.own = Top /\ Last(r.backup) \in Place /\ Top - 1 \in Nat \ {0}
           /\ Last(r.backup).root \in Spots(Top - 1) /\ Last(r.backup).leaf \in Spots(Top - 1)
           /\ PointsAt(Last(r.backup), txns, Top - 1, file)
           /\ \A k \in DOMAIN q.backup :
                /\ q.backup[k].root \in Spots(LevelOf(q, k)') /\ q.backup[k].leaf \in Spots(LevelOf(q, k)')
                /\ PointsAt(q.backup[k], txns, LevelOf(q, k), file)'
  <1>1. /\ r.backup \in Seq(Place) /\ Len(r.backup) \in Nat /\ r.own \in Nat
        /\ r.own = 0 => r = Closed /\ r.backup = <<>>
        /\ r.own > 0 => r.own = Top /\ Len(r.backup) < Top
        /\ Backups(r, Top)
        /\ \A k \in DOMAIN r.backup : LevelOf(r, k) \in 1..(Top - 1)
    BY CursorIs
  <1>2. Top \in Nat
    BY StackShape
  <1>3. PICK b, n : b = r.backup /\ n = Len(r.backup)
    OBVIOUS
  <1>4. /\ b \in Seq(Place) /\ n \in Nat /\ n = Len(b) /\ n > 0 /\ n < Top /\ r.own = Top
        /\ n \in DOMAIN b /\ b[n] \in Place
    BY <1>1, <1>3
  <1>5. /\ q.backup \in Seq(Place) /\ Len(q.backup) = n - 1
        /\ \A k \in 1..(n - 1) : q.backup[k] = b[k]
        /\ Last(b) = b[n]
    BY <1>3, <1>4 DEF Front, Last
  <1>6. \A k \in 1..n : LevelOf(r, k) = Top - n + k - 1
    BY <1>3 DEF LevelOf
  <1>7. \A k \in 1..n : /\ b[k].root \in Spots(Top - n + k - 1) /\ b[k].leaf \in Spots(Top - n + k - 1)
                        /\ PointsAt(b[k], txns, Top - n + k - 1, file)
    <2>1. TAKE k \in 1..n
    <2>2. k \in DOMAIN b /\ LevelOf(r, k) = Top - n + k - 1
      BY <1>4, <1>6
    <2>3. /\ b[k].root \in Spots(LevelOf(r, k)) /\ b[k].leaf \in Spots(LevelOf(r, k))
          /\ PointsAt(b[k], txns, LevelOf(r, k), file)
      <3>1. Backups(r, Top)
        BY <1>1
      <3> QED
        BY <1>3, <2>2, <3>1 DEF Backups
    <2> QED
      BY <2>2, <2>3
  <1>8. /\ b[n].root \in Spots(Top - 1) /\ b[n].leaf \in Spots(Top - 1)
        /\ PointsAt(b[n], txns, Top - 1, file)
    <2>1. n \in 1..n /\ Top - n + n - 1 = Top - 1
      BY <1>2, <1>4
    <2> QED
      BY <2>1, <1>7
  <1>9. ASSUME NEW k \in DOMAIN q.backup
        PROVE  /\ q.backup[k].root \in Spots(LevelOf(q, k)') /\ q.backup[k].leaf \in Spots(LevelOf(q, k)')
               /\ PointsAt(q.backup[k], txns, LevelOf(q, k), file)'
    <2>1. k \in 1..(n - 1) /\ k \in 1..n /\ q.backup[k] = b[k]
      BY <1>4, <1>5
    <2>2. PICK i : i = Top - n + k - 1
      OBVIOUS
    <2>3. LevelOf(q, k)' = i /\ i \in 1..(Top - 2) /\ Top - 2 \in Nat
      BY <1>2, <1>4, <1>5, <2>1, <2>2 DEF LevelOf
    <2>4. b[k].root \in Spots(i) /\ b[k].leaf \in Spots(i) /\ PointsAt(b[k], txns, i, file)
      BY <1>7, <2>1, <2>2
    <2>5. PointsAt(b[k], txns', i, file)
      BY <1>2, <2>3, <2>4, PointsSame
    <2>6. PointsAt(b[k], txns', i, file')
      BY <2>5
    <2> QED
      BY <2>1, <2>3, <2>4, <2>6
  <1> QED
    BY <1>2, <1>3, <1>4, <1>5, <1>8, <1>9

(* mdb_cursors_close of a transaction that aborts.                         *)
LEMMA RestoredKeep ==
    ASSUME IInv, Top > 0, cur' = CursorsClosed(FALSE), Top' = Top - 1, file' = file,
           SameTo(txns', Top - 1)
    PROVE  CursorsOK' /\ cur' \in [Cursors -> Cursor]
  <1>1. ASSUME NEW c \in Cursors
        PROVE  CursorOK(c)' /\ cur'[c] \in Cursor
    <2>1. PICK r : r = cur[c]
      OBVIOUS
    <2>2. Top - 1 \in Nat /\ Top \in Nat
      BY StackShape
    <2>3. CASE r.backup = <<>>
      <3>1. cur'[c] = Closed
        BY <2>1, <2>3 DEF CursorsClosed
      <3> QED
        BY <2>2, <3>1, ClosedOK
    <2>4. CASE r.backup # <<>>
      <3>1. PICK q, b : b = Last(r.backup) /\
              q = [own |-> Top - 1, at |-> b.at, root |-> b.root, leaf |-> b.leaf,
                   backup |-> Front(r.backup)]
        OBVIOUS
      <3>2. cur'[c] = q
        BY <2>1, <2>4, <3>1 DEF CursorsClosed, Restored
      <3>3. /\ q.own = Top - 1 /\ q.at = b.at /\ q.root = b.root /\ q.leaf = b.leaf
            /\ q.backup = Front(r.backup)
        BY <3>1
      <3>4. /\ q.backup \in Seq(Place) /\ Len(q.backup) < Top - 1
            /\ b \in Place /\ Top - 1 \in Nat \ {0}
            /\ b.root \in Spots(Top - 1) /\ b.leaf \in Spots(Top - 1)
            /\ PointsAt(b, txns, Top - 1, file)
            /\ \A k \in DOMAIN q.backup :
                 /\ q.backup[k].root \in Spots(LevelOf(q, k)') /\ q.backup[k].leaf \in Spots(LevelOf(q, k)')
                 /\ PointsAt(q.backup[k], txns, LevelOf(q, k), file)'
        <4>1. SameTo(txns', Top - 2)
          BY <2>2 DEF SameTo
        <4> QED
          BY <2>1, <2>4, <3>1, <3>3, <4>1, BackupsKept
      <3>5. q \in Cursor
        BY <3>1, <3>4 DEF Cursor, Place
      <3>6. PointsAt(q, txns', Top - 1, file)
        <4>1. PointsAt(q, txns, Top - 1, file)
          BY <3>3, <3>4 DEF PointsAt
        <4>2. Top - 1 \in 1..(Top - 1) /\ Top - 1 \in Nat
          BY <3>4
        <4> QED
          BY <4>1, <4>2, PointsSame
      <3> QED
        BY <3>2, <3>3, <3>4, <3>5, <3>6 DEF CursorOK
    <2> QED
      BY <2>3, <2>4
  <1>2. cur' = [c \in Cursors |-> cur'[c]]
    BY DEF CursorsClosed
  <1> QED
    BY <1>1, <1>2 DEF CursorsOK

-----------------------------------------------------------------------------
(* The end of a transaction. *)

(* mdb_txn_commit or mdb_txn_abort goes on with the next transaction or    *)
(* is done.                                                                *)
LEMMA GoesOn ==
    ASSUME IInv, NEW i, i \in 1..Top, NEW how \in {"commit", "abort"}, Goes(how, i), Top' = Top - 1
    PROVE  ending' = <<>> \/ ending' \in {"commit", "abort"} \X (1..Top')
  <1>1. Top \in Nat
    BY StackShape
  <1> QED
    BY <1>1 DEF Goes

(* The transactions without the innermost, and with MDB_TXN_ERROR in the   *)
(* next.                                                                   *)
LEMMA FrontIs ==
    ASSUME NEW S, NEW s \in Seq(S), Len(s) > 0
    PROVE  /\ Front(s) \in Seq(S) /\ Len(Front(s)) = Len(s) - 1
           /\ \A j \in 1..(Len(s) - 1) : Front(s)[j] = s[j]
  <1>1. PICK n, r : n = Len(s) - 1 /\ r = SubSeq(s, 1, n)
    OBVIOUS
  <1>2. n \in Nat /\ n <= Len(s)
    BY <1>1
  <1>3. \A j \in 1..n : s[j] \in S
    BY <1>2
  <1>4. /\ r \in Seq(S) /\ Len(r) = (IF 1 <= n THEN n - 1 + 1 ELSE 0)
        /\ \A j \in 1..(n - 1 + 1) : r[j] = s[1 + j - 1]
    <2>1. 1 \in Int /\ n \in Int
      BY <1>2
    <2> QED
      BY <1>1, <1>3, <2>1, SubSeqProperties
  <1>5. Len(r) = n
    BY <1>2, <1>4
  <1>6. \A j \in 1..n : r[j] = s[j]
    <2>1. TAKE j \in 1..n
    <2>2. j \in 1..(n - 1 + 1) /\ 1 + j - 1 = j
      BY <1>2
    <2> QED
      BY <1>4, <2>2
  <1>7. Front(s) = r
    BY <1>1 DEF Front
  <1> QED
    BY <1>1, <1>4, <1>5, <1>6, <1>7

LEMMA PoisonedIs ==
    ASSUME NEW s \in Seq(Txn)
    PROVE  /\ Poisoned(s) \in Seq(Txn) /\ Len(Poisoned(s)) = Len(s)
           /\ \A j \in 1..(Len(s) - 1) : Poisoned(s)[j] = s[j]
           /\ \A j \in 1..Len(s) :
                /\ Poisoned(s)[j].dirty = s[j].dirty /\ Poisoned(s)[j].spill = s[j].spill
                /\ Poisoned(s)[j].root = s[j].root /\ Poisoned(s)[j].head0 = s[j].head0
                /\ Poisoned(s)[j].last0 = s[j].last0
           /\ s # <<>> => Poisoned(s)[Len(s)].error
  <1>1. CASE s = <<>>
    BY <1>1 DEF Poisoned
  <1>2. CASE s # <<>>
    <2>1. PICK n, t, u : n = Len(s) /\ t = s[n] /\ u = [t EXCEPT !.error = TRUE]
      OBVIOUS
    <2>2. n \in 1..n /\ n \in Nat /\ n = Len(s) /\ t \in Txn
      BY <1>2, <2>1
    <2>3. /\ u \in Txn /\ u.error /\ u.dirty = t.dirty /\ u.spill = t.spill /\ u.root = t.root
          /\ u.head0 = t.head0 /\ u.last0 = t.last0
      BY <2>1, <2>2 DEF Txn
    <2>4. Poisoned(s) = [s EXCEPT ![n] = u]
      BY <1>2, <2>1, <2>2 DEF Poisoned, Txn
    <2> QED
      BY <1>2, <2>1, <2>2, <2>3, <2>4
  <1> QED
    BY <1>1, <1>2

(* The levels below are as they were, and perhaps in error.                *)
LEMMA DroppedKeeps ==
    ASSUME IInv, Top > 0, NEW s, s = Front(txns) \/ s = Poisoned(Front(txns)), Dropped(s),
           NEW i, i \in 1..Top, NEW how \in {"commit", "abort"}, Goes(how, i)
    PROVE  IInv'
  <1>1. /\ txns \in Seq(Txn) /\ Top = Len(txns) /\ Top \in Nat /\ Top <= MaxLevel
        /\ \A j \in 1..Top : txns[j] \in Txn
        /\ \A j \in 1..(Top - 1) : ~txns[j].error
        /\ Top > 0 => txns[1].head0 = {} /\ txns[1].last0 = 0
        /\ file \in Files /\ meta \in Pgs /\ MaxLevel \in Nat
    BY StackShape
  <1>2. /\ txns' = s /\ file' = file /\ meta' = meta /\ sees' = Images(s, file, meta)
        /\ cur' = CursorsClosed(FALSE)
        /\ pghead' = (IF Top > 1 THEN txns[Top].head0 ELSE {})
        /\ pglast' = (IF Top > 1 THEN txns[Top].last0 ELSE 0)
    BY DEF Dropped, Becomes
  <1>3. /\ s \in Seq(Txn) /\ Len(s) = Top - 1
        /\ \A j \in 1..(Top - 2) : s[j] = txns[j]
        /\ \A j \in 1..(Top - 1) :
             /\ s[j].dirty = txns[j].dirty /\ s[j].spill = txns[j].spill /\ s[j].root = txns[j].root
             /\ s[j].head0 = txns[j].head0 /\ s[j].last0 = txns[j].last0
        /\ s = Front(txns) => \A j \in 1..(Top - 1) : s[j] = txns[j]
        /\ s # Front(txns) /\ Top > 1 => s[Top - 1].error
    <2>1. PICK r : r = Front(txns)
      OBVIOUS
    <2>2. r \in Seq(Txn) /\ Len(r) = Top - 1 /\ \A j \in 1..(Top - 1) : r[j] = txns[j]
      BY <1>1, <2>1, FrontIs
    <2>3. CASE s = r
      BY <2>1, <2>2, <2>3, <1>1
    <2>4. CASE s = Poisoned(r)
      <3>1. /\ s \in Seq(Txn) /\ Len(s) = Len(r)
            /\ \A j \in 1..(Len(r) - 1) : s[j] = r[j]
            /\ \A j \in 1..Len(r) :
                 /\ s[j].dirty = r[j].dirty /\ s[j].spill = r[j].spill /\ s[j].root = r[j].root
                 /\ s[j].head0 = r[j].head0 /\ s[j].last0 = r[j].last0
            /\ r # <<>> => s[Len(r)].error
        BY <2>2, <2>4, PoisonedIs
      <3>2. Top > 1 => r # <<>>
        BY <1>1, <2>2
      <3>3. Len(r) - 1 = Top - 2
        BY <1>1, <2>2
      <3>4. \A j \in 1..(Top - 2) : s[j] = txns[j]
        <4> SUFFICES ASSUME NEW j \in 1..(Top - 2)
                     PROVE  s[j] = txns[j]
          OBVIOUS
        <4>1. j \in 1..(Top - 1)
          BY <1>1
        <4> QED
          BY <3>1, <3>3, <4>1, <2>2
      <3>5. s = r => \A j \in 1..(Top - 1) : s[j] = txns[j]
        BY <2>2
      <3> QED
        BY <2>1, <2>2, <3>1, <3>2, <3>4, <3>5
    <2> QED
      BY <2>1, <2>3, <2>4
  <1>4. Top' = Top - 1 /\ Top - 1 \in Nat
    BY <1>1, <1>2, <1>3 DEF Top
  <1>5. SameTo(txns', Top - 1)
    BY <1>2, <1>3 DEF SameTo
  <1>6. CursorsOK' /\ cur' \in [Cursors -> Cursor]
    BY <1>2, <1>4, <1>5, RestoredKeep
  <1>7. \A j \in 1..(Top - 1) : HeadOf(j)' = HeadOf(j) /\ LastOf(j)' = LastOf(j)
    <2> SUFFICES ASSUME NEW j \in 1..(Top - 1)
                 PROVE  HeadOf(j)' = HeadOf(j) /\ LastOf(j)' = LastOf(j)
      OBVIOUS
    <2>1. HeadOf(j) = txns[j + 1].head0 /\ LastOf(j) = txns[j + 1].last0
      BY <1>1 DEF HeadOf, LastOf
    <2>2. CASE j = Top - 1
      <3>1. HeadOf(j)' = pghead' /\ LastOf(j)' = pglast'
        BY <1>4, <2>2 DEF HeadOf, LastOf
      <3>2. Top > 1 /\ j + 1 = Top
        BY <1>1, <2>2
      <3> QED
        BY <1>2, <2>1, <3>1, <3>2
    <2>3. CASE j # Top - 1
      <3>1. HeadOf(j)' = s[j + 1].head0 /\ LastOf(j)' = s[j + 1].last0
        BY <1>2, <1>4, <2>3 DEF HeadOf, LastOf
      <3>2. j + 1 \in 1..(Top - 1)
        BY <1>1, <2>3
      <3> QED
        BY <1>3, <2>1, <3>1, <3>2
    <2> QED
      BY <2>2, <2>3
  <1>8. Types'
    <2>1. Stacked'
      <3>1. \A j \in 1..(Top - 2) : ~s[j].error
        <4> SUFFICES ASSUME NEW j \in 1..(Top - 2)
                     PROVE  ~s[j].error
          OBVIOUS
        <4>1. j \in 1..(Top - 1)
          BY <1>1
        <4> QED
          BY <1>1, <1>3, <4>1
      <3>2. Top - 1 > 0 => s[1].head0 = {} /\ s[1].last0 = 0
        <4> SUFFICES ASSUME Top - 1 > 0
                     PROVE  s[1].head0 = {} /\ s[1].last0 = 0
          OBVIOUS
        <4>1. 1 \in 1..(Top - 1)
          BY <1>1
        <4> QED
          BY <1>1, <1>3, <4>1
      <3>3. Top - 1 <= MaxLevel /\ Top - 1 - 1 = Top - 2
        BY <1>1
      <3> QED
        BY <1>2, <1>3, <1>4, <3>1, <3>2, <3>3 DEF Stacked
    <2>2. pghead' \in SUBSET Pgs /\ pglast' \in Lasts
      <3>1. txns[Top].head0 \in SUBSET Pgs /\ txns[Top].last0 \in Lasts
        <4>1. Top \in 1..Top
          BY <1>1
        <4>2. txns[Top] \in Txn
          BY <1>1, <4>1
        <4> QED
          BY <4>2 DEF Txn
      <3>2. 0 \in Lasts
        BY RecordsFacts DEF Lasts
      <3> QED
        BY <1>2, <3>1, <3>2
    <2>3. ending' = <<>> \/ ending' \in {"commit", "abort"} \X (1..Top')
      BY <1>4, GoesOn
    <2> QED
      BY <1>1, <1>2, <1>6, <2>1, <2>2, <2>3 DEF Types
  <1>9. LevelsOK'
    <2>1. ASSUME NEW j \in 1..(Top - 1), ~s[j].error
          PROVE  \E D \in Trees : LevelOK(s, file, HeadOf(j)', LastOf(j)', j, D)
      <3>1. ~txns[j].error /\ j \in 1..Top /\ Top > 1
        BY <1>1
      <3>2. \A k \in 1..j : s[k] = txns[k]
        <4>1. CASE s = Front(txns)
          BY <1>1, <1>3, <4>1
        <4>2. CASE s # Front(txns)
          <5>1. j # Top - 1
            BY <1>3, <2>1, <3>1, <4>2
          <5>2. ASSUME NEW k \in 1..j
                PROVE  k \in 1..(Top - 2)
            <6>1. j \in Nat /\ k \in Nat /\ j < Top - 1 /\ k <= j /\ k >= 1
              BY <1>1, <5>1
            <6> QED
              BY <6>1, <1>1
          <5> QED
            BY <1>3, <5>2
        <4> QED
          BY <4>1, <4>2
      <3>3. \E D \in Trees : LevelOK(s, file, HeadOf(j), LastOf(j), j, D)
        BY <3>1, <3>2, LevelSame
      <3> QED
        BY <3>3, <1>7
    <2> QED
      BY <2>1, <1>2, <1>4 DEF LevelsOK
  <1>10. StoredOK'
    <2>1. Top > 0 => /\ meta = HomeRoot
                     /\ \E f \in {Stored(CHOOSE v \in Vals : TRUE)} : \A p \in HomeTree : file[p] = f[p]
      BY DEF IInv, StoredOK
    <2> QED
      BY <1>2, <2>1 DEF StoredOK
  <1>11. Seeing'
    BY <1>2 DEF Seeing
  <1> QED
    BY <1>6, <1>8, <1>9, <1>10, <1>11 DEF IInv

(* mdb_txn_abort, and mdb_txn_commit where it aborts.                      *)
LEMMA AbortKeeps ==
    ASSUME IInv, NEW i, Abort(i) \/ CommitFailed(i) \/ CommitNoMemory(i)
    PROVE  IInv'
  <1>1. /\ i \in 1..Top /\ Goes("abort", i)
        /\ Dropped(Front(txns)) \/ Dropped(Poisoned(Front(txns)))
    BY DEF Abort, CommitFailed, CommitNoMemory, Ending
  <1>2. Top > 0
    BY <1>1, StackShape
  <1> QED
    BY <1>1, <1>2, DroppedKeeps

(* The outermost commit leaves no transaction.                             *)
LEMMA CommitTopKeeps ==
    ASSUME IInv, CommitTop
    PROVE  IInv'
  <1>1. /\ Top = 1 /\ txns' = <<>>
        /\ file' = Flushed(file, {p \in DOMAIN txns[1].dirty : <<1, p>> \notin pkeep})
        /\ meta' = txns[1].root /\ sees' = Images(<<>>, file', meta')
        /\ pghead' = {} /\ pglast' = 0 /\ cur' = CursorsClosed(FALSE) /\ ending' = <<>>
    BY DEF CommitTop, Becomes
  <1>2. txns[1] \in Txn /\ file \in Files /\ MaxLevel \in Nat /\ Types
    BY <1>1, StackShape DEF IInv
  <1>3. Top' = 0
    BY <1>1 DEF Top
  <1>4. file' \in Files /\ meta' \in Pgs
    <2>2. PICK f, P : /\ P = {p \in DOMAIN txns[1].dirty : <<1, p>> \notin pkeep}
                      /\ f = Flushed(file, P)
      OBVIOUS
    <2>1. P \subseteq DOMAIN txns[Top].dirty /\ Top > 0
      BY <1>1, <2>2
    <2>3. f \in Files
      BY <1>1, <1>2, <2>1, <2>2, FlushFacts
    <2> QED
      BY <1>1, <1>2, <2>2, <2>3 DEF Txn
  <1>5. ASSUME NEW c \in Cursors
        PROVE  CursorOK(c)' /\ cur'[c] \in Cursor
    <2>1. PICK r : r = cur[c]
      OBVIOUS
    <2>2. /\ r.own \in Nat /\ r.backup \in Seq(Place) /\ Len(r.backup) \in Nat
          /\ r.own = 0 => r = Closed /\ r.backup = <<>>
          /\ r.own > 0 => r.own = Top /\ Len(r.backup) < Top
      BY <2>1, CursorIs
    <2>3. r.backup = <<>>
      BY <1>1, <2>2
    <2>4. cur'[c] = Closed
      BY <1>1, <2>1, <2>3 DEF CursorsClosed
    <2> QED
      BY <1>3, <2>4, ClosedOK
  <1>6. cur' \in [Cursors -> Cursor]
    <2>1. cur' = [c \in Cursors |-> cur'[c]]
      BY <1>1 DEF CursorsClosed
    <2> QED
      BY <1>5, <2>1
  <1>7. Types'
    <2>1. Stacked'
      <3>1. txns' \in Seq(Txn) /\ 0 <= MaxLevel /\ \A i \in 1..(0 - 1) : ~txns'[i].error
        BY <1>1, <1>2
      <3> QED
        BY <3>1, <1>3 DEF Stacked
    <2>2. 0 \in Lasts
      BY RecordsFacts DEF Lasts
    <2> QED
      BY <1>1, <1>4, <1>6, <2>1, <2>2 DEF Types
  <1>8. LevelsOK'
    BY <1>3 DEF LevelsOK
  <1>9. StoredOK'
    BY <1>3 DEF StoredOK
  <1>10. CursorsOK'
    BY <1>5 DEF CursorsOK
  <1>11. Seeing'
    BY <1>1 DEF Seeing
  <1> QED
    BY <1>7, <1>8, <1>9, <1>10, <1>11 DEF IInv

-----------------------------------------------------------------------------
(* A child begins. *)

(* What a level sees in dirty lists, from what the one around it sees.     *)
LEMMA SeenIs ==
    ASSUME NEW s, NEW i \in Nat, i > 0, Apart(s[i])
    PROVE  SeenTo(s, i) = Seen(s[i], SeenTo(s, i - 1)) \cap Pgs
  <1>1. ASSUME NEW p \in Pgs
        PROVE  p \in SeenTo(s, i) <=> p \in Seen(s[i], SeenTo(s, i - 1))
    <2>1. Where(s, i, p) = IF p \in s[i].spill THEN 0
                           ELSE IF p \in DOMAIN s[i].dirty THEN i
                           ELSE Where(s, i - 1, p)
      BY WhereStep
    <2> QED
      BY <2>1 DEF SeenTo, Seen, Held, Apart
  <1>2. SeenTo(s, i) \subseteq Pgs
    BY DEF SeenTo
  <1> QED
    BY <1>1, <1>2

(* The lists that a child begins with.                                     *)
Begins(t, u, h, l) ==
  /\ u.dirty = <<>> /\ u.spill = {} /\ u.loose = <<>> /\ u.free = [p \in Pgs |-> 0]
  /\ u.head0 = h /\ u.last0 = l /\ u.room = t.room /\ u.next = t.next /\ u.root = t.root
  /\ u.error = t.error

(* The child begins with empty lists and its parent's room.                *)
LEMMA MoveBegin ==
    ASSUME NEW r, NEW i \in Nat, i > 0, NEW t \in Txn, NEW u, t = r[i], NEW h, NEW l, NEW T,
           ListsOK(r, i, t, h, l, T), Begins(t, u, h, l),
           NEW s, \A j \in 1..i : s[j] = r[j], s[i + 1] = u
    PROVE  ListsOK(s, i + 1, u, h, l, T)
  <1>1. Apart(t) /\ RoomOK(r, i, t) /\ LooseOK(r, i, t) /\ FreeOK(r, i, t)
        /\ UseOK(r, i, t, h, l, T) /\ FreshOK(r, i, t, h, l) /\ Within(r, i, t, h, l)
    BY DEF ListsOK
  <1>2. /\ u.dirty = <<>> /\ u.spill = {} /\ u.loose = <<>> /\ u.free = [p \in Pgs |-> 0]
        /\ u.head0 = h /\ u.last0 = l /\ u.room = t.room /\ u.next = t.next
    BY DEF Begins
  <1>3. s[i] = t /\ \A j \in 1..(i - 1) : s[j] = r[j]
    OBVIOUS
  <1>4. DOMAIN u.dirty = {} /\ Held(u) = {} /\ ToSet(u.loose) = {}
    BY <1>2 DEF Held, ToSet
  <1>5. SeenTo(s, i) = Seen(t, SeenTo(r, i - 1))
    <2>1. SeenTo(s, i) = Seen(t, SeenTo(s, i - 1)) \cap Pgs
      BY <1>1, <1>3, SeenIs
    <2>2. SeenTo(s, i - 1) = SeenTo(r, i - 1)
      <3>1. PICK n : n = i - 1
        OBVIOUS
      <3>2. n \in Nat /\ \A j \in 1..n : s[j].dirty = r[j].dirty /\ s[j].spill = r[j].spill
        BY <1>3, <3>1
      <3>3. \A p : Where(s, n, p) = Where(r, n, p)
        BY <3>2, WhereSame
      <3> QED
        BY <3>1, <3>3 DEF SeenTo
    <2>3. Seen(t, SeenTo(r, i - 1)) \subseteq Pgs
      <3>1. DOMAIN t.dirty \subseteq Pgs
        BY DirtyType DEF Txn
      <3> QED
        BY <3>1 DEF Seen, SeenTo
    <2> QED
      BY <2>1, <2>2, <2>3
  <1>6. i + 1 - 1 = i
    OBVIOUS
  <1>7. RoomOK(s, i + 1, u)
    <2>1. Seen(u, SeenTo(s, i)) = SeenTo(s, i)
      BY <1>2, <1>4 DEF Seen
    <2> QED
      BY <2>1, <1>1, <1>2, <1>5, <1>6 DEF RoomOK
  <1>8. /\ LooseIn(s, i) = ToSet(t.loose) \cup LooseIn(r, i - 1)
        /\ HeldTo(s, i) = Held(t) \cup HeldTo(r, i - 1)
        /\ \A p \in Pgs : p \in FreedIn(s, i) <=> t.free[p] > 0 \/ p \in FreedIn(r, i - 1)
    <2>1. \A j \in 1..i : j = i \/ j \in 1..(i - 1)
      OBVIOUS
    <2>2. i \in 1..i /\ \A j \in 1..(i - 1) : j \in 1..i
      OBVIOUS
    <2>3. LooseIn(s, i) = ToSet(t.loose) \cup LooseIn(r, i - 1)
      BY <1>3, <2>1, <2>2 DEF LooseIn
    <2>4. HeldTo(s, i) = Held(t) \cup HeldTo(r, i - 1)
      BY <1>3, <2>1, <2>2 DEF HeldTo
    <2>5. \A p \in Pgs : p \in FreedIn(s, i) <=> t.free[p] > 0 \/ p \in FreedIn(r, i - 1)
      BY <1>3, <2>1, <2>2 DEF FreedIn
    <2> QED
      BY <2>3, <2>4, <2>5
  <1>9. Apart(u)
    BY <1>2 DEF Apart
  <1>10. LooseOK(s, i + 1, u)
    BY <1>2, <1>4 DEF LooseOK
  <1>11. \A p \in Pgs : ~(u.free[p] > 0)
    BY <1>2
  <1>12. FreeOK(s, i + 1, u)
    BY <1>11 DEF FreeOK
  <1>13. UseOK(s, i + 1, u, h, l, T)
    <2> SUFFICES ASSUME NEW p \in Pgs
                 PROVE  OneOf(p \in T, p \in h, p \in UnreadAfter(l),
                       u.free[p] > 0 \/ p \in FreedIn(s, i),
                       p \in ToSet(u.loose) \/ p \in LooseIn(s, i), p \in From(u.next))
      BY <1>6 DEF UseOK
    <2>1. OneOf(p \in T, p \in h, p \in UnreadAfter(l),
                t.free[p] > 0 \/ p \in FreedIn(r, i - 1),
                p \in ToSet(t.loose) \/ p \in LooseIn(r, i - 1), p \in From(t.next))
      BY <1>1 DEF UseOK
    <2>2. u.free[p] > 0 \/ p \in FreedIn(s, i) <=> t.free[p] > 0 \/ p \in FreedIn(r, i - 1)
      BY <1>8, <1>11
    <2>3. p \in ToSet(u.loose) \/ p \in LooseIn(s, i) <=> p \in ToSet(t.loose) \/ p \in LooseIn(r, i - 1)
      BY <1>4, <1>8
    <2> QED
      BY <1>2, <2>1, <2>2, <2>3 DEF OneOf
  <1>14. FreshOK(s, i + 1, u, h, l)
    BY <1>1, <1>2, <1>4, <1>6, <1>8 DEF FreshOK
  <1>15. Within(s, i + 1, u, h, l)
    <2> SUFFICES ASSUME NEW k \in 0..i
                 PROVE  FreshIn(h, l, u.next) \subseteq FreshAt(s, k)
      BY <1>4, <1>6 DEF Within
    <2>1. CASE k = i
      <3>1. FreshAt(s, i) = FreshIn(u.head0, u.last0, NextAt(s, i))
        BY DEF FreshAt
      <3>2. NextAt(s, i) = u.next
        BY <1>2, <1>3 DEF NextAt
      <3> QED
        BY <1>2, <2>1, <3>1, <3>2
    <2>2. CASE k # i
      <3>1. k \in 0..(i - 1) /\ k + 1 \in 1..i
        BY <2>2
      <3>2. s[k + 1] = r[k + 1] /\ (k # 0 => s[k] = r[k])
        BY <3>1
      <3>3. NextAt(s, k) = NextAt(r, k)
        BY <3>2 DEF NextAt
      <3>4. FreshAt(s, k) = FreshAt(r, k)
        BY <3>2, <3>3 DEF FreshAt
      <3> QED
        BY <1>1, <1>2, <3>1, <3>4 DEF Within
    <2> QED
      BY <2>1, <2>2
  <1> QED
    BY <1>7, <1>9, <1>10, <1>12, <1>13, <1>14, <1>15 DEF ListsOK

(* A child that holds nothing finds what its parent finds.                 *)
LEMMA BeginsSees ==
    ASSUME NEW r, NEW i \in Nat, i > 0, NEW s, \A j \in 1..i : s[j] = r[j],
           s[i + 1].dirty = <<>>, s[i + 1].spill = {}
    PROVE  /\ \A p : Where(s, i + 1, p) = Where(r, i, p)
           /\ \A f, p : Page(s, i + 1, f, p) = Page(r, i, f, p)
  <1>1. i + 1 \in Nat /\ i + 1 > 0 /\ i + 1 - 1 = i
    OBVIOUS
  <1>2. \A j \in 1..i : s[j].dirty = r[j].dirty /\ s[j].spill = r[j].spill
    OBVIOUS
  <1>3. /\ \A p : Where(s, i, p) = Where(r, i, p)
        /\ \A f, p : Page(s, i, f, p) = Page(r, i, f, p)
    BY <1>2, WhereSame
  <1>4. DOMAIN s[i + 1].dirty = {}
    OBVIOUS
  <1>5. ASSUME NEW p
        PROVE  Where(s, i + 1, p) = Where(r, i, p)
    <2>1. PICK n : n = i + 1
      OBVIOUS
    <2>2. Where(s, n, p) = IF p \in s[n].spill THEN 0
                           ELSE IF p \in DOMAIN s[n].dirty THEN n
                           ELSE Where(s, n - 1, p)
      BY <1>1, <2>1, WhereStep
    <2> QED
      BY <1>1, <1>3, <1>4, <2>1, <2>2
  <1>6. ASSUME NEW f, NEW p
        PROVE  Page(s, i + 1, f, p) = Page(r, i, f, p)
    <2>1. PICK n : n = i + 1
      OBVIOUS
    <2>2. Page(s, n, f, p) = IF p \in s[n].spill THEN f[p]
                             ELSE IF p \in DOMAIN s[n].dirty THEN s[n].dirty[p]
                             ELSE Page(s, n - 1, f, p)
      BY <1>1, <2>1, PageStep, SMTT(30)
    <2> QED
      BY <1>1, <1>3, <1>4, <2>1, <2>2
  <1> QED
    BY <1>5, <1>6

LEMMA ChildIs ==
    ASSUME IInv, Top > 0
    PROVE  /\ Child \in Txn /\ Begins(txns[Top], Child, pghead, pglast)
           /\ Append(txns, Child) \in Seq(Txn) /\ Len(Append(txns, Child)) = Top + 1
           /\ \A j \in 1..Top : Append(txns, Child)[j] = txns[j]
           /\ Append(txns, Child)[Top + 1] = Child
  <1>1. /\ txns \in Seq(Txn) /\ Top = Len(txns) /\ Top \in Nat /\ \A i \in 1..Top : txns[i] \in Txn
        /\ pghead \in SUBSET Pgs /\ pglast \in Lasts
    BY StackShape
  <1>2. PICK t, u, e, o, f : /\ t = txns[Top] /\ u = Child /\ e = <<>> /\ o = {}
                             /\ f = [p \in Pgs |-> 0]
    OBVIOUS
  <1>3. t \in Txn
    <2>1. Top \in 1..Top
      BY <1>1
    <2> QED
      BY <1>1, <1>2, <2>1
  <1>4. e \in Dirties
    <2>1. DOMAIN e \subseteq Pgs /\ e \in [DOMAIN e -> PageT]
      BY <1>2
    <2> QED
      BY <2>1, DirtyType
  <1>5. f \in [Pgs -> Nat] /\ e \in Seq(Pgs) /\ o \in SUBSET Pgs
    BY <1>2
  <1>6. u = [t EXCEPT !.dirty = e, !.spill = o, !.loose = e, !.free = f,
                      !.head0 = pghead, !.last0 = pglast]
    BY <1>2 DEF Child
  <1>7. /\ u \in Txn /\ u.dirty = e /\ u.spill = o /\ u.loose = e /\ u.free = f
        /\ u.head0 = pghead /\ u.last0 = pglast /\ u.room = t.room /\ u.next = t.next
        /\ u.root = t.root /\ u.error = t.error
    BY <1>1, <1>3, <1>4, <1>5, <1>6 DEF Txn
  <1>8. Begins(t, u, pghead, pglast)
    BY <1>2, <1>7 DEF Begins
  <1> QED
    BY <1>1, <1>2, <1>7, <1>8

(* mdb_cursor_shadow                                                       *)
LEMMA ShadowedIs ==
    ASSUME IInv, Top > 0, ~txns[Top].error, cur' = Shadowed, Top' = Top + 1, file' = file,
           \A j \in 1..Top : txns'[j] = txns[j], txns'[Top + 1].root = txns[Top].root,
           txns'[Top + 1].dirty = <<>>, txns'[Top + 1].spill = {}
    PROVE  CursorsOK' /\ cur' \in [Cursors -> Cursor]
  <1>1. Top \in Nat
    BY StackShape
  <1>2. SameTo(txns', Top)
    BY DEF SameTo
  <1>3. PICK s, n : s = txns' /\ n = Top
    OBVIOUS
  <1>4. /\ \A p : Where(s, n + 1, p) = Where(txns, n, p)
        /\ \A f, p : Page(s, n + 1, f, p) = Page(txns, n, f, p)
    BY <1>1, <1>3, BeginsSees
  <1>5. ASSUME NEW c \in Cursors
        PROVE  CursorOK(c)' /\ cur'[c] \in Cursor
    <2>1. PICK r : r = cur[c]
      OBVIOUS
    <2>2. /\ r \in Cursor /\ r.own \in Nat /\ r.backup \in Seq(Place) /\ Len(r.backup) \in Nat
          /\ r.own = 0 => r = Closed /\ r.backup = <<>>
          /\ r.own > 0 => r.own = Top /\ Len(r.backup) < Top
          /\ Backups(r, Top)
          /\ \A k \in DOMAIN r.backup : LevelOf(r, k) \in 1..(Top - 1)
          /\ r.own > 0 /\ ~txns[Top].error => PointsAt(r, txns, Top, file)
      BY <2>1, CursorIs
    <2>3. CASE r.own = 0
      <3>1. cur'[c] = Closed
        <4>1. ~Open(c)
          BY <2>1, <2>3 DEF Open
        <4>2. cur'[c] = cur[c]
          BY <4>1 DEF Shadowed
        <4> QED
          BY <2>1, <2>2, <2>3, <4>2
      <3> QED
        BY <1>1, <3>1, ClosedOK
    <2>4. CASE r.own > 0
      <3>1. PICK v, b : v = Saved(r) /\ b = Append(r.backup, v)
        OBVIOUS
      <3>2. PICK q : q = [r EXCEPT !.backup = b, !.own = n + 1]
        OBVIOUS
      <3>3. cur'[c] = q
        BY <1>3, <2>1, <2>2, <2>4, <3>1, <3>2 DEF Shadowed, Open
      <3>4. /\ v.at = r.at /\ v.root = r.root /\ v.leaf = r.leaf /\ v \in Place
        BY <2>2, <3>1 DEF Saved, Place, Cursor
      <3>5. PICK m : m = Len(r.backup)
        OBVIOUS
      <3>6. /\ b \in Seq(Place) /\ Len(b) = m + 1 /\ m \in Nat /\ m < Top
            /\ \A k \in 1..m : b[k] = r.backup[k] /\ k \in DOMAIN r.backup
            /\ b[m + 1] = v
        BY <2>2, <2>4, <3>1, <3>4, <3>5
      <3>7. /\ q \in Cursor /\ q.own = Top + 1 /\ q.at = r.at /\ q.root = r.root /\ q.leaf = r.leaf
            /\ q.backup = b
        <4>1. PICK k : k = n + 1
          OBVIOUS
        <4>2. k \in Nat /\ k = Top + 1
          BY <1>1, <1>3, <4>1
        <4>3. q = [r EXCEPT !.backup = b, !.own = k] /\ b \in Seq(Place)
          BY <3>2, <3>6, <4>1
        <4>4. r \in Cursor
          BY <2>2
        <4> QED
          BY <4>2, <4>3, <4>4 DEF Cursor
      <3>8. q.root \in Spots(Top') /\ q.leaf \in Spots(Top')
        <4>1. q.root \in Spots(Top) /\ q.leaf \in Spots(Top)
          BY <2>2, <3>7 DEF Backups
        <4>2. 0..Top \subseteq 0..(Top + 1)
          BY <1>1
        <4> QED
          BY <4>1, <4>2 DEF Spots
      <3>9. ASSUME NEW k \in DOMAIN q.backup
            PROVE  /\ q.backup[k].root \in Spots(LevelOf(q, k)') /\ q.backup[k].leaf \in Spots(LevelOf(q, k)')
                   /\ PointsAt(q.backup[k], txns, LevelOf(q, k), file)'
        <4>1. k \in 1..(m + 1) /\ q.backup[k] = b[k]
          BY <3>6, <3>7
        <4>2. PICK i : i = Top - m + k - 1
          OBVIOUS
        <4>3. LevelOf(q, k)' = i
          <5>1. LevelOf(q, k)' = Top' - Len(b) + k - 1
            BY <3>7 DEF LevelOf
          <5> QED
            BY <1>1, <3>6, <4>1, <4>2, <5>1
        <4>4. /\ b[k].root \in Spots(i) /\ b[k].leaf \in Spots(i)
              /\ PointsAt(b[k], txns, i, file) /\ i \in 1..Top
          <5>1. CASE k = m + 1
            <6>1. i = Top /\ b[k] = v
              BY <1>1, <3>6, <4>2, <5>1
            <6>2. PointsAt(v, txns, Top, file)
              BY <2>2, <2>4, <3>4 DEF PointsAt
            <6> QED
              BY <1>1, <2>2, <3>4, <6>1, <6>2 DEF Backups
          <5>2. CASE k # m + 1
            <6>1. k \in 1..m /\ k \in DOMAIN r.backup /\ b[k] = r.backup[k]
              BY <3>6, <4>1, <5>2
            <6>2. LevelOf(r, k) = i
              BY <3>5, <4>2 DEF LevelOf
            <6>3. i \in 1..Top
              BY <1>1, <2>2, <6>1, <6>2
            <6> QED
              BY <2>2, <6>1, <6>2, <6>3 DEF Backups
          <5> QED
            BY <5>1, <5>2
        <4>5. PointsAt(b[k], s, i, file)
          BY <1>1, <1>2, <1>3, <4>4, PointsSame
        <4> QED
          BY <1>3, <4>1, <4>3, <4>4, <4>5
      <3>10. PointsAt(q, s, n + 1, file)
        <4>1. PointsAt(r, txns, n, file)
          BY <1>3, <2>2, <2>4
        <4>2. s[n + 1].root = txns[n].root
          BY <1>3
        <4>3. Kids(s, n + 1, file) = Kids(txns, n, file)
          BY <1>4, <4>2 DEF Kids
        <4> QED
          BY <1>4, <3>7, <4>1, <4>2, <4>3 DEF PointsAt
      <3>11. Len(q.backup) < Top'
        BY <1>1, <3>6, <3>7
      <3>12. PointsAt(q, txns, Top, file)'
        BY <1>3, <3>10
      <3>13. q.own # 0 /\ q.own = Top'
        BY <1>1, <3>7
      <3>14. q.root \in Spots(Top)' /\ q.leaf \in Spots(Top)'
        BY <3>8 DEF Spots
      <3> QED
        BY <3>3, <3>7, <3>9, <3>11, <3>12, <3>13, <3>14 DEF CursorOK
    <2> QED
      BY <2>2, <2>3, <2>4
  <1>6. cur' = [c \in Cursors |-> cur'[c]]
    BY DEF Shadowed
  <1> QED
    BY <1>5, <1>6 DEF CursorsOK

(* mdb_txn_begin with a parent                                             *)
LEMMA BeginKeeps ==
    ASSUME IInv, Begin
    PROVE  IInv'
  <1>1. /\ Top > 0 /\ ~txns[Top].error /\ Top < MaxLevel /\ ending' = ending /\ ending = <<>>
        /\ file' = file /\ meta' = meta /\ pghead' = pghead /\ pglast' = pglast
        /\ txns' = Append(txns, Child) /\ sees' = Images(txns', file, meta) /\ cur' = Shadowed
    BY DEF Begin, CanWork, Blocked, Becomes
  <1>2. PICK s, u, n : s = txns' /\ u = Child /\ n = Top
    OBVIOUS
  <1>3. /\ s \in Seq(Txn) /\ Len(s) = Top + 1 /\ \A j \in 1..Top : s[j] = txns[j]
        /\ s[Top + 1] = u /\ Begins(txns[Top], u, pghead, pglast)
    BY <1>1, <1>2, ChildIs
  <1>4. /\ Top \in Nat /\ Top <= MaxLevel /\ MaxLevel \in Nat /\ Top = Len(txns)
        /\ \A j \in 1..(Top - 1) : ~txns[j].error
        /\ \A j \in 1..Top : txns[j] \in Txn
        /\ txns[1].head0 = {} /\ txns[1].last0 = 0
        /\ file \in Files /\ meta \in Pgs /\ pghead \in SUBSET Pgs /\ pglast \in Lasts
    BY <1>1, StackShape
  <1>5. Top' = Top + 1
    BY <1>2, <1>3 DEF Top
  <1>6. /\ u.dirty = <<>> /\ u.spill = {} /\ u.root = txns[Top].root /\ u.error = FALSE
        /\ u.head0 = pghead /\ u.last0 = pglast
    <2>1. txns[Top].error \in BOOLEAN
      <3>1. Top \in 1..Top
        BY <1>1, <1>4
      <3> QED
        BY <1>4, <3>1 DEF Txn
    <2> QED
      BY <1>1, <1>3, <2>1 DEF Begins
  <1>7. CursorsOK' /\ cur' \in [Cursors -> Cursor]
    BY <1>1, <1>2, <1>3, <1>5, <1>6, ShadowedIs
  <1>8. Types'
    <2>1. Stacked'
      <3>1. \A j \in 1..(Top + 1 - 1) : ~s[j].error
        <4> SUFFICES ASSUME NEW j \in 1..Top
                     PROVE  ~s[j].error
          BY <1>4
        <4>1. s[j] = txns[j] /\ (j = Top \/ j \in 1..(Top - 1))
          BY <1>3, <1>4
        <4> QED
          BY <1>1, <1>4, <4>1
      <3>2. s[1] = txns[1] /\ Top + 1 <= MaxLevel
        BY <1>1, <1>3, <1>4
      <3> QED
        BY <1>2, <1>3, <1>4, <1>5, <3>1, <3>2 DEF Stacked
    <2> QED
      BY <1>1, <1>4, <1>7, <2>1 DEF Types
  <1>9. \A j \in 1..Top : HeadOf(j)' = HeadOf(j) /\ LastOf(j)' = LastOf(j)
    <2> SUFFICES ASSUME NEW j \in 1..Top
                 PROVE  HeadOf(j)' = HeadOf(j) /\ LastOf(j)' = LastOf(j)
      OBVIOUS
    <2>1. HeadOf(j)' = s[j + 1].head0 /\ LastOf(j)' = s[j + 1].last0
      BY <1>2, <1>4, <1>5 DEF HeadOf, LastOf
    <2>2. CASE j = Top
      BY <1>3, <1>6, <2>1, <2>2 DEF HeadOf, LastOf
    <2>3. CASE j # Top
      <3>1. j + 1 \in 1..Top
        BY <1>4, <2>3
      <3> QED
        BY <1>3, <2>1, <2>3, <3>1 DEF HeadOf, LastOf
    <2> QED
      BY <2>2, <2>3
  <1>10. \E D \in Trees : LevelOK(s, file, pghead, pglast, Top + 1, D)
    <2>1. PICK D \in Trees : Level(Top, D)
      BY <1>1, WorkFine DEF IInv
    <2>2. HeadOf(Top) = pghead /\ LastOf(Top) = pglast
      BY DEF HeadOf, LastOf
    <2>3. /\ WellMade(D) /\ D.r = txns[Top].root /\ Shows(D, txns, Top, file)
          /\ ListsOK(txns, Top, txns[Top], pghead, pglast, PagesIn(D))
      BY <2>1, <2>2 DEF Level, LevelOK
    <2>4. PICK t, T : t = txns[Top] /\ T = PagesIn(D)
      OBVIOUS
    <2>5. t \in Txn /\ n > 0 /\ n \in Nat
      <3>1. Top \in 1..Top
        BY <1>1, <1>4
      <3> QED
        BY <1>1, <1>2, <1>4, <2>4, <3>1
    <2>6. ListsOK(txns, n, t, pghead, pglast, T) /\ Begins(t, u, pghead, pglast)
          /\ (\A j \in 1..n : s[j] = txns[j]) /\ s[n + 1] = u /\ t = txns[n]
      BY <1>2, <1>3, <2>3, <2>4
    <2>7. ListsOK(s, n + 1, u, pghead, pglast, T)
      BY <2>5, <2>6, MoveBegin
    <2>8. \A f, p : Page(s, n + 1, f, p) = Page(txns, n, f, p)
      BY <1>6, <2>5, <2>6, BeginsSees
    <2>9. Shows(D, s, n + 1, file)
      BY <1>2, <2>3, <2>8 DEF Shows
    <2>10. LevelOK(s, file, pghead, pglast, n + 1, D)
      BY <1>2, <1>6, <2>3, <2>4, <2>6, <2>7, <2>9 DEF LevelOK
    <2> QED
      BY <1>2, <2>1, <2>10
  <1>11. LevelsOK'
    <2>1. ASSUME NEW j \in 1..(Top + 1)
          PROVE  \E D \in Trees : LevelOK(s, file, HeadOf(j)', LastOf(j)', j, D)
      <3>1. CASE j = Top + 1
        <4>1. HeadOf(j)' = pghead /\ LastOf(j)' = pglast
          BY <1>1, <1>5, <3>1 DEF HeadOf, LastOf
        <4> QED
          BY <1>10, <3>1, <4>1
      <3>2. CASE j # Top + 1
        <4>1. j \in 1..Top
          BY <1>4, <3>2
        <4>2. ~txns[j].error
          <5>1. j = Top \/ j \in 1..(Top - 1)
            BY <1>4, <4>1
          <5> QED
            BY <1>1, <1>4, <5>1
        <4>3. \A k \in 1..j : s[k] = txns[k]
          BY <1>3, <1>4, <4>1
        <4>4. \E D \in Trees : LevelOK(s, file, HeadOf(j), LastOf(j), j, D)
          BY <4>1, <4>2, <4>3, LevelSame
        <4> QED
          BY <4>1, <4>4, <1>9
      <3> QED
        BY <3>1, <3>2
    <2> QED
      BY <2>1, <1>1, <1>2, <1>5 DEF LevelsOK
  <1>12. StoredOK'
    <2>1. /\ meta = HomeRoot
          /\ \E f \in {Stored(CHOOSE v \in Vals : TRUE)} : \A p \in HomeTree : file[p] = f[p]
      BY <1>1 DEF IInv, StoredOK
    <2> QED
      BY <1>1, <2>1 DEF StoredOK
  <1>13. Seeing'
    BY <1>1 DEF Seeing
  <1> QED
    BY <1>7, <1>8, <1>11, <1>12, <1>13 DEF IInv

-----------------------------------------------------------------------------
(* A child commits. *)

(* m is what becomes of the parent q with the lists of the child t.        *)
Joins(q, t, m) ==
  /\ DOMAIN m.dirty = (DOMAIN q.dirty \ t.spill) \cup DOMAIN t.dirty
  /\ \A p \in DOMAIN m.dirty : m.dirty[p] = IF p \in DOMAIN t.dirty THEN t.dirty[p] ELSE q.dirty[p]
  /\ m.spill = (q.spill \ DOMAIN t.dirty) \cup t.spill
  /\ \A p \in Pgs : m.free[p] = q.free[p] + t.free[p]
  /\ m.loose = q.loose \o t.loose
  /\ m.head0 = q.head0 /\ m.last0 = q.last0
  /\ m.room = t.room /\ m.next = t.next /\ m.root = t.root /\ m.error = t.error

(* One sequence after another.                                             *)
LEMMA ConcatIs ==
    ASSUME NEW S, NEW a \in Seq(S), NEW b \in Seq(S), NEW c, c = a \o b
    PROVE  /\ c \in Seq(S) /\ Len(c) = Len(a) + Len(b) /\ DOMAIN c = 1..Len(c)
           /\ DOMAIN a = 1..Len(a) /\ DOMAIN b = 1..Len(b)
           /\ \A x \in 1..Len(a) : c[x] = a[x]
           /\ \A x \in 1..Len(b) : c[Len(a) + x] = b[x]
           /\ Len(a) \in Nat /\ Len(b) \in Nat
  <1>1. Len(a) \in Nat /\ Len(b) \in Nat /\ DOMAIN a = 1..Len(a) /\ DOMAIN b = 1..Len(b)
    OBVIOUS
  <1>2. c \in Seq(S)
    OBVIOUS
  <1>3. Len(c) = Len(a) + Len(b)
    OBVIOUS
  <1>4. DOMAIN c = 1..Len(c)
    BY <1>2
  <1>5. \A x \in 1..Len(a) : c[x] = a[x]
    BY <1>1
  <1>6. ASSUME NEW x \in 1..Len(b)
        PROVE  c[Len(a) + x] = b[x]
    <2>1. Len(a) + x \in 1..(Len(a) + Len(b)) /\ Len(a) + x > Len(a) /\ Len(a) + x - Len(a) = x
      BY <1>1
    <2> QED
      BY <1>1, <2>1
  <1> QED
    BY <1>1, <1>2, <1>3, <1>4, <1>5, <1>6

(* What was found through both is found in the one.                        *)
Finds(s, i, r, k) ==
  /\ \A p : Where(s, i, p) = IF Where(r, k, p) = k THEN i ELSE Where(r, k, p)
  /\ \A f, p : Page(s, i, f, p) = Page(r, k, f, p)

(* The merged lists show what the child's did.                             *)
LEMMA JoinsSees ==
    ASSUME NEW r, NEW i \in Nat, i > 0, NEW k, k = i + 1, NEW q, NEW t, NEW m, q = r[i], t = r[k],
           Joins(q, t, m),
           NEW s, \A j \in 1..(i - 1) : s[j] = r[j], s[i] = m
    PROVE  Finds(s, i, r, k)
  <1>1. i + 1 \in Nat /\ i + 1 > 0 /\ i + 1 - 1 = i /\ i - 1 \in Nat
    OBVIOUS
  <1>2. PICK n : n = i - 1
    OBVIOUS
  <1>3. /\ k \in Nat /\ k > 0 /\ k - 1 = i /\ n \in Nat /\ t = r[k] /\ i # k /\ n < i
        /\ \A j \in 1..n : s[j].dirty = r[j].dirty /\ s[j].spill = r[j].spill
    BY <1>1, <1>2
  <1>4. /\ \A p : Where(s, n, p) = Where(r, n, p) /\ Where(r, n, p) \in 0..n
        /\ \A f, p : Page(s, n, f, p) = Page(r, n, f, p)
    <2>1. /\ \A p : Where(s, n, p) = Where(r, n, p)
          /\ \A f, p : Page(s, n, f, p) = Page(r, n, f, p)
      BY <1>3, WhereSame
    <2>2. \A p : Where(r, n, p) \in 0..n
      BY <1>3, WhereType
    <2> QED
      BY <2>1, <2>2
  <1>5. /\ DOMAIN m.dirty = (DOMAIN q.dirty \ t.spill) \cup DOMAIN t.dirty
        /\ \A p \in DOMAIN m.dirty : m.dirty[p] = IF p \in DOMAIN t.dirty THEN t.dirty[p] ELSE q.dirty[p]
        /\ m.spill = (q.spill \ DOMAIN t.dirty) \cup t.spill
    BY DEF Joins
  <1>6. ASSUME NEW p
        PROVE  Where(s, i, p) = IF Where(r, k, p) = k THEN i ELSE Where(r, k, p)
    <2>1. Where(s, i, p) = IF p \in m.spill THEN 0
                           ELSE IF p \in DOMAIN m.dirty THEN i ELSE Where(s, n, p)
      BY <1>2, WhereStep
    <2>2. Where(r, k, p) = IF p \in t.spill THEN 0
                           ELSE IF p \in DOMAIN t.dirty THEN k ELSE Where(r, i, p)
      BY <1>3, WhereStep
    <2>3. Where(r, i, p) = IF p \in q.spill THEN 0
                           ELSE IF p \in DOMAIN q.dirty THEN i ELSE Where(r, n, p)
      BY <1>2, WhereStep
    <2>4. Where(s, n, p) = Where(r, n, p) /\ Where(r, n, p) \in 0..n /\ k # 0 /\ Where(r, n, p) # k
      BY <1>3, <1>4
    <2>5. CASE p \in t.spill
      BY <1>3, <1>5, <2>1, <2>2, <2>4, <2>5
    <2>6. CASE p \notin t.spill /\ p \in DOMAIN t.dirty
      BY <1>3, <1>5, <2>1, <2>2, <2>6
    <2>7. CASE p \notin t.spill /\ p \notin DOMAIN t.dirty
      BY <1>3, <1>5, <2>1, <2>2, <2>3, <2>4, <2>7
    <2> QED
      BY <2>5, <2>6, <2>7
  <1>7. ASSUME NEW f, NEW p
        PROVE  Page(s, i, f, p) = Page(r, k, f, p)
    <2>1. Page(s, i, f, p) = IF p \in m.spill THEN f[p]
                             ELSE IF p \in DOMAIN m.dirty THEN m.dirty[p] ELSE Page(s, n, f, p)
      BY <1>2, PageStep
    <2>2. Page(r, k, f, p) = IF p \in t.spill THEN f[p]
                             ELSE IF p \in DOMAIN t.dirty THEN t.dirty[p] ELSE Page(r, i, f, p)
      <3>1. Page(r, k, f, p) = IF p \in r[k].spill THEN f[p]
                               ELSE IF p \in DOMAIN r[k].dirty THEN r[k].dirty[p]
                               ELSE Page(r, k - 1, f, p)
        <4>1. k \in Nat /\ k > 0
          BY <1>3
        <4> QED
          BY <4>1, PageStep
      <3> QED
        BY <1>3, <3>1
    <2>3. Page(r, i, f, p) = IF p \in q.spill THEN f[p]
                             ELSE IF p \in DOMAIN q.dirty THEN q.dirty[p] ELSE Page(r, n, f, p)
      BY <1>2, PageStep
    <2>4. Page(s, n, f, p) = Page(r, n, f, p)
      BY <1>4
    <2>5. CASE p \in t.spill
      BY <1>5, <2>1, <2>2, <2>5
    <2>6. CASE p \notin t.spill /\ p \in DOMAIN t.dirty
      BY <1>5, <2>1, <2>2, <2>6
    <2>7. CASE p \notin t.spill /\ p \notin DOMAIN t.dirty
      BY <1>5, <2>1, <2>2, <2>3, <2>4, <2>7
    <2> QED
      BY <2>5, <2>6, <2>7
  <1> QED
    BY <1>6, <1>7 DEF Finds

(* The merged lists are right at the parent's level.                       *)
LEMMA MoveJoin ==
    ASSUME NEW r, NEW i \in Nat, i > 0, NEW q \in Txn, NEW t \in Txn, NEW m \in Txn,
           q = r[i], t = r[i + 1], Joins(q, t, m), NEW h, NEW l, NEW T,
           ListsOK(r, i + 1, t, h, l, T), NEW h1, NEW l1, NEW T1, ListsOK(r, i, q, h1, l1, T1),
           NEW s, \A j \in 1..(i - 1) : s[j] = r[j], s[i] = m
    PROVE  ListsOK(s, i, m, h, l, T)
  <1>1. PICK k, n : k = i + 1 /\ n = i - 1
    OBVIOUS
  <1>2. /\ k \in Nat /\ k > 0 /\ k - 1 = i /\ n \in Nat /\ n < i /\ t = r[k]
        /\ \A j \in 1..n : s[j] = r[j]
        /\ \A j \in 1..i : j = i \/ j \in 1..n
        /\ \A j \in 1..n : j \in 1..i
        /\ i \in 1..i
    BY <1>1
  <1>3. Apart(t) /\ RoomOK(r, k, t) /\ LooseOK(r, k, t) /\ FreeOK(r, k, t)
        /\ UseOK(r, k, t, h, l, T) /\ FreshOK(r, k, t, h, l) /\ Within(r, k, t, h, l)
    BY <1>1 DEF ListsOK
  <1>4. Apart(q) /\ RoomOK(r, i, q) /\ LooseOK(r, i, q) /\ FreeOK(r, i, q)
        /\ Within(r, i, q, h1, l1)
    BY DEF ListsOK
  <1>5. /\ DOMAIN m.dirty = (DOMAIN q.dirty \ t.spill) \cup DOMAIN t.dirty
        /\ m.spill = (q.spill \ DOMAIN t.dirty) \cup t.spill
        /\ \A p \in Pgs : m.free[p] = q.free[p] + t.free[p]
        /\ m.loose = q.loose \o t.loose
        /\ m.head0 = q.head0 /\ m.last0 = q.last0
        /\ m.room = t.room /\ m.next = t.next
    BY DEF Joins
  <1>6. /\ q.loose \in Seq(Pgs) /\ t.loose \in Seq(Pgs)
        /\ \A p \in Pgs : q.free[p] \in Nat /\ t.free[p] \in Nat
        /\ DOMAIN q.dirty \subseteq Pgs /\ DOMAIN t.dirty \subseteq Pgs /\ DOMAIN m.dirty \subseteq Pgs
    BY DirtyType DEF Txn
  <1>7. /\ LooseIn(r, i) = ToSet(q.loose) \cup LooseIn(r, n)
        /\ HeldTo(r, i) = Held(q) \cup HeldTo(r, n)
        /\ \A p \in Pgs : p \in FreedIn(r, i) <=> q.free[p] > 0 \/ p \in FreedIn(r, n)
    <2>1. LooseIn(r, i) = ToSet(q.loose) \cup LooseIn(r, n)
      BY <1>2 DEF LooseIn
    <2>2. HeldTo(r, i) = Held(q) \cup HeldTo(r, n)
      BY <1>2 DEF HeldTo
    <2>3. \A p \in Pgs : p \in FreedIn(r, i) <=> q.free[p] > 0 \/ p \in FreedIn(r, n)
      BY <1>2 DEF FreedIn
    <2> QED
      BY <2>1, <2>2, <2>3
  <1>8. LooseIn(s, n) = LooseIn(r, n) /\ FreedIn(s, n) = FreedIn(r, n) /\ HeldTo(s, n) = HeldTo(r, n)
    BY <1>2 DEF LooseIn, FreedIn, HeldTo
  <1>9. SeenTo(s, n) = SeenTo(r, n)
    <2>1. \A j \in 1..n : s[j].dirty = r[j].dirty /\ s[j].spill = r[j].spill
      BY <1>2
    <2>2. \A p : Where(s, n, p) = Where(r, n, p)
      BY <1>2, <2>1, WhereSame
    <2> QED
      BY <2>2 DEF SeenTo
  <1>10. /\ ToSet(t.loose) \subseteq DOMAIN t.dirty /\ ToSet(q.loose) \subseteq DOMAIN q.dirty
         /\ \A a, b \in DOMAIN t.loose : t.loose[a] = t.loose[b] => a = b
         /\ \A a, b \in DOMAIN q.loose : q.loose[a] = q.loose[b] => a = b
         /\ LooseIn(r, i) \cap Held(t) = {} /\ LooseIn(r, n) \cap Held(q) = {}
    BY <1>1, <1>2, <1>3, <1>4 DEF LooseOK
  <1>11. Held(m) \subseteq Held(q) \cup Held(t)
    BY <1>5 DEF Held
  <1>12. Apart(m)
    BY <1>3, <1>4, <1>5 DEF Apart
  <1>13. RoomOK(s, i, m)
    <2>1. Seen(t, SeenTo(r, i)) = Seen(m, SeenTo(r, n))
      <3>1. SeenTo(r, i) = Seen(q, SeenTo(r, n)) \cap Pgs
        BY <1>1, <1>4, SeenIs
      <3>2. Seen(q, SeenTo(r, n)) \subseteq Pgs
        BY <1>6 DEF Seen, SeenTo
      <3>3. SeenTo(r, i) = Seen(q, SeenTo(r, n))
        BY <3>1, <3>2
      <3>4. PICK V : V = SeenTo(r, n)
        OBVIOUS
      <3>5. ASSUME NEW p
            PROVE  p \in Seen(t, Seen(q, V)) <=> p \in Seen(m, V)
        BY <1>3, <1>4, <1>5 DEF Seen, Held, Apart
      <3> QED
        BY <3>3, <3>4, <3>5
    <2>2. t.room = DirtyMax - Cardinality(Seen(t, SeenTo(r, i)))
      BY <1>2, <1>3 DEF RoomOK
    <2> QED
      BY <1>1, <1>5, <1>9, <2>1, <2>2 DEF RoomOK
  <1>14. ToSet(m.loose) = ToSet(q.loose) \cup ToSet(t.loose)
    <2>1. PICK a, b, c : a = q.loose /\ b = t.loose /\ c = a \o b
      OBVIOUS
    <2>2. /\ a \in Seq(Pgs) /\ b \in Seq(Pgs) /\ c \in Seq(Pgs) /\ Len(c) = Len(a) + Len(b)
          /\ \A x \in 1..Len(a) : c[x] = a[x]
          /\ \A x \in 1..Len(b) : c[Len(a) + x] = b[x]
          /\ Len(a) \in Nat /\ Len(b) \in Nat
      <3>1. a \in Seq(Pgs) /\ b \in Seq(Pgs) /\ c = a \o b
        BY <1>6, <2>1
      <3> QED
        BY <3>1, ConcatIs
    <2>3. ASSUME NEW y \in ToSet(c)
          PROVE  y \in ToSet(a) \cup ToSet(b)
      <3>1. PICK x \in 1..Len(c) : y = c[x]
        BY <2>2, <2>3 DEF ToSet
      <3>2. CASE x <= Len(a)
        <4>1. x \in 1..Len(a) /\ y = a[x]
          BY <2>2, <3>1, <3>2
        <4> QED
          BY <2>2, <4>1 DEF ToSet
      <3>3. CASE x > Len(a)
        <4>1. x - Len(a) \in 1..Len(b) /\ Len(a) + (x - Len(a)) = x
          BY <2>2, <3>1, <3>3
        <4>2. y = b[x - Len(a)]
          BY <2>2, <3>1, <4>1
        <4> QED
          BY <2>2, <4>1, <4>2 DEF ToSet
      <3> QED
        BY <2>2, <3>1, <3>2, <3>3
    <2>4. ASSUME NEW y \in ToSet(a)
          PROVE  y \in ToSet(c)
      <3>1. PICK x \in 1..Len(a) : y = a[x]
        BY <2>2, <2>4 DEF ToSet
      <3>2. x \in 1..Len(c) /\ y = c[x]
        BY <2>2, <3>1
      <3> QED
        BY <2>2, <3>2 DEF ToSet
    <2>5. ASSUME NEW y \in ToSet(b)
          PROVE  y \in ToSet(c)
      <3>1. PICK x \in 1..Len(b) : y = b[x]
        BY <2>2, <2>5 DEF ToSet
      <3>2. Len(a) + x \in 1..Len(c) /\ y = c[Len(a) + x]
        BY <2>2, <3>1
      <3> QED
        BY <2>2, <3>2 DEF ToSet
    <2> QED
      BY <1>5, <2>1, <2>3, <2>4, <2>5
  <1>15. LooseOK(s, i, m)
    <2>1. ToSet(m.loose) \subseteq DOMAIN m.dirty
      BY <1>5, <1>7, <1>10, <1>14 DEF Held
    <2>2. \A a, b \in DOMAIN m.loose : m.loose[a] = m.loose[b] => a = b
      <3>1. PICK a, b, c : a = q.loose /\ b = t.loose /\ c = a \o b
        OBVIOUS
      <3>2. /\ a \in Seq(Pgs) /\ b \in Seq(Pgs) /\ Len(c) = Len(a) + Len(b) /\ DOMAIN c = 1..Len(c)
            /\ \A x \in 1..Len(a) : c[x] = a[x] /\ x \in DOMAIN a
            /\ \A x \in 1..Len(b) : c[Len(a) + x] = b[x] /\ x \in DOMAIN b
            /\ Len(a) \in Nat /\ Len(b) \in Nat
        <4>1. a \in Seq(Pgs) /\ b \in Seq(Pgs) /\ c = a \o b
          BY <1>6, <3>1
        <4>2. /\ Len(c) = Len(a) + Len(b) /\ DOMAIN c = 1..Len(c)
              /\ DOMAIN a = 1..Len(a) /\ DOMAIN b = 1..Len(b)
              /\ \A x \in 1..Len(a) : c[x] = a[x]
              /\ \A x \in 1..Len(b) : c[Len(a) + x] = b[x]
              /\ Len(a) \in Nat /\ Len(b) \in Nat
          BY <4>1, ConcatIs
        <4> QED
          BY <4>1, <4>2
      <3>3. \A x \in 1..Len(a), y \in 1..Len(b) : a[x] # b[y]
        <4>1. \A x \in 1..Len(a) : a[x] \in ToSet(q.loose)
          BY <3>1, <3>2 DEF ToSet
        <4>2. \A y \in 1..Len(b) : b[y] \in ToSet(t.loose)
          BY <3>1, <3>2 DEF ToSet
        <4> QED
          BY <4>1, <4>2, <1>7, <1>10 DEF Held
      <3>4. ASSUME NEW x \in DOMAIN c, NEW y \in DOMAIN c, c[x] = c[y]
            PROVE  x = y
        <4>1. x \in 1..Len(a) \/ x - Len(a) \in 1..Len(b)
          BY <3>2
        <4>2. y \in 1..Len(a) \/ y - Len(a) \in 1..Len(b)
          BY <3>2
        <4>3. x - Len(a) \in 1..Len(b) => c[x] = b[x - Len(a)] /\ x - Len(a) \in DOMAIN b
          <5>1. Len(a) + (x - Len(a)) = x
            BY <3>2
          <5> QED
            BY <3>2, <5>1
        <4>4. y - Len(a) \in 1..Len(b) => c[y] = b[y - Len(a)] /\ y - Len(a) \in DOMAIN b
          <5>1. Len(a) + (y - Len(a)) = y
            BY <3>2
          <5> QED
            BY <3>2, <5>1
        <4>5. CASE x \in 1..Len(a) /\ y \in 1..Len(a)
          BY <1>10, <3>1, <3>2, <3>4, <4>5
        <4>6. CASE x - Len(a) \in 1..Len(b) /\ y - Len(a) \in 1..Len(b)
          <5>1. x - Len(a) = y - Len(a)
            BY <1>10, <3>1, <3>4, <4>3, <4>4, <4>6
          <5> QED
            BY <3>2, <5>1
        <4>7. CASE x \in 1..Len(a) /\ y - Len(a) \in 1..Len(b)
          BY <3>2, <3>3, <3>4, <4>4, <4>7
        <4>8. CASE x - Len(a) \in 1..Len(b) /\ y \in 1..Len(a)
          BY <3>2, <3>3, <3>4, <4>3, <4>8
        <4> QED
          BY <4>1, <4>2, <4>5, <4>6, <4>7, <4>8
      <3>5. m.loose = c
        BY <1>5, <3>1
      <3> QED
        BY <3>4, <3>5
    <2>3. LooseIn(s, n) \cap Held(m) = {}
      BY <1>7, <1>8, <1>10, <1>11
    <2> QED
      BY <1>1, <2>1, <2>2, <2>3 DEF LooseOK
  <1>16. \A p \in Pgs : /\ t.free[p] > 0 => t.free[p] = 1 /\ p \notin FreedIn(r, i)
                        /\ q.free[p] > 0 => q.free[p] = 1 /\ p \notin FreedIn(r, n)
    BY <1>1, <1>2, <1>3, <1>4 DEF FreeOK
  <1>17. FreeOK(s, i, m)
    <2> SUFFICES ASSUME NEW p \in Pgs, m.free[p] > 0
                 PROVE  m.free[p] = 1 /\ p \notin FreedIn(r, n)
      BY <1>1, <1>8 DEF FreeOK
    <2>1. q.free[p] \in Nat /\ t.free[p] \in Nat /\ m.free[p] = q.free[p] + t.free[p]
      BY <1>5, <1>6
    <2>2. CASE t.free[p] > 0
      <3>1. ~(q.free[p] > 0) /\ p \notin FreedIn(r, n) /\ t.free[p] = 1
        BY <1>7, <1>16, <2>2
      <3> QED
        BY <2>1, <3>1
    <2>3. CASE ~(t.free[p] > 0)
      <3>1. q.free[p] > 0 /\ t.free[p] = 0
        BY <2>1, <2>3
      <3> QED
        BY <1>16, <2>1, <3>1
    <2> QED
      BY <2>2, <2>3
  <1>18. UseOK(s, i, m, h, l, T)
    <2> SUFFICES ASSUME NEW p \in Pgs
                 PROVE  OneOf(p \in T, p \in h, p \in UnreadAfter(l),
                       m.free[p] > 0 \/ p \in FreedIn(s, n),
                       p \in ToSet(m.loose) \/ p \in LooseIn(s, n), p \in From(m.next))
      BY <1>1 DEF UseOK
    <2>1. OneOf(p \in T, p \in h, p \in UnreadAfter(l),
                t.free[p] > 0 \/ p \in FreedIn(r, i),
                p \in ToSet(t.loose) \/ p \in LooseIn(r, i), p \in From(t.next))
      BY <1>2, <1>3 DEF UseOK
    <2>2. m.free[p] > 0 <=> q.free[p] > 0 \/ t.free[p] > 0
      BY <1>5, <1>6
    <2>3. m.free[p] > 0 \/ p \in FreedIn(s, n) <=> t.free[p] > 0 \/ p \in FreedIn(r, i)
      BY <1>7, <1>8, <2>2
    <2>4. p \in ToSet(m.loose) \/ p \in LooseIn(s, n) <=> p \in ToSet(t.loose) \/ p \in LooseIn(r, i)
      BY <1>7, <1>8, <1>14
    <2> QED
      BY <1>5, <2>1, <2>3, <2>4 DEF OneOf
  <1>19. FreshOK(s, i, m, h, l)
    <2>1. FreshIn(h, l, t.next) \cap (Held(t) \cup HeldTo(r, i)) = {}
      BY <1>2, <1>3 DEF FreshOK
    <2>2. Held(m) \cup HeldTo(s, n) \subseteq Held(t) \cup HeldTo(r, i)
      BY <1>7, <1>8, <1>11
    <2>3. FreshIn(h, l, m.next) \cap (Held(m) \cup HeldTo(s, n)) = {}
      BY <1>5, <2>1, <2>2
    <2> QED
      BY <1>1, <2>3 DEF FreshOK
  <1>20. Within(s, i, m, h, l)
    <2> SUFFICES ASSUME NEW k1 \in 0..n
                 PROVE  /\ FreshIn(h, l, m.next) \subseteq FreshAt(s, k1)
                        /\ Held(m) \subseteq FreshAt(s, k1) \cup HeldTo(s, k1)
      BY <1>1 DEF Within
    <2>1. k1 \in 0..(i - 1) /\ k1 \in 0..(k - 1) /\ k1 \in Nat /\ k1 + 1 \in 1..i
      BY <1>1, <1>2
    <2>2. s[k1 + 1].head0 = r[k1 + 1].head0 /\ s[k1 + 1].last0 = r[k1 + 1].last0
      <3>1. CASE k1 + 1 = i
        BY <1>5, <3>1
      <3>2. CASE k1 + 1 # i
        <4>1. k1 + 1 \in 1..n
          BY <1>2, <2>1, <3>2
        <4> QED
          BY <1>2, <4>1
      <3> QED
        BY <3>1, <3>2
    <2>3. NextAt(s, k1) = NextAt(r, k1)
      <3>1. k1 # 0 => k1 \in 1..n
        BY <1>2, <2>1
      <3> QED
        BY <1>2, <3>1 DEF NextAt
    <2>4. FreshAt(s, k1) = FreshAt(r, k1)
      BY <2>2, <2>3 DEF FreshAt
    <2>5. HeldTo(s, k1) = HeldTo(r, k1)
      <3>1. \A j \in 1..k1 : j \in 1..n
        BY <1>2, <2>1
      <3> QED
        BY <1>2, <3>1 DEF HeldTo
    <2>6. FreshIn(h, l, t.next) \subseteq FreshAt(r, k1) /\ Held(t) \subseteq FreshAt(r, k1) \cup HeldTo(r, k1)
      BY <1>3, <2>1 DEF Within
    <2>7. Held(q) \subseteq FreshAt(r, k1) \cup HeldTo(r, k1)
      BY <1>4, <2>1 DEF Within
    <2> QED
      BY <1>5, <1>11, <2>4, <2>5, <2>6, <2>7
  <1> QED
    BY <1>12, <1>13, <1>15, <1>17, <1>18, <1>19, <1>20 DEF ListsOK

(* What mdb_txn_commit makes of the two.                                   *)
LEMMA MergedIs ==
    ASSUME NEW q \in Txn, NEW t \in Txn
    PROVE  /\ MergedInto(q, t) \in Txn /\ Joins(q, t, MergedInto(q, t))
           /\ Half(q, t) \in Txn /\ Half(q, t).error
           /\ Half(q, t).head0 = q.head0 /\ Half(q, t).last0 = q.last0
  <1>1. PICK d, e, f, l : /\ d = MergedDirty(q, t) /\ e = MergedSpill(q, t)
                          /\ f = [p \in Pgs |-> q.free[p] + t.free[p]] /\ l = q.loose \o t.loose
    OBVIOUS
  <1>2. /\ DOMAIN q.dirty \subseteq Pgs /\ q.dirty \in [DOMAIN q.dirty -> PageT]
        /\ DOMAIN t.dirty \subseteq Pgs /\ t.dirty \in [DOMAIN t.dirty -> PageT]
    BY DirtyType DEF Txn
  <1>3. /\ DOMAIN d = (DOMAIN q.dirty \ t.spill) \cup DOMAIN t.dirty
        /\ \A p \in DOMAIN d : d[p] = IF p \in DOMAIN t.dirty THEN t.dirty[p] ELSE q.dirty[p]
        /\ d = [p \in DOMAIN d |-> d[p]]
    BY <1>1 DEF MergedDirty
  <1>4. d \in Dirties
    <2>1. \A p \in DOMAIN d : d[p] \in PageT
      BY <1>2, <1>3
    <2> QED
      BY <1>2, <1>3, <2>1, DirtyType
  <1>5. e = (q.spill \ DOMAIN t.dirty) \cup t.spill /\ e \in SUBSET Pgs
    BY <1>1 DEF MergedSpill, Txn
  <1>6. f \in [Pgs -> Nat] /\ \A p \in Pgs : f[p] = q.free[p] + t.free[p]
    <2>1. \A p \in Pgs : q.free[p] \in Nat /\ t.free[p] \in Nat
      BY DEF Txn
    <2> QED
      BY <1>1, <2>1
  <1>7. l \in Seq(Pgs)
    <2>1. q.loose \in Seq(Pgs) /\ t.loose \in Seq(Pgs)
      BY DEF Txn
    <2> QED
      BY <1>1, <2>1, ConcatIs
  <1>8. PICK m : m = MergedInto(q, t)
    OBVIOUS
  <1>9. m = [t EXCEPT !.dirty = d, !.spill = e, !.free = f, !.loose = l,
                      !.head0 = q.head0, !.last0 = q.last0]
    BY <1>1, <1>8 DEF MergedInto
  <1>10. q.head0 \in SUBSET Pgs /\ q.last0 \in Lasts
    BY DEF Txn
  <1>11. /\ m \in Txn /\ m.dirty = d /\ m.spill = e /\ m.free = f /\ m.loose = l
         /\ m.head0 = q.head0 /\ m.last0 = q.last0
         /\ m.room = t.room /\ m.next = t.next /\ m.root = t.root /\ m.error = t.error
    BY <1>4, <1>5, <1>6, <1>7, <1>9, <1>10 DEF Txn
  <1>12. Joins(q, t, m)
    BY <1>1, <1>3, <1>5, <1>6, <1>11 DEF Joins
  <1>13. PICK h, x : h = Half(q, t) /\ x = q.spill \ DOMAIN t.dirty
    OBVIOUS
  <1>14. x \in SUBSET Pgs
    BY <1>13 DEF Txn
  <1>15. h = [m EXCEPT !.error = TRUE, !.spill = x]
    BY <1>8, <1>13 DEF Half
  <1>16. h \in Txn /\ h.error /\ h.head0 = q.head0 /\ h.last0 = q.last0
    BY <1>11, <1>14, <1>15 DEF Txn
  <1> QED
    BY <1>8, <1>11, <1>12, <1>13, <1>16

(* What the parent finds where the child found it.                         *)
TakesOver(s) ==
  /\ s[Top - 1].root = txns[Top].root
  /\ \A p : Where(s, Top - 1, p) = IF Where(txns, Top, p) = Top THEN Top - 1 ELSE Where(txns, Top, p)
  /\ \A f, p : Page(s, Top - 1, f, p) = Page(txns, Top, f, p)

(* mdb_cursors_close of a child that commits.                              *)
LEMMA GivenBackKeep ==
    ASSUME IInv, Top > 1, ~txns[Top].error, cur' = CursorsClosed(TRUE), Top' = Top - 1, file' = file,
           SameTo(txns', Top - 2), txns'[Top - 1].error \/ TakesOver(txns')
    PROVE  CursorsOK' /\ cur' \in [Cursors -> Cursor]
  <1>1. ASSUME NEW c \in Cursors
        PROVE  CursorOK(c)' /\ cur'[c] \in Cursor
    <2>1. PICK r : r = cur[c]
      OBVIOUS
    <2>2. Top - 1 \in Nat /\ Top \in Nat
      BY StackShape
    <2>3. CASE r.backup = <<>>
      <3>1. cur'[c] = Closed
        BY <2>1, <2>3 DEF CursorsClosed
      <3> QED
        BY <2>2, <3>1, ClosedOK
    <2>4. CASE r.backup # <<>>
      <3>1. PICK x, y, b : x = Inherited(r.root) /\ y = Inherited(r.leaf) /\ b = Front(r.backup)
        OBVIOUS
      <3>2. PICK q, n : n = Top - 1 /\ q = [r EXCEPT !.own = n, !.root = x, !.leaf = y, !.backup = b]
        OBVIOUS
      <3>3. /\ r \in Cursor /\ r.own \in Nat
            /\ r.own = 0 => r = Closed /\ r.backup = <<>>
            /\ Backups(r, Top)
            /\ r.own > 0 /\ ~txns[Top].error => PointsAt(r, txns, Top, file)
        BY <2>1, CursorIs
      <3>4. PointsAt(r, txns, Top, file)
        BY <2>4, <3>3
      <3>5. cur'[c] = q
        BY <2>1, <2>4, <3>1, <3>2, <3>3 DEF CursorsClosed, GivenBack, Cursor
      <3>6. q.backup = b
        BY <3>2, <3>3 DEF Cursor
      <3>7. /\ b \in Seq(Place) /\ Len(b) < Top - 1
            /\ Top - 1 \in Nat \ {0}
            /\ \A k \in DOMAIN q.backup :
                 /\ q.backup[k].root \in Spots(LevelOf(q, k)') /\ q.backup[k].leaf \in Spots(LevelOf(q, k)')
                 /\ PointsAt(q.backup[k], txns, LevelOf(q, k), file)'
        <4>1. q.backup = Front(r.backup)
          BY <3>1, <3>6
        <4> QED
          BY <2>1, <2>4, <3>6, <4>1, BackupsKept
      <3>8. ASSUME NEW z \in Spots(Top)
            PROVE  Inherited(z) \in Spots(n) /\ Inherited(z) \in Spot
        <4>1. z[1] \in 0..Top /\ z[2] \in Opt /\ z = <<z[1], z[2]>>
          BY <3>8 DEF Spots
        <4>2. CASE z[1] = Top
          BY <2>2, <3>2, <3>7, <4>1, <4>2 DEF Inherited, Spots, Spot
        <4>3. CASE z[1] # Top
          <5>1. Inherited(z) = z /\ z[1] \in 0..n /\ z[1] \in Nat
            BY <2>2, <3>2, <4>1, <4>3 DEF Inherited
          <5> QED
            BY <4>1, <5>1 DEF Spots, Spot
        <4> QED
          BY <4>2, <4>3
      <3>9. x \in Spots(n) /\ y \in Spots(n) /\ x \in Spot /\ y \in Spot
        BY <3>1, <3>3, <3>8 DEF Backups
      <3>10. /\ q \in Cursor /\ q.own = n /\ q.at = r.at /\ q.root = x /\ q.leaf = y
        <4>1. n \in Nat
          BY <2>2, <3>2
        <4> QED
          BY <3>2, <3>3, <3>7, <3>9, <4>1 DEF Cursor
      <3>11. ASSUME TakesOver(txns')
             PROVE  PointsAt(q, txns, Top, file)'
        <4>1. PICK s : s = txns'
          OBVIOUS
        <4>2. /\ s[n].root = txns[Top].root
              /\ \A p : Where(s, n, p) = IF Where(txns, Top, p) = Top THEN n ELSE Where(txns, Top, p)
              /\ \A f, p : Page(s, n, f, p) = Page(txns, Top, f, p)
          BY <3>2, <3>11, <4>1 DEF TakesOver
        <4>3. Kids(s, n, file) = Kids(txns, Top, file)
          BY <4>2 DEF Kids
        <4>4. \A p : Inherited(<<Where(txns, Top, p), p>>) = <<Where(s, n, p), p>>
          BY <3>2, <4>2 DEF Inherited
        <4>5. PointsAt(q, s, n, file)
          <5>1. CASE r.at = NoNode
            <6>1. r.leaf = NotAt
              BY <3>4, <5>1 DEF PointsAt
            <6>2. y = NotAt
              BY <2>2, <3>1, <3>7, <6>1 DEF Inherited, NotAt
            <6> QED
              BY <3>10, <5>1, <6>2 DEF PointsAt
          <5>2. CASE r.at # NoNode
            <6>1. PICK p : p = Kids(txns, Top, file)[r.at]
              OBVIOUS
            <6>2. /\ r.root = <<Where(txns, Top, txns[Top].root), txns[Top].root>>
                  /\ p # NoPage /\ r.leaf = <<Where(txns, Top, p), p>>
              BY <3>4, <5>2, <6>1 DEF PointsAt
            <6>3. x = <<Where(s, n, s[n].root), s[n].root>> /\ y = <<Where(s, n, p), p>>
              BY <3>1, <4>2, <4>4, <6>2
            <6> QED
              BY <3>10, <4>3, <5>2, <6>1, <6>2, <6>3 DEF PointsAt
          <5> QED
            BY <5>1, <5>2
        <4> QED
          BY <3>2, <4>1, <4>5
      <3>12. q.own # 0 /\ q.own = Top' /\ Len(q.backup) < Top'
        BY <3>2, <3>6, <3>7, <3>10
      <3>13. q.root \in Spots(Top)' /\ q.leaf \in Spots(Top)'
        BY <3>2, <3>9, <3>10 DEF Spots
      <3>14. ~txns'[Top'].error => PointsAt(q, txns, Top, file)'
        BY <3>11
      <3> QED
        BY <3>5, <3>7, <3>10, <3>12, <3>13, <3>14 DEF CursorOK
    <2> QED
      BY <2>3, <2>4
  <1>2. cur' = [c \in Cursors |-> cur'[c]]
    BY DEF CursorsClosed
  <1> QED
    BY <1>1, <1>2 DEF CursorsOK

(* One transaction takes the place of the two.                             *)
LEMMA MergedKeeps ==
    ASSUME IInv, Top > 1, ~txns[Top].error, NEW m \in Txn,
           m.head0 = txns[Top - 1].head0, m.last0 = txns[Top - 1].last0,
           m.error \/ Joins(txns[Top - 1], txns[Top], m),
           Becomes(Append(SubSeq(txns, 1, Top - 2), m), file, meta), cur' = CursorsClosed(TRUE),
           pghead' = pghead, pglast' = pglast,
           NEW i, i \in 1..Top, NEW how \in {"commit", "abort"}, Goes(how, i)
    PROVE  IInv'
  <1>1. /\ txns \in Seq(Txn) /\ Top = Len(txns) /\ Top \in Nat /\ Top <= MaxLevel
        /\ \A j \in 1..Top : txns[j] \in Txn
        /\ \A j \in 1..(Top - 1) : ~txns[j].error
        /\ txns[1].head0 = {} /\ txns[1].last0 = 0
        /\ file \in Files /\ meta \in Pgs /\ MaxLevel \in Nat
        /\ pghead \in SUBSET Pgs /\ pglast \in Lasts
    BY StackShape
  <1>2. PICK s, n, q, t : /\ s = Append(SubSeq(txns, 1, Top - 2), m) /\ n = Top - 1
                          /\ q = txns[Top - 1] /\ t = txns[Top]
    OBVIOUS
  <1>3. /\ txns' = s /\ file' = file /\ meta' = meta /\ sees' = Images(s, file, meta)
    BY <1>2 DEF Becomes
  <1>4. /\ n \in Nat /\ n > 0 /\ n + 1 = Top /\ n \in 1..Top /\ n \in 1..(Top - 1) /\ n < Top
        /\ n - 1 = Top - 2 /\ n \in 1..n /\ Top \in 1..Top
        /\ q = txns[n] /\ t = txns[n + 1] /\ q \in Txn /\ t \in Txn
    <2>1. /\ n \in Nat /\ n > 0 /\ n + 1 = Top /\ n \in 1..Top /\ n \in 1..(Top - 1) /\ n < Top
          /\ n - 1 = Top - 2 /\ n \in 1..n /\ Top \in 1..Top
      BY <1>1, <1>2
    <2> QED
      BY <1>1, <1>2, <2>1
  <1>5. /\ s \in Seq(Txn) /\ Len(s) = n /\ s[n] = m
        /\ \A j \in 1..(n - 1) : s[j] = txns[j]
    <2>1. PICK r : r = SubSeq(txns, 1, n - 1)
      OBVIOUS
    <2>2. r \in Seq(Txn) /\ Len(r) = n - 1 /\ \A j \in 1..(n - 1) : r[j] = txns[j]
      BY <1>1, <1>4, <2>1
    <2>3. s = Append(r, m)
      BY <1>2, <1>4, <2>1
    <2> QED
      BY <1>4, <2>2, <2>3
  <1>6. Top' = n
    BY <1>3, <1>5 DEF Top
  <1>7. ASSUME ~m.error
        PROVE  /\ TakesOver(s)
               /\ \E D \in Trees : LevelOK(s, file, pghead, pglast, n, D)
    <2>1. Joins(q, t, m)
      BY <1>2, <1>7
    <2>2. PICK D \in Trees : Level(Top, D)
      <3>1. Types /\ LevelsOK /\ CursorsOK /\ Top > 0
        BY <1>1 DEF IInv
      <3> QED
        BY <3>1, WorkFine
    <2>3. HeadOf(Top) = pghead /\ LastOf(Top) = pglast
      BY DEF HeadOf, LastOf
    <2>4. /\ WellMade(D) /\ D.r = t.root /\ Shows(D, txns, n + 1, file)
          /\ ListsOK(txns, n + 1, t, pghead, pglast, PagesIn(D))
      BY <1>2, <1>4, <2>2, <2>3 DEF Level, LevelOK
    <2>5. PICK B \in Trees : Level(n, B)
      BY <1>4, LowerLevels DEF IInv
    <2>6. PICK h1, l1, T1 : ListsOK(txns, n, q, h1, l1, T1)
      BY <1>4, <2>5 DEF Level, LevelOK
    <2>8. /\ \A p : Where(s, n, p) = IF Where(txns, Top, p) = Top THEN n ELSE Where(txns, Top, p)
          /\ \A f, p : Page(s, n, f, p) = Page(txns, Top, f, p)
      <3>1. PICK k : k = Top
        OBVIOUS
      <3>2. /\ n \in Nat /\ n > 0 /\ k = n + 1 /\ q = txns[n] /\ t = txns[k]
            /\ (\A j \in 1..(n - 1) : s[j] = txns[j]) /\ s[n] = m
        BY <1>4, <1>5, <3>1
      <3>3. Finds(s, n, txns, k)
        BY <2>1, <3>2, JoinsSees
      <3> QED
        BY <3>1, <3>3 DEF Finds
    <2>9. m.root = t.root
      BY <2>1 DEF Joins
    <2>10. PICK T : T = PagesIn(D)
      OBVIOUS
    <2>11. ListsOK(txns, n + 1, t, pghead, pglast, T)
      BY <2>4, <2>10
    <2>12. ListsOK(s, n, m, pghead, pglast, T)
      <3>1. /\ n \in Nat /\ n > 0 /\ q = txns[n] /\ t = txns[n + 1] /\ q \in Txn /\ t \in Txn
            /\ (\A j \in 1..(n - 1) : s[j] = txns[j]) /\ s[n] = m
        BY <1>4, <1>5
      <3> QED
        BY <2>1, <2>6, <2>11, <3>1, MoveJoin
    <2>13. Shows(D, s, n, file)
      BY <1>4, <2>4, <2>8 DEF Shows
    <2>14. LevelOK(s, file, pghead, pglast, n, D)
      BY <1>5, <2>4, <2>9, <2>10, <2>12, <2>13 DEF LevelOK
    <2>15. TakesOver(s)
      BY <1>2, <1>4, <1>5, <2>8, <2>9 DEF TakesOver
    <2> QED
      BY <2>14, <2>15
  <1>8. CursorsOK' /\ cur' \in [Cursors -> Cursor]
    <2>1. SameTo(txns', Top - 2)
      BY <1>3, <1>4, <1>5 DEF SameTo
    <2>2. Top' = Top - 1
      BY <1>2, <1>6
    <2>3. txns'[Top - 1].error \/ TakesOver(txns')
      BY <1>2, <1>3, <1>5, <1>7
    <2> QED
      BY <1>3, <2>1, <2>2, <2>3, GivenBackKeep
  <1>9. \A j \in 1..(n - 1) : HeadOf(j)' = HeadOf(j) /\ LastOf(j)' = LastOf(j)
    <2> SUFFICES ASSUME NEW j \in 1..(n - 1)
                 PROVE  HeadOf(j)' = HeadOf(j) /\ LastOf(j)' = LastOf(j)
      OBVIOUS
    <2>1. HeadOf(j)' = s[j + 1].head0 /\ LastOf(j)' = s[j + 1].last0
      BY <1>3, <1>4, <1>6 DEF HeadOf, LastOf
    <2>2. HeadOf(j) = txns[j + 1].head0 /\ LastOf(j) = txns[j + 1].last0
      BY <1>4 DEF HeadOf, LastOf
    <2>3. CASE j + 1 = n
      BY <1>2, <1>5, <2>1, <2>2, <2>3
    <2>4. CASE j + 1 # n
      <3>1. j + 1 \in 1..(n - 1)
        BY <1>4, <2>4
      <3> QED
        BY <1>5, <2>1, <2>2, <3>1
    <2> QED
      BY <2>3, <2>4
  <1>10. Types'
    <2>1. Stacked'
      <3>1. \A j \in 1..(n - 1) : ~s[j].error
        <4> SUFFICES ASSUME NEW j \in 1..(n - 1)
                     PROVE  ~s[j].error
          OBVIOUS
        <4>1. j \in 1..(Top - 1)
          BY <1>1, <1>4
        <4> QED
          BY <1>1, <1>5, <4>1
      <3>2. s[1].head0 = {} /\ s[1].last0 = 0
        <4>1. CASE n = 1
          BY <1>1, <1>2, <1>5, <4>1
        <4>2. CASE n # 1
          <5>1. 1 \in 1..(n - 1)
            BY <1>4, <4>2
          <5> QED
            BY <1>1, <1>5, <5>1
        <4> QED
          BY <4>1, <4>2
      <3>3. n <= MaxLevel
        BY <1>1, <1>4
      <3> QED
        BY <1>3, <1>5, <1>6, <3>1, <3>2, <3>3 DEF Stacked
    <2>2. ending' = <<>> \/ ending' \in {"commit", "abort"} \X (1..Top')
      <3>1. Top' = Top - 1
        BY <1>2, <1>6
      <3> QED
        BY <3>1, GoesOn
    <2> QED
      BY <1>1, <1>3, <1>8, <2>1, <2>2 DEF Types
  <1>11. LevelsOK'
    <2>1. ASSUME NEW j \in 1..n, ~s[j].error
          PROVE  \E D \in Trees : LevelOK(s, file, HeadOf(j)', LastOf(j)', j, D)
      <3>1. CASE j = n
        <4>1. HeadOf(j)' = pghead /\ LastOf(j)' = pglast
          BY <1>6, <3>1 DEF HeadOf, LastOf
        <4>2. ~m.error
          BY <1>5, <2>1, <3>1
        <4> QED
          BY <1>7, <3>1, <4>1, <4>2
      <3>2. CASE j # n
        <4>1. j \in 1..(n - 1) /\ j \in 1..Top /\ j \in 1..(Top - 1)
          BY <1>1, <1>4, <3>2
        <4>2. ~txns[j].error
          BY <1>1, <4>1
        <4>3. \A k \in 1..j : s[k] = txns[k]
          <5> SUFFICES ASSUME NEW k \in 1..j
                       PROVE  s[k] = txns[k]
            OBVIOUS
          <5>1. k \in 1..(n - 1)
            BY <1>4, <4>1
          <5> QED
            BY <1>5, <5>1
        <4>4. \E D \in Trees : LevelOK(s, file, HeadOf(j), LastOf(j), j, D)
          BY <4>1, <4>2, <4>3, LevelSame
        <4> QED
          BY <4>1, <4>4, <1>9
      <3> QED
        BY <3>1, <3>2
    <2> QED
      BY <2>1, <1>3, <1>6 DEF LevelsOK
  <1>12. StoredOK'
    <2>1. /\ meta = HomeRoot
          /\ \E f \in {Stored(CHOOSE v \in Vals : TRUE)} : \A p \in HomeTree : file[p] = f[p]
      BY <1>1 DEF IInv, StoredOK
    <2> QED
      BY <1>3, <2>1 DEF StoredOK
  <1>13. Seeing'
    BY <1>3 DEF Seeing
  <1> QED
    BY <1>8, <1>10, <1>11, <1>12, <1>13 DEF IInv

(* mdb_txn_commit of a child                                               *)
LEMMA CommitChildKeeps ==
    ASSUME IInv, NEW i, CommitChild(i) \/ CommitHalf(i)
    PROVE  IInv'
  <1>1. /\ i \in 1..Top /\ ~txns[Top].error /\ Top > 1 /\ cur' = CursorsClosed(TRUE)
        /\ pghead' = pghead /\ pglast' = pglast /\ (Goes("commit", i) \/ Goes("abort", i))
        /\ \/ Becomes(Append(SubSeq(txns, 1, Top - 2), MergedInto(txns[Top - 1], txns[Top])), file, meta)
           \/ Becomes(Append(SubSeq(txns, 1, Top - 2), Half(txns[Top - 1], txns[Top])), file, meta)
    BY DEF CommitChild, CommitHalf, Ending
  <1>2. PICK q, t : q = txns[Top - 1] /\ t = txns[Top]
    OBVIOUS
  <1>3. q \in Txn /\ t \in Txn
    <2>1. Top \in 1..Top /\ Top - 1 \in 1..Top
      BY <1>1, StackShape
    <2> QED
      BY <1>2, <2>1, StackShape
  <1>4. /\ MergedInto(q, t) \in Txn /\ Joins(q, t, MergedInto(q, t))
        /\ Half(q, t) \in Txn /\ Half(q, t).error
        /\ Half(q, t).head0 = q.head0 /\ Half(q, t).last0 = q.last0
    BY <1>3, MergedIs
  <1>5. MergedInto(q, t).head0 = q.head0 /\ MergedInto(q, t).last0 = q.last0
    BY <1>4 DEF Joins
  <1>6. PICK m \in {MergedInto(q, t), Half(q, t)} :
          Becomes(Append(SubSeq(txns, 1, Top - 2), m), file, meta)
    BY <1>1, <1>2
  <1>7. /\ m \in Txn /\ m.head0 = txns[Top - 1].head0 /\ m.last0 = txns[Top - 1].last0
        /\ m.error \/ Joins(txns[Top - 1], txns[Top], m)
    BY <1>2, <1>4, <1>5, <1>6
  <1> QED
    BY <1>1, <1>6, <1>7, MergedKeeps

-----------------------------------------------------------------------------
(* The invariant. *)

(* The beginning.                                                          *)
LEMMA StoredIs ==
    ASSUME NEW v \in Vals
    PROVE  Stored(v) \in Files
  <1>1. /\ Home \in [DOMAIN Home -> Pgs] /\ DOMAIN Home \subseteq Nodes
        /\ HomeBig \in {NoPage} \cup Pgs
    BY StoreAssumption
  <1>2. PICK k : k = [n \in Nodes |-> IF n \in DOMAIN Home THEN Home[n] ELSE NoPage]
    OBVIOUS
  <1>3. k \in [Nodes -> Opt]
    BY <1>1, <1>2 DEF Opt
  <1>4. NoKids \in [Nodes -> Opt]
    BY DEF NoKids, Opt
  <1>5. PICK a, b, c, d : a = Branch(k) /\ b = Leaf(v, HomeBig) /\ c = Leaf(v, NoPage) /\ d = Blank
    OBVIOUS
  <1>6. a \in PageT /\ b \in PageT /\ c \in PageT /\ d \in PageT
    <2>1. NoPage \in Opt /\ HomeBig \in Opt
      BY <1>1 DEF Opt
    <2>2. a \in PageT
      BY <1>3, <1>5, <2>1 DEF Branch, PageT
    <2>3. b \in PageT
      BY <1>4, <1>5, <2>1 DEF Leaf, PageT
    <2>4. c \in PageT
      BY <1>4, <1>5, <2>1 DEF Leaf, PageT
    <2>5. d \in PageT
      BY <1>4, <1>5, <2>1 DEF Blank, Branch, PageT
    <2> QED
      BY <2>2, <2>3, <2>4, <2>5
  <1>7. Stored(v) = [p \in Pgs |-> IF p = HomeRoot THEN a ELSE IF p = Home[BigNode] THEN b
                                   ELSE IF p \in Range(Home) \cup {HomeBig} THEN c ELSE d]
    BY <1>2, <1>5 DEF Stored
  <1> QED
    BY <1>6, <1>7 DEF Files

LEMMA OutermostIs ==
    /\ Outermost \in Txn /\ ~Outermost.error /\ Outermost.root = HomeRoot
    /\ Outermost.dirty = <<>> /\ Outermost.spill = {} /\ Outermost.loose = <<>>
    /\ Outermost.free = [p \in Pgs |-> 0] /\ Outermost.room = DirtyMax
    /\ Outermost.next = NextPgno /\ Outermost.head0 = {} /\ Outermost.last0 = 0
  <1>1. PICK e, o, f, t : e = <<>> /\ o = {} /\ f = [p \in Pgs |-> 0] /\ t = Outermost
    OBVIOUS
  <1>2. e \in Dirties
    <2>1. DOMAIN e \subseteq Pgs /\ e \in [DOMAIN e -> PageT]
      BY <1>1
    <2> QED
      BY <2>1, DirtyType
  <1>3. /\ f \in [Pgs -> Nat] /\ e \in Seq(Pgs) /\ o \in SUBSET Pgs /\ HomeRoot \in Pgs
        /\ DirtyMax \in 0..DirtyMax /\ NextPgno \in NextPgno..MaxPg
    BY <1>1, StoreAssumption, BoundsAssumption
  <1>4. 0 \in Lasts
    BY RecordsFacts DEF Lasts
  <1>5. t = [error |-> FALSE, spills |-> FALSE, root |-> HomeRoot, dirty |-> e, spill |-> o,
             free |-> f, loose |-> e, room |-> DirtyMax, next |-> NextPgno,
             head0 |-> o, last0 |-> 0]
    BY <1>1 DEF Outermost
  <1>6. /\ t.error = FALSE /\ t.root = HomeRoot /\ t.dirty = e /\ t.spill = o /\ t.loose = e
        /\ t.free = f /\ t.room = DirtyMax /\ t.next = NextPgno /\ t.head0 = o /\ t.last0 = 0
    BY <1>5
  <1>7. t \in Txn
    BY <1>2, <1>3, <1>4, <1>5 DEF Txn
  <1> QED
    BY <1>1, <1>6, <1>7

LEMMA OutermostLists ==
    ASSUME NEW t, t = Outermost, NEW s, s[1] = t
    PROVE  ListsOK(s, 1, t, {}, 0, HomeTree)
  <1>1. /\ t.dirty = <<>> /\ t.spill = {} /\ t.loose = <<>>
        /\ t.free = [p \in Pgs |-> 0] /\ t.room = DirtyMax
        /\ t.next = NextPgno /\ t.head0 = {} /\ t.last0 = 0
    BY OutermostIs
  <1>2. DOMAIN t.dirty = {} /\ Held(t) = {} /\ ToSet(t.loose) = {} /\ \A p \in Pgs : ~(t.free[p] > 0)
    BY <1>1 DEF Held, ToSet
  <1>3. 1 - 1 = 0 /\ 0 + 1 = 1
    OBVIOUS
  <1>4. SeenTo(s, 0) = {} /\ HeldTo(s, 0) = {} /\ LooseIn(s, 0) = {} /\ FreedIn(s, 0) = {}
    BY WhereNone DEF SeenTo, HeldTo, LooseIn, FreedIn
  <1>5. Apart(t)
    BY <1>1 DEF Apart
  <1>6. RoomOK(s, 1, t)
    <2>1. Seen(t, SeenTo(s, 0)) = {}
      BY <1>2, <1>4 DEF Seen
    <2>2. Cardinality({}) = 0 /\ DirtyMax \in Nat
      BY FS_EmptySet, BoundsAssumption
    <2>3. Cardinality(Seen(t, SeenTo(s, 1 - 1))) = 0
      <3>1. Seen(t, SeenTo(s, 1 - 1)) = {}
        BY <1>3, <2>1
      <3> QED
        BY <2>2, <3>1
    <2>4. DirtyMax - 0 = DirtyMax
      BY <2>2
    <2>5. t.room = DirtyMax - Cardinality(Seen(t, SeenTo(s, 1 - 1)))
      BY <1>1, <2>3, <2>4
    <2> QED
      BY <2>5 DEF RoomOK
  <1>7. LooseOK(s, 1, t) /\ FreeOK(s, 1, t)
    BY <1>1, <1>2 DEF LooseOK, FreeOK
  <1>8. UseOK(s, 1, t, {}, 0, HomeTree)
    <2> SUFFICES ASSUME NEW p \in Pgs
                 PROVE  OneOf(p \in HomeTree, p \in {}, p \in UnreadAfter(0),
                       t.free[p] > 0 \/ p \in FreedIn(s, 0),
                       p \in ToSet(t.loose) \/ p \in LooseIn(s, 0), p \in From(t.next))
      BY <1>3 DEF UseOK
    <2>1. /\ HomeTree \cap UnreadAfter(0) = {} /\ HomeTree \cap From(NextPgno) = {}
          /\ UnreadAfter(0) \cup HomeTree = 2..(NextPgno - 1) /\ NextPgno \in Nat /\ MaxPg \in Nat
      BY HomeFacts, BoundsAssumption
    <2>2. p \in From(NextPgno) \/ p \in 2..(NextPgno - 1)
      BY <2>1 DEF From, Pgs
    <2>3. p \in From(NextPgno) => p \notin 2..(NextPgno - 1)
      BY <2>1 DEF From
    <2> QED
      BY <1>1, <1>2, <1>4, <2>1, <2>2, <2>3 DEF OneOf
  <1>9. FreshOK(s, 1, t, {}, 0)
    BY <1>2, <1>3, <1>4 DEF FreshOK
  <1>10. Within(s, 1, t, {}, 0)
    <2> SUFFICES ASSUME NEW k \in 0..0
                 PROVE  FreshIn({}, 0, t.next) \subseteq FreshAt(s, k)
      BY <1>2, <1>3 DEF Within
    <2>1. k = 0
      OBVIOUS
    <2>2. FreshAt(s, 0) = FreshIn(s[0 + 1].head0, s[0 + 1].last0, NextPgno)
      BY DEF FreshAt, NextAt
    <2> QED
      BY <1>1, <1>3, <2>1, <2>2
  <1> QED
    BY <1>5, <1>6, <1>7, <1>8, <1>9, <1>10 DEF ListsOK

LEMMA InitHolds ==
    ASSUME Init
    PROVE  IInv
  <1>1. /\ txns = <<Outermost>> /\ pghead = {} /\ pglast = 0
        /\ file = Stored(FirstVal) /\ meta = HomeRoot
        /\ sees = Images(txns, file, meta) /\ cur = [c \in Cursors |-> Closed] /\ ending = <<>>
    BY DEF Init, FirstVal
  <1>2. PICK t : t = Outermost
    OBVIOUS
  <1>3. /\ t \in Txn /\ ~t.error /\ t.root = HomeRoot /\ t.dirty = <<>> /\ t.spill = {}
        /\ t.head0 = {} /\ t.last0 = 0
    BY <1>2, OutermostIs
  <1>4. /\ Top = 1 /\ txns[1] = t /\ txns \in Seq(Txn)
    BY <1>1, <1>2, <1>3 DEF Top
  <1>5. FirstVal \in Vals /\ file \in Files /\ HomeRoot \in Pgs /\ MaxLevel \in Nat /\ MaxLevel >= 1
    BY <1>1, HomeMade, StoredIs, StoreAssumption, BoundsAssumption
  <1>6. Closed \in Cursor /\ NotAt \in Spots(1)
    BY DEF Closed, NotAt, Cursor, Spot, Spots, Opt
  <1>7. Types
    <2>1. 0 \in Lasts
      BY RecordsFacts DEF Lasts
    <2>2. Stacked
      <3>1. 1 <= MaxLevel /\ \A i \in 1..(1 - 1) : ~txns[i].error
        BY <1>5
      <3> QED
        BY <3>1, <1>3, <1>4 DEF Stacked
    <2>3. cur \in [Cursors -> Cursor]
      BY <1>1, <1>6
    <2> QED
      BY <1>1, <1>5, <2>1, <2>2, <2>3 DEF Types
  <1>8. AsStored(file)
    BY <1>1 DEF AsStored
  <1>9. \A p : Page(txns, 1, file, p) = file[p]
    <2>1. DOMAIN t.dirty = {}
      BY <1>3
    <2>2. 1 \in Nat /\ 1 > 0 /\ 1 - 1 = 0
      OBVIOUS
    <2>3. ASSUME NEW p
          PROVE  Page(txns, 1, file, p) = file[p]
      <3>1. Page(txns, 1, file, p) = IF p \in txns[1].spill THEN file[p]
                                     ELSE IF p \in DOMAIN txns[1].dirty THEN txns[1].dirty[p]
                                     ELSE Page(txns, 1 - 1, file, p)
        BY <2>2, PageStep
      <3>2. Page(txns, 0, file, p) = file[p]
        BY PageNone
      <3> QED
        BY <1>3, <1>4, <2>1, <2>2, <3>1, <3>2
    <2> QED
      BY <2>3
  <1>10. LevelsOK
    <2>1. /\ WellMade(HomeD) /\ PagesIn(HomeD) = HomeTree /\ HomeD.r = HomeRoot
          /\ Shows(HomeD, txns, 1, file)
      BY <1>8, <1>9, HomeMade
    <2>2. ListsOK(txns, 1, t, {}, 0, HomeTree)
      BY <1>2, <1>4, OutermostLists
    <2>3. HeadOf(1) = {} /\ LastOf(1) = 0
      BY <1>1, <1>4 DEF HeadOf, LastOf
    <2>4. LevelOK(txns, file, HeadOf(1), LastOf(1), 1, HomeD)
      BY <1>3, <1>4, <2>1, <2>2, <2>3 DEF LevelOK
    <2>5. HomeD \in Trees
      BY <2>1 DEF WellMade
    <2> QED
      BY <1>4, <2>4, <2>5 DEF LevelsOK
  <1>11. StoredOK
    BY <1>1 DEF StoredOK, FirstVal
  <1>12. CursorsOK
    <2>1. Closed.own = 0 /\ Closed.root = NotAt /\ Closed.leaf = NotAt /\ Closed.backup = <<>>
      BY DEF Closed
    <2>2. \A c \in Cursors : cur[c] = Closed
      BY <1>1
    <2>3. ASSUME NEW c \in Cursors
          PROVE  CursorOK(c)
      BY <1>4, <1>6, <2>1, <2>2 DEF CursorOK
    <2> QED
      BY <2>3 DEF CursorsOK
  <1>13. Seeing
    BY <1>1 DEF Seeing
  <1> QED
    BY <1>7, <1>10, <1>11, <1>12, <1>13 DEF IInv

(* Every step keeps the invariant.                                         *)
LEMMA NextKeeps ==
    ASSUME IInv, [Next]_vars
    PROVE  IInv'
  <1>1. CASE Operation
    BY <1>1, OperationKeeps
  <1>2. CASE UseCursor
    BY <1>2, UseCursorKeeps
  <1>3. CASE Begin
    BY <1>3, BeginKeeps
  <1>4. CASE End
    <2>1. CASE CommitTop
      BY <2>1, CommitTopKeeps
    <2>2. ASSUME NEW i \in Levels, Abort(i) \/ CommitFailed(i) \/ CommitNoMemory(i)
          PROVE  IInv'
      BY <2>2, AbortKeeps
    <2>3. ASSUME NEW i \in Levels, CommitChild(i) \/ CommitHalf(i)
          PROVE  IInv'
      BY <2>3, CommitChildKeeps
    <2> QED
      BY <1>4, <2>1, <2>2, <2>3 DEF End
  <1>5. CASE UNCHANGED vars
    <2>1. /\ txns' = txns /\ pghead' = pghead /\ pglast' = pglast /\ file' = file /\ meta' = meta
          /\ sees' = sees /\ cur' = cur /\ ending' = ending
      BY <1>5 DEF vars
    <2>2. /\ Top' = Top
      BY <2>1 DEF Top
    <2>3. \A i : HeadOf(i)' = HeadOf(i) /\ LastOf(i)' = LastOf(i)
      BY <2>1, <2>2 DEF HeadOf, LastOf
    <2>4. \A r, k : LevelOf(r, k)' = LevelOf(r, k)
      BY <2>2 DEF LevelOf
    <2>5. \A i : Spots(i)' = Spots(i)
      BY DEF Spots
    <2>6. Types'
      BY <2>1, <2>2 DEF IInv, Types, Stacked
    <2>7. LevelsOK'
      BY <2>1, <2>2, <2>3 DEF IInv, LevelsOK
    <2>8. StoredOK'
      BY <2>1, <2>2 DEF IInv, StoredOK
    <2>9. CursorsOK'
      BY <2>1, <2>2, <2>4 DEF IInv, CursorsOK, CursorOK
    <2>10. Seeing'
      BY <2>1 DEF IInv, Seeing
    <2> QED
      BY <2>6, <2>7, <2>8, <2>9, <2>10 DEF IInv
  <1> QED
    BY <1>1, <1>2, <1>3, <1>4, <1>5 DEF Next

(* The inductive invariant holds throughout.                               *)
LEMMA Invariant == Spec => []IInv
  <1>1. Init => IInv
    BY InitHolds
  <1>2. IInv /\ [Next]_vars => IInv'
    BY NextKeeps
  <1> QED
    BY <1>1, <1>2, PTL DEF Spec

(* P_KEEP stays on pages of open transactions only.                        *)
MarksOK == pkeep \subseteq (1..Top) \X Pgs

LEMMA MarksKept ==
    ASSUME IInv, MarksOK, [Next]_vars
    PROVE  MarksOK'
  <1>1. /\ Top \in Nat /\ txns \in Seq(Txn) /\ Top = Len(txns)
    BY StackShape
  <1>2. \A i : Above(i, pkeep) \subseteq {x \in (1..Top) \X Pgs : x[1] < i}
    BY DEF Above, MarksOK
  <1>3. CASE Operation
    <2>1. Top' = Top
      <3>1. PICK D, x : Begun(D) /\ Ends(x, D) /\ Apply(x)
        BY <1>3, OperationEnds
      <3>2. Top > 0 /\ txns' = [txns EXCEPT ![Top] = x.t]
        BY <3>1 DEF Begun, Apply, Becomes, Chain
      <3> QED
        BY <1>1, <3>2 DEF Top
    <2>2. /\ Top > 0
          /\ \/ \E n, w : pkeep' = Above(Top, StillKept(n)) \cup CopiedKept(w, StillKept(n))
             \/ \E n : pkeep' = Above(Top, pkeep \cup (Marked(n) \cap ((1..Top) \X Pgs)))
      BY <1>3 DEF Operation, Put, PutBig, DelBig, Split, Merge, SpillFails, Do, CanWork
    <2>3. \A n : StillKept(n) \subseteq (1..Top) \X Pgs
      BY DEF StillKept, MarksOK
    <2>4. \A n : Above(Top, StillKept(n)) \subseteq (1..Top) \X Pgs
      BY <2>3 DEF Above
    <2>5. \A w, k : CopiedKept(w, k) \subseteq (1..Top) \X Pgs
      BY <1>1, <2>2 DEF CopiedKept
    <2>6. \A n : Above(Top, pkeep \cup (Marked(n) \cap ((1..Top) \X Pgs))) \subseteq (1..Top) \X Pgs
      BY DEF Above, MarksOK
    <2>7. pkeep' \subseteq (1..Top) \X Pgs
      BY <2>2, <2>4, <2>5, <2>6
    <2> QED
      BY <2>1, <2>7 DEF MarksOK
  <1>4. CASE UseCursor
    <2>1. pkeep' = pkeep /\ txns' = txns
      BY <1>4 DEF UseCursor, OpenCursor, CloseCursor, Position, Set
    <2> QED
      BY <2>1 DEF MarksOK, Top
  <1>5. CASE Begin
    <2>1. pkeep' = pkeep /\ txns' = Append(txns, Child)
      BY <1>5 DEF Begin, Becomes
    <2>2. Top' = Top + 1
      BY <1>1, <2>1 DEF Top
    <2>3. 1..Top \subseteq 1..(Top + 1)
      BY <1>1
    <2> QED
      BY <2>1, <2>2, <2>3 DEF MarksOK
  <1>6. CASE End
    <2>1. CASE CommitTop
      BY <2>1 DEF CommitTop, MarksOK
    <2>2. ASSUME NEW i \in Levels, Abort(i) \/ CommitFailed(i) \/ CommitNoMemory(i)
          PROVE  MarksOK'
      <3>1. pkeep' = Above(Top, pkeep) /\ (txns' = Front(txns) \/ txns' = Poisoned(Front(txns)))
        BY <2>2 DEF Abort, CommitFailed, CommitNoMemory, Dropped, Becomes
      <3>5. i \in 1..Top
        BY <2>2 DEF Abort, CommitFailed, CommitNoMemory, Ending
      <3>2. Len(Front(txns)) = Top - 1 /\ Front(txns) \in Seq(Txn)
        BY <1>1, <3>5, FrontIs
      <3>3. Len(Poisoned(Front(txns))) = Top - 1
        BY <3>2, PoisonedIs
      <3>4. Top' = Top - 1
        BY <3>1, <3>2, <3>3 DEF Top
      <3> QED
        BY <1>1, <1>2, <3>1, <3>4 DEF MarksOK
    <2>3. ASSUME NEW i \in Levels, CommitChild(i) \/ CommitHalf(i)
          PROVE  MarksOK'
      <3>1. pkeep' = KeptMerged(txns[Top]) /\ Top > 1
        BY <2>3 DEF CommitChild, CommitHalf
      <3>2. Top' = Top - 1
        <4>1. PICK t : txns' = Append(SubSeq(txns, 1, Top - 2), t)
          BY <2>3 DEF CommitChild, CommitHalf, Becomes
        <4>2. PICK s : s = SubSeq(txns, 1, Top - 2)
          OBVIOUS
        <4>3. s \in Seq(Txn) /\ Len(s) = Top - 2
          BY <1>1, <3>1, <4>2
        <4>4. Len(Append(s, t)) = Len(s) + 1
          BY <4>3 DEF Append
        <4> QED
          BY <1>1, <4>1, <4>2, <4>3, <4>4 DEF Top
      <3>3. KeptMerged(txns[Top]) \subseteq (1..(Top - 1)) \X Pgs
        <4>1. Above(Top - 1, pkeep) \subseteq (1..(Top - 1)) \X Pgs
          BY <1>1, <3>1 DEF Above, MarksOK
        <4>2. Top - 1 \in 1..(Top - 1)
          BY <1>1, <3>1
        <4>3. PICK Q : Q = {q \in Pgs \ txns[Top].spill :
                <<IF q \in DOMAIN txns[Top].dirty THEN Top ELSE Top - 1, q>> \in pkeep}
          OBVIOUS
        <4>4. KeptMerged(txns[Top]) = Above(Top - 1, pkeep) \cup {<<Top - 1, p>> : p \in Q}
          BY <4>3 DEF KeptMerged
        <4>5. Q \subseteq Pgs
          BY <4>3
        <4>6. {<<Top - 1, p>> : p \in Q} \subseteq (1..(Top - 1)) \X Pgs
          BY <4>2, <4>5
        <4> QED
          BY <4>1, <4>4, <4>6
      <3> QED
        BY <3>1, <3>2, <3>3 DEF MarksOK
    <2> QED
      BY <1>6, <2>1, <2>2, <2>3 DEF End
  <1>7. CASE UNCHANGED vars
    BY <1>7 DEF vars, MarksOK, Top
  <1> QED
    BY <1>3, <1>4, <1>5, <1>6, <1>7 DEF Next

LEMMA Marks == Spec => []MarksOK
  <1>1. Init => MarksOK
    BY DEF Init, MarksOK
  <1>2. IInv /\ MarksOK /\ [Next]_vars => MarksOK'
    BY MarksKept
  <1> QED
    BY <1>1, <1>2, Invariant, PTL DEF Spec

(* Only an early write that fails leaves P_KEEP anywhere.                  *)
LEMMA MarksStay ==
    ASSUME [Next]_vars, \A n : ~SpillFails(n)
    PROVE  pkeep' # {} => pkeep # {}
  <1> SUFFICES ASSUME pkeep = {}
               PROVE  pkeep' = {}
    OBVIOUS
  <1>1. \A i : Above(i, pkeep) = {}
    BY DEF Above
  <1>2. \A n : StillKept(n) = {}
    BY DEF StillKept
  <1>3. \A w : CopiedKept(w, {}) = {}
    BY DEF CopiedKept
  <1>4. CASE Operation
    <2>1. \E n, w : pkeep' = Above(Top, StillKept(n)) \cup CopiedKept(w, StillKept(n))
      BY <1>4 DEF Operation, Put, PutBig, DelBig, Split, Merge, Do
    <2>2. Above(Top, {}) = {}
      BY DEF Above
    <2> QED
      BY <1>2, <1>3, <2>1, <2>2
  <1>5. CASE UseCursor
    BY <1>5 DEF UseCursor, OpenCursor, CloseCursor, Position, Set
  <1>6. CASE Begin
    BY <1>6 DEF Begin
  <1>7. CASE End
    <2>1. KeptMerged(txns[Top]) = {}
      BY <1>1 DEF KeptMerged
    <2> QED
      BY <1>1, <1>7, <2>1 DEF End, Abort, CommitFailed, CommitNoMemory, CommitChild, CommitHalf,
                              CommitTop, Dropped
  <1>8. CASE UNCHANGED vars
    BY <1>8 DEF vars
  <1> QED
    BY <1>4, <1>5, <1>6, <1>7, <1>8 DEF Next

(* It fails its transaction.                                               *)
LEMMA SpillFailsIs ==
    ASSUME NEW n, SpillFails(n), txns \in Seq(Txn), Top > 0
    PROVE  txns'[Top].error
  <1>1. PICK P : Apply([Broken(Work) EXCEPT !.t.spill = @ \cup ToSpill(n), !.file = Flushed(@, P)])
    BY DEF SpillFails
  <1>2. Top \in DOMAIN txns
    BY DEF Top
  <1>3. PICK b : b = Broken(Work)
    OBVIOUS
  <1>4. PICK x : x = [b EXCEPT !.t.spill = @ \cup ToSpill(n), !.file = Flushed(@, P)]
    OBVIOUS
  <1>5. txns' = [txns EXCEPT ![Top] = x.t]
    BY <1>1, <1>3, <1>4 DEF Apply, Becomes, Chain
  <1>6. b.t = [txns[Top] EXCEPT !.error = TRUE] /\ DOMAIN b = DOMAIN Work
    BY <1>3 DEF Broken, Work
  <1>7. txns[Top] \in Txn
    BY <1>2
  <1>8. b.t.error /\ DOMAIN b.t = DOMAIN txns[Top]
    BY <1>6, <1>7 DEF Txn
  <1>9. x.t = [b.t EXCEPT !.spill = @ \cup ToSpill(n)]
    BY <1>4, <1>6 DEF Work
  <1>10. x.t.error
    BY <1>8, <1>9
  <1> QED
    BY <1>2, <1>5, <1>10

-----------------------------------------------------------------------------
(* What follows. *)

(* A sound level has a tree.                                               *)
LEMMA LevelAt ==
    ASSUME IInv, NEW i \in 1..Top, Sound(i)
    PROVE  /\ i \in Nat /\ i > 0 /\ Top \in Nat /\ txns[i] \in Txn
           /\ \E D \in Trees : LevelOK(txns, file, HeadOf(i), LastOf(i), i, D)
  <1>1. Top \in Nat /\ txns[i] \in Txn /\ i \in Nat /\ i > 0 /\ i \in 1..i
    BY StackShape
  <1>2. ~txns[i].error
    BY <1>1 DEF Sound
  <1> QED
    BY <1>1, <1>2 DEF IInv, LevelsOK

(* The room, the cursors, the types and the pages, as the properties       *)
(* state them.                                                             *)
LEMMA RoomFollows ==
    ASSUME IInv
    PROVE  DirtyRoomExact
  <1> SUFFICES ASSUME NEW i \in 1..Top, Sound(i)
               PROVE  txns[i].room = DirtyMax - Cardinality({p \in Pgs : Where(txns, i, p) > 0})
    BY DEF DirtyRoomExact
  <1>1. PICK D \in Trees : LevelOK(txns, file, HeadOf(i), LastOf(i), i, D)
    BY LevelAt
  <1>2. /\ i \in Nat /\ i > 0 /\ Apart(txns[i]) /\ RoomOK(txns, i, txns[i])
        /\ DOMAIN txns[i].dirty \subseteq Pgs
    BY <1>1, LevelAt, DirtyType DEF LevelOK, ListsOK, Txn
  <1>3. SeenTo(txns, i) = Seen(txns[i], SeenTo(txns, i - 1)) \cap Pgs
    BY <1>2, SeenIs
  <1>4. Seen(txns[i], SeenTo(txns, i - 1)) \subseteq Pgs
    BY <1>2 DEF Seen, SeenTo
  <1>5. SeenTo(txns, i) = Seen(txns[i], SeenTo(txns, i - 1))
    BY <1>3, <1>4
  <1>6. txns[i].room = DirtyMax - Cardinality(SeenTo(txns, i))
    BY <1>2, <1>5 DEF RoomOK
  <1> QED
    BY <1>6 DEF SeenTo

LEMMA CursorsFollow ==
    ASSUME IInv
    PROVE  CursorsOnTree
  <1> SUFFICES ASSUME NEW c \in Cursors, Open(c)
               PROVE  /\ PointsRight(cur[c], cur[c].own)
                      /\ \A k \in DOMAIN cur[c].backup :
                           PointsRight(cur[c].backup[k], cur[c].own - Len(cur[c].backup) + k - 1)
    BY DEF CursorsOnTree
  <1>1. PICK r : r = cur[c]
    OBVIOUS
  <1>2. /\ r.own = Top /\ Backups(r, Top) /\ (~txns[Top].error => PointsAt(r, txns, Top, file))
        /\ Top \in Nat /\ Top > 0
    BY <1>1, CursorIs, StackShape DEF Open
  <1>3. PointsRight(r, Top)
    <2>1. Sound(Top) => ~txns[Top].error
      BY <1>2 DEF Sound
    <2>2. PointsAt(r, txns, Top, file) => PointsRight(r, Top)
      BY DEF PointsAt, PointsRight
    <2>3. ~Sound(Top) => PointsRight(r, Top)
      BY DEF PointsRight
    <2> QED
      BY <1>2, <2>1, <2>2, <2>3
  <1>4. ASSUME NEW k \in DOMAIN r.backup
        PROVE  PointsRight(r.backup[k], r.own - Len(r.backup) + k - 1)
    <2>1. PICK i : i = Top - Len(r.backup) + k - 1
      OBVIOUS
    <2>2. PointsAt(r.backup[k], txns, i, file)
      BY <1>2, <2>1 DEF Backups, LevelOf
    <2>3. PointsRight(r.backup[k], i)
      BY <2>2 DEF PointsAt, PointsRight
    <2> QED
      BY <1>2, <2>1, <2>3
  <1> QED
    BY <1>1, <1>2, <1>3, <1>4

LEMMA TypesFollow ==
    ASSUME IInv, MarksOK
    PROVE  TypeOK
  <1>1. /\ txns \in Seq(Txn) /\ Top = Len(txns) /\ Top \in Nat /\ Top <= MaxLevel
        /\ \A i \in 1..Top : txns[i] \in Txn
        /\ meta \in Pgs /\ pghead \in SUBSET Pgs /\ pglast \in Lasts
    BY StackShape
  <1>2. ASSUME NEW i \in 1..Top
        PROVE  LET t == txns[i] IN
               /\ t.error \in BOOLEAN /\ t.spills \in BOOLEAN
               /\ {t.root} \cup Held(t) \cup t.head0 \cup ToSet(t.loose) \subseteq Pgs
               /\ t.room \in 0..DirtyMax /\ t.next \in NextPgno..MaxPg
               /\ t.last0 \in 0..Len(Records) /\ \A p \in Pgs : t.free[p] \in Nat
    <2>1. PICK t : t = txns[i]
      OBVIOUS
    <2>2. t \in Txn
      BY <1>1, <2>1
    <2>3. /\ t.error \in BOOLEAN /\ t.spills \in BOOLEAN /\ t.root \in Pgs /\ t.spill \subseteq Pgs
          /\ t.head0 \subseteq Pgs /\ t.loose \in Seq(Pgs) /\ t.room \in 0..DirtyMax
          /\ t.next \in NextPgno..MaxPg /\ t.last0 \in 0..Len(Records)
          /\ \A p \in Pgs : t.free[p] \in Nat
      BY <2>2 DEF Txn, Lasts
    <2>4. DOMAIN t.dirty \subseteq Pgs
      BY <2>2, DirtyType DEF Txn
    <2>5. ToSet(t.loose) \subseteq Pgs
      BY <2>3 DEF ToSet
    <2> QED
      BY <2>1, <2>3, <2>4, <2>5 DEF Held
  <1>3. ASSUME NEW c \in Cursors
        PROVE  LET r == cur[c] IN
               /\ r.own \in 0..Top /\ r.at \in Nodes \cup {NoNode}
               /\ Len(r.backup) < IF Open(c) THEN r.own ELSE 1
               /\ {r.root, r.leaf} \subseteq (0..Top) \X (Pgs \cup {NoPage})
    <2>1. PICK r : r = cur[c]
      OBVIOUS
    <2>2. /\ r \in Cursor /\ r.own \in Nat /\ Len(r.backup) \in Nat
          /\ r.own = 0 => r = Closed /\ r.backup = <<>>
          /\ r.own > 0 => r.own = Top /\ Len(r.backup) < Top
          /\ Backups(r, Top)
      BY <2>1, CursorIs
    <2>3. r.at \in Nodes \cup {NoNode}
      BY <2>2 DEF Cursor
    <2>4. {r.root, r.leaf} \subseteq (0..Top) \X (Pgs \cup {NoPage})
      BY <2>2 DEF Backups, Spots, Opt
    <2>5. r.own \in 0..Top
      BY <1>1, <2>2
    <2>6. Len(r.backup) < IF r.own > 0 THEN r.own ELSE 1
      BY <2>2
    <2> QED
      BY <2>1, <2>3, <2>4, <2>5, <2>6 DEF Open
  <1>4. ending = <<>> \/ ending \in {"commit", "abort"} \X (1..Top)
    BY DEF IInv, Types
  <1> QED
    BY <1>1, <1>2, <1>3, <1>4 DEF TypeOK, Lasts, MarksOK

(* The pages of a tree as Once counts them.                                *)
LEMMA LeavesAre ==
    ASSUME NEW D, WellMade(D), NEW L, L = Range(D.k) \ {NoPage},
           NEW ov, DOMAIN ov = L,
           \A n \in Nodes : D.k[n] # NoPage => ov[D.k[n]] = IF n = BigNode THEN D.o ELSE NoPage
    PROVE  /\ L = {D.k[n] : n \in Nodes} \ {NoPage}
           /\ Range(ov) \ {NoPage} = {D.o} \ {NoPage}
           /\ \A p, q \in L : ov[p] = ov[q] => p = q \/ ov[p] = NoPage
           /\ {D.r} \cap L = {} /\ D.o \notin L \cup {D.r}
           /\ PagesIn(D) = {D.r} \cup L \cup ({D.o} \ {NoPage})
  <1>1. /\ D \in Trees /\ BigNode \in Nodes /\ D.k[BigNode] # NoPage /\ D.o # D.r
        /\ \A m, n \in Nodes : D.k[m] = D.k[n] => m = n \/ D.k[m] = NoPage
        /\ \A n \in Nodes : D.k[n] # D.r /\ (D.k[n] # NoPage => D.k[n] # D.o)
        /\ DOMAIN D.k = Nodes /\ D.r # NoPage
    BY TreeFacts DEF WellMade, Trees
  <1>2. L = {D.k[n] : n \in Nodes} \ {NoPage}
    BY <1>1 DEF Range
  <1>3. \A p \in L : \E n \in Nodes : p = D.k[n] /\ D.k[n] # NoPage
    BY <1>2
  <1>4. \A p \in L : ov[p] = IF p = D.k[BigNode] THEN D.o ELSE NoPage
    BY <1>1, <1>3
  <1>5. D.k[BigNode] \in L
    BY <1>1, <1>2
  <1>6. \A y : y \in Range(ov) <=> \E p \in L : y = ov[p]
    BY DEF Range
  <1>7. Range(ov) \ {NoPage} = {D.o} \ {NoPage}
    BY <1>4, <1>5, <1>6
  <1>8. \A p, q \in L : ov[p] = ov[q] => p = q \/ ov[p] = NoPage
    BY <1>4
  <1>9. {D.r} \cap L = {} /\ D.o \notin L \cup {D.r}
    BY <1>1, <1>3
  <1>10. PagesIn(D) = {D.r} \cup L \cup ({D.o} \ {NoPage})
    BY <1>1, <1>2 DEF PagesIn
  <1> QED
    BY <1>2, <1>7, <1>8, <1>9, <1>10

LEMMA UsesAre ==
    ASSUME NEW a, NEW b, NEW c, NEW d, NEW e, NEW f, NEW g,
           NEW u, u = <<a, b, c, d, e, f, g>>
    PROVE  /\ u[1] = a /\ u[2] = b /\ u[3] = c /\ u[4] = d /\ u[5] = e /\ u[6] = f /\ u[7] = g
           /\ \A x : x \in UNION Range(u) <=> x \in a \cup b \cup c \cup d \cup e \cup f \cup g
  <1>1. u[1] = a /\ u[2] = b /\ u[3] = c /\ u[4] = d /\ u[5] = e /\ u[6] = f /\ u[7] = g
    OBVIOUS
  <1>2. DOMAIN u = 1..7
    OBVIOUS
  <1>3. \A i \in 1..7 : i = 1 \/ i = 2 \/ i = 3 \/ i = 4 \/ i = 5 \/ i = 6 \/ i = 7
    OBVIOUS
  <1>4. Range(u) = {u[i] : i \in 1..7}
    BY <1>2 DEF Range
  <1>5. Range(u) = {a, b, c, d, e, f, g}
    BY <1>1, <1>3, <1>4
  <1> QED
    BY <1>1, <1>5

LEMMA OnceFollows ==
    ASSUME IInv, NEW i \in 1..Top, Sound(i)
    PROVE  Once(i)
  <1>1. PICK D \in Trees : LevelOK(txns, file, HeadOf(i), LastOf(i), i, D)
    BY LevelAt
  <1>2. PICK t, h, l : t = txns[i] /\ h = HeadOf(i) /\ l = LastOf(i)
    OBVIOUS
  <1>3. /\ i \in Nat /\ i > 0 /\ t \in Txn
        /\ WellMade(D) /\ D.r = t.root /\ Shows(D, txns, i, file)
        /\ LooseOK(txns, i, t) /\ FreeOK(txns, i, t) /\ UseOK(txns, i, t, h, l, PagesIn(D))
        /\ \A k \in 1..i : k \in 1..Top
    BY <1>1, <1>2, LevelAt DEF LevelOK, ListsOK
  <1>4. Kids(txns, i, file) = D.k
    BY <1>2, <1>3 DEF Kids, Shows
  <1>5. PICK L : L = Range(D.k) \ {NoPage}
    OBVIOUS
  <1>6. PICK ov : ov = [p \in L |-> Page(txns, i, file, p).ov]
    OBVIOUS
  <1>7. /\ DOMAIN ov = L
        /\ \A n \in Nodes : D.k[n] # NoPage => ov[D.k[n]] = IF n = BigNode THEN D.o ELSE NoPage
    <2>1. D.k \in [Nodes -> Opt]
      BY <1>3 DEF WellMade, Trees
    <2>2. \A n \in Nodes : D.k[n] # NoPage => D.k[n] \in L
      BY <1>5, <2>1 DEF Range
    <2> QED
      BY <1>3, <1>6, <2>2 DEF Shows
  <1>8. /\ Range(ov) \ {NoPage} = {D.o} \ {NoPage}
        /\ \A p, q \in L : ov[p] = ov[q] => p = q \/ ov[p] = NoPage
        /\ {D.r} \cap L = {} /\ D.o \notin L \cup {D.r}
        /\ PagesIn(D) = {D.r} \cup L \cup ({D.o} \ {NoPage})
    BY <1>3, <1>5, <1>7, LeavesAre
  <1>9. PICK O, U, F, S : /\ O = {D.o} \ {NoPage} /\ U = Unread(i) /\ F = Freed(i) /\ S = LooseTo(i)
    OBVIOUS
  <1>10. /\ U = UnreadAfter(l)
         /\ \A p \in Pgs : p \in F <=> t.free[p] > 0 \/ p \in FreedIn(txns, i - 1)
         /\ \A p : p \in S <=> p \in ToSet(t.loose) \/ p \in LooseIn(txns, i - 1)
    <2>1. i \in 1..i /\ (\A j \in 1..i : j = i \/ j \in 1..(i - 1)) /\ \A j \in 1..(i - 1) : j \in 1..i
      BY <1>3
    <2>2. U = UnreadAfter(l)
      BY <1>2, <1>9 DEF Unread, UnreadAfter
    <2>3. \A p \in Pgs : p \in F <=> t.free[p] > 0 \/ p \in FreedIn(txns, i - 1)
      BY <1>2, <1>9, <2>1 DEF Freed, FreedIn
    <2>4. \A p : p \in S <=> p \in ToSet(t.loose) \/ p \in LooseIn(txns, i - 1)
      BY <1>2, <1>9, <2>1 DEF LooseTo, LooseIn
    <2> QED
      BY <2>2, <2>3, <2>4
  <1>11. /\ D.r \in Pgs /\ L \subseteq Pgs /\ O \subseteq Pgs /\ h \subseteq Pgs /\ U \subseteq Pgs
         /\ F \subseteq Pgs /\ S \subseteq Pgs
    <2>1. PagesIn(D) \subseteq Pgs
      BY <1>3, TreeFacts
    <2>2. h \subseteq Pgs
      <3>1. i = Top \/ i + 1 \in 1..Top
        BY <1>3, StackShape
      <3>2. txns[i + 1].head0 \subseteq Pgs \/ i = Top
        BY <3>1, StackShape DEF Txn
      <3> QED
        BY <1>2, <3>2, StackShape DEF HeadOf
    <2>3. l \in Lasts
      <3>1. i = Top \/ i + 1 \in 1..Top
        BY <1>3, StackShape
      <3>2. txns[i + 1].last0 \in Lasts \/ i = Top
        BY <3>1, StackShape DEF Txn
      <3> QED
        BY <1>2, <3>2, StackShape DEF LastOf
    <2>4. U \subseteq Pgs
      BY <1>10, <2>3, RecordsFacts
    <2>5. F \subseteq Pgs
      BY <1>9 DEF Freed
    <2>6. S \subseteq Pgs
      <3>1. \A j \in 1..i : ToSet(txns[j].loose) \subseteq Pgs
        <4> SUFFICES ASSUME NEW j \in 1..i
                     PROVE  ToSet(txns[j].loose) \subseteq Pgs
          OBVIOUS
        <4>1. txns[j] \in Txn
          BY <1>3, StackShape
        <4>2. txns[j].loose \in Seq(Pgs)
          BY <4>1 DEF Txn
        <4> QED
          BY <4>2 DEF ToSet
      <3> QED
        BY <1>9, <3>1 DEF LooseTo
    <2> QED
      BY <1>8, <1>9, <2>1, <2>2, <2>4, <2>5, <2>6
  <1>12. \A p \in Pgs : OneOf(p \in {D.r} \cup L \cup O, p \in h, p \in U, p \in F, p \in S, p \in From(t.next))
    <2>1. \A p \in Pgs : OneOf(p \in PagesIn(D), p \in h, p \in UnreadAfter(l),
                       t.free[p] > 0 \/ p \in FreedIn(txns, i - 1),
                       p \in ToSet(t.loose) \/ p \in LooseIn(txns, i - 1), p \in From(t.next))
      BY <1>3 DEF UseOK
    <2>2. PagesIn(D) = {D.r} \cup L \cup O
      BY <1>8, <1>9
    <2> QED
      BY <1>10, <2>1, <2>2 DEF OneOf
  <1>13. \A p : p \in 2..(t.next - 1) <=> p \in Pgs /\ p \notin From(t.next)
    <2>1. t.next \in Nat /\ MaxPg \in Nat /\ t.next <= MaxPg
      BY <1>3, BoundsAssumption DEF Txn
    <2> QED
      BY <2>1 DEF Pgs, From
  <1>14. PICK uses : uses = <<{D.r}, L, O, h, U, F, S>>
    OBVIOUS
  <1>15. /\ uses[1] = {D.r} /\ uses[2] = L /\ uses[3] = O /\ uses[4] = h /\ uses[5] = U
         /\ uses[6] = F /\ uses[7] = S
         /\ \A x : x \in UNION Range(uses) <=> x \in {D.r} \cup L \cup O \cup h \cup U \cup F \cup S
    BY <1>14, UsesAre
  <1>16. UNION Range(uses) = 2..(t.next - 1)
    <2>1. ASSUME NEW p
          PROVE  p \in UNION Range(uses) <=> p \in 2..(t.next - 1)
      <3>1. CASE p \in Pgs
        BY <1>12, <1>13, <1>15, <3>1 DEF OneOf
      <3>2. CASE p \notin Pgs
        BY <1>11, <1>13, <1>15, <3>2
      <3> QED
        BY <3>1, <3>2
    <2> QED
      BY <2>1
  <1>17. \A a, b \in 1..7 : uses[a] \cap uses[b] # {} => a = b
    <2>1. /\ {D.r} \cap L = {} /\ {D.r} \cap O = {} /\ L \cap O = {}
      BY <1>8, <1>9
    <2>2. \A p \in Pgs : /\ p \in {D.r} \cup L \cup O => p \notin h /\ p \notin U /\ p \notin F /\ p \notin S
                         /\ p \in h => p \notin U /\ p \notin F /\ p \notin S
                         /\ p \in U => p \notin F /\ p \notin S
                         /\ p \in F => p \notin S
      BY <1>12 DEF OneOf
    <2>3. /\ ({D.r} \cup L \cup O) \cap (h \cup U \cup F \cup S) = {}
          /\ h \cap (U \cup F \cup S) = {} /\ U \cap (F \cup S) = {} /\ F \cap S = {}
      BY <1>11, <2>2
    <2> SUFFICES ASSUME NEW a \in 1..7, NEW b \in 1..7, NEW x, x \in uses[a], x \in uses[b]
                 PROVE  a = b
      OBVIOUS
    <2>4. \A k \in 1..7 : k = 1 \/ k = 2 \/ k = 3 \/ k = 4 \/ k = 5 \/ k = 6 \/ k = 7
      OBVIOUS
    <2>5. /\ a = 1 \/ a = 2 \/ a = 3 \/ a = 4 \/ a = 5 \/ a = 6 \/ a = 7
          /\ b = 1 \/ b = 2 \/ b = 3 \/ b = 4 \/ b = 5 \/ b = 6 \/ b = 7
      BY <2>4
    <2> QED
      BY <1>15, <2>1, <2>3, <2>5
  <1>18. \A m, n \in Nodes : D.k[m] = D.k[n] => m = n \/ D.k[m] = NoPage
    BY <1>3 DEF WellMade
  <1>19. ASSUME NEW j \in 1..i, NEW k \in 1..i
         PROVE  /\ \A p \in Freed(i) :
                     txns[j].free[p] > 0 /\ txns[k].free[p] > 0 => j = k /\ txns[j].free[p] = 1
                /\ \A a \in DOMAIN txns[j].loose, b \in DOMAIN txns[k].loose :
                     txns[j].loose[a] = txns[k].loose[b] => j = k /\ a = b
    <2>1. ASSUME NEW n \in 1..i
          PROVE  LooseOK(txns, n, txns[n]) /\ FreeOK(txns, n, txns[n]) /\ txns[n] \in Txn
      <3>1. n \in 1..Top /\ Sound(n)
        <4>1. \A m \in 1..n : m \in 1..i
          BY <1>3
        <4> QED
          BY <1>3, <4>1 DEF Sound
      <3> QED
        BY <3>1, LevelAt DEF LevelOK, ListsOK
    <2>2. ASSUME NEW m \in 1..i, NEW n \in 1..i, m < n
          PROVE  /\ \A p \in Pgs : ~(txns[m].free[p] > 0 /\ txns[n].free[p] > 0)
                 /\ \A a \in DOMAIN txns[m].loose, b \in DOMAIN txns[n].loose :
                      txns[m].loose[a] # txns[n].loose[b]
      <3>1. m \in 1..(n - 1)
        BY <1>3, <2>2
      <3>2. \A p \in Pgs : ~(txns[m].free[p] > 0 /\ txns[n].free[p] > 0)
        BY <2>1, <3>1 DEF FreeOK, FreedIn
      <3>3. /\ LooseIn(txns, n - 1) \cap Held(txns[n]) = {}
            /\ ToSet(txns[n].loose) \subseteq DOMAIN txns[n].dirty
        BY <2>1 DEF LooseOK
      <3>4. ToSet(txns[m].loose) \subseteq LooseIn(txns, n - 1)
        BY <3>1 DEF LooseIn
      <3>5. ToSet(txns[n].loose) \subseteq Held(txns[n])
        BY <3>3 DEF Held
      <3>6. \A a \in DOMAIN txns[m].loose : txns[m].loose[a] \in ToSet(txns[m].loose)
        <4>1. txns[m].loose \in Seq(Pgs)
          BY <2>1 DEF Txn
        <4> QED
          BY <4>1 DEF ToSet
      <3>7. \A a \in DOMAIN txns[n].loose : txns[n].loose[a] \in ToSet(txns[n].loose)
        <4>1. txns[n].loose \in Seq(Pgs)
          BY <2>1 DEF Txn
        <4> QED
          BY <4>1 DEF ToSet
      <3> QED
        BY <3>2, <3>3, <3>4, <3>5, <3>6, <3>7
    <2>3. Freed(i) \subseteq Pgs
      BY DEF Freed
    <2>4. CASE j = k
      BY <2>1, <2>3, <2>4 DEF FreeOK, LooseOK
    <2>5. CASE j < k
      BY <2>2, <2>3, <2>5
    <2>6. CASE k < j
      BY <2>2, <2>3, <2>6
    <2> QED
      BY <1>3, <2>4, <2>5, <2>6
  <1>20. uses = <<{txns[i].root}, L, Range(ov) \ {NoPage}, HeadOf(i), Unread(i), Freed(i), LooseTo(i)>>
    BY <1>2, <1>3, <1>8, <1>9, <1>14
  <1> DEFINE kids == Kids(txns, i, file)
             leaves == Range(kids) \ {NoPage}
             ovs == [p \in leaves |-> Page(txns, i, file, p).ov]
             all == <<{txns[i].root}, leaves, Range(ovs) \ {NoPage}, HeadOf(i), Unread(i),
                      Freed(i), LooseTo(i)>>
  <1>21. kids = D.k
    BY <1>4
  <1>22. leaves = L
    BY <1>5, <1>21
  <1>23. ovs = ov
    BY <1>6, <1>22
  <1>24. all = uses
    BY <1>20, <1>22, <1>23
  <1> HIDE DEF kids, leaves, ovs, all
  <1>25. UNION Range(all) = 2..(txns[i].next - 1)
    BY <1>2, <1>16, <1>24
  <1>26. \A a, b \in 1..7 : all[a] \cap all[b] # {} => a = b
    BY <1>17, <1>24
  <1>27. \A m, n \in Nodes : kids[m] = kids[n] => m = n \/ kids[m] = NoPage
    BY <1>18, <1>21
  <1>28. \A p, q \in leaves : ovs[p] = ovs[q] => p = q \/ ovs[p] = NoPage
    BY <1>8, <1>22, <1>23
  <1> QED
    BY <1>19, <1>25, <1>26, <1>27, <1>28, Zenon DEF Once, kids, leaves, ovs, all

LEMMA PagesFollow ==
    ASSUME IInv, MarksOK
    PROVE  PagesOnce
  <1> QED
    BY TypesFollow, OnceFollows DEF PagesOnce

-----------------------------------------------------------------------------
(* What the transactions see, and what they promise.                       *)

(* A sequence of n values, whatever they are.                              *)
Row(g, n) == n \in Nat /\ DOMAIN g = 1..n /\ g = [i \in 1..n |-> g[i]]

(* Two of them are sequences over one set.                                 *)
LEMMA Rows ==
    ASSUME NEW s, NEW m, Row(s, m), NEW t, NEW n, Row(t, n)
    PROVE  /\ Len(s) = m /\ Len(t) = n
           /\ \E S : s \in Seq(S) /\ t \in Seq(S)
  <1>1. PICK S : S = {s[i] : i \in 1..m} \cup {t[i] : i \in 1..n}
    OBVIOUS
  <1>2. s \in [1..m -> S] /\ t \in [1..n -> S] /\ m \in Nat /\ n \in Nat
    BY <1>1 DEF Row
  <1>3. s \in Seq(S) /\ t \in Seq(S)
    BY <1>2, SeqDef
  <1>4. Len(s) = m /\ Len(t) = n
    BY <1>2, <1>3
  <1> QED
    BY <1>3, <1>4

(* The last of a sequence is another, and so the whole.                    *)
LEMMA TopStep ==
    ASSUME NEW s, NEW t, NEW n, n > 0, Row(s, n), Row(t, n), \A j \in 1..(n - 1) : t[j] = s[j]
    PROVE  /\ t[n] = Failed => Promise!Fail(s, t)
           /\ /\ s[n] # Failed /\ t[n] # Failed
              /\ Cardinality({k \in Nodes : t[n][k] # s[n][k]}) <= 2
              => Promise!Change(s, t)
  <1>1. PICK S : s \in Seq(S) /\ t \in Seq(S) /\ Len(s) = n /\ Len(t) = n /\ n \in Nat
    BY Rows DEF Row
  <1>2. /\ s # <<>> /\ t # <<>> /\ Last(s) = s[n] /\ Last(t) = t[n]
        /\ Promise!Last(s) = s[n] /\ Promise!Last(t) = t[n]
    BY <1>1 DEF Last, Promise!Last
  <1>3. t = Append(Promise!Front(s), t[n])
    <2>1. PICK r : r = Promise!Front(s)
      OBVIOUS
    <2>2. r \in Seq(S) /\ Len(r) = n - 1 /\ \A j \in 1..(n - 1) : r[j] = s[j]
      BY <1>1, <2>1 DEF Promise!Front
    <2>3. t[n] \in S /\ n - 1 + 1 = n
      BY <1>1
    <2>4. Append(r, t[n]) \in Seq(S) /\ Len(Append(r, t[n])) = n
      BY <2>2, <2>3, <1>1
    <2>5. \A j \in 1..n : Append(r, t[n])[j] = t[j]
      BY <2>2, <2>3, <1>1
    <2> QED
      BY <1>1, <2>1, <2>4, <2>5, SeqEqual
  <1>4. \A T : Promise!Cardinality(T) = Cardinality(T)
    BY DEF Promise!Cardinality, Cardinality, Promise!IsFiniteSet, IsFiniteSet
  <1>5. PICK a, b : a = s[n] /\ b = t[n]
    OBVIOUS
  <1>6. PICK T : T = {k \in Nodes : b[k] # a[k]}
    OBVIOUS
  <1>7. b = Failed => Promise!Fail(s, t)
    BY <1>2, <1>3, <1>5 DEF Promise!Fail, Promise!With
  <1>8. a # Failed /\ b # Failed /\ Cardinality(T) <= 2 => Promise!Change(s, t)
    <2>1. Promise!Cardinality(T) = Cardinality(T)
      BY <1>4
    <2>2. {k \in Nodes : Promise!Last(t)[k] # Promise!Last(s)[k]} = T
      BY <1>2, <1>5, <1>6
    <2>3. a # Failed /\ b # Failed => Promise!Usable(s) /\ Promise!Usable(t)
      BY <1>2, <1>5 DEF Promise!Usable
    <2>4. t = Promise!With(s, Promise!Last(t))
      BY <1>2, <1>3 DEF Promise!With
    <2> QED
      BY <2>1, <2>2, <2>3, <2>4 DEF Promise!Change
  <1> QED
    BY <1>5, <1>6, <1>7, <1>8

(* One more, one fewer, and one fewer with the last in the place of the    *)
(* one before.                                                             *)
LEMMA BeginStep ==
    ASSUME NEW s, NEW t, NEW n, n > 0, Row(s, n), Row(t, n + 1), \A j \in 1..n : t[j] = s[j],
           t[n + 1] = s[n], s[n] # Failed
    PROVE  Promise!Begin(s, t)
  <1>1. PICK S : s \in Seq(S) /\ t \in Seq(S) /\ Len(s) = n /\ Len(t) = n + 1 /\ n \in Nat
    BY Rows DEF Row
  <1>2. s # <<>> /\ Promise!Last(s) = s[n] /\ s[n] \in S
    BY <1>1 DEF Promise!Last
  <1>3. t = Append(s, s[n])
    <2>1. Append(s, s[n]) \in Seq(S) /\ Len(Append(s, s[n])) = n + 1
      BY <1>1, <1>2
    <2>2. \A j \in 1..(n + 1) : Append(s, s[n])[j] = t[j]
      BY <1>1, <1>2
    <2> QED
      BY <1>1, <2>1, <2>2, SeqEqual
  <1> QED
    BY <1>2, <1>3 DEF Promise!Begin, Promise!Usable

LEMMA AbortStep ==
    ASSUME NEW s, NEW t, NEW n, n > 0, Row(s, n), Row(t, n - 1), \A j \in 1..(n - 1) : t[j] = s[j]
    PROVE  Promise!Abort(s, t)
  <1>1. PICK S : s \in Seq(S) /\ t \in Seq(S) /\ Len(s) = n /\ Len(t) = n - 1 /\ n \in Nat
    BY Rows DEF Row
  <1>2. s # <<>>
    BY <1>1
  <1>3. PICK r : r = Promise!Front(s)
    OBVIOUS
  <1>4. r \in Seq(S) /\ Len(r) = n - 1 /\ \A j \in 1..(n - 1) : r[j] = s[j]
    BY <1>1, <1>3 DEF Promise!Front
  <1>5. t = r
    BY <1>1, <1>4, SeqEqual
  <1> QED
    BY <1>2, <1>3, <1>5 DEF Promise!Abort

LEMMA CommitStep ==
    ASSUME NEW s, NEW t, NEW n, n > 1, Row(s, n), Row(t, n - 1),
           \A j \in 1..(n - 2) : t[j] = s[j], t[n - 1] \in {s[n], Failed}
    PROVE  Promise!Commit(s, t)
  <1>1. PICK S : s \in Seq(S) /\ t \in Seq(S) /\ Len(s) = n /\ Len(t) = n - 1 /\ n \in Nat
    BY Rows DEF Row
  <1>2. Promise!Last(s) = s[n]
    BY <1>1 DEF Promise!Last
  <1>3. PICK r : r = Promise!Front(s)
    OBVIOUS
  <1>4. r \in Seq(S) /\ Len(r) = n - 1 /\ \A j \in 1..(n - 1) : r[j] = s[j]
    BY <1>1, <1>3 DEF Promise!Front
  <1>5. PICK q : q = Promise!Front(r)
    OBVIOUS
  <1>6. q \in Seq(S) /\ Len(q) = n - 2 /\ \A j \in 1..(n - 2) : q[j] = r[j]
    BY <1>1, <1>4, <1>5 DEF Promise!Front
  <1>7. t[n - 1] \in S /\ n - 2 + 1 = n - 1
    BY <1>1
  <1>8. t = Append(q, t[n - 1])
    <2>1. Append(q, t[n - 1]) \in Seq(S) /\ Len(Append(q, t[n - 1])) = n - 1
      BY <1>1, <1>6, <1>7
    <2>2. \A j \in 1..(n - 1) : Append(q, t[n - 1])[j] = t[j]
      BY <1>1, <1>4, <1>6, <1>7
    <2> QED
      BY <1>1, <2>1, <2>2, SeqEqual
  <1>9. \E i \in {Promise!Last(s), Failed} : t = Promise!With(r, i)
    BY <1>2, <1>5, <1>8 DEF Promise!With
  <1> QED
    BY <1>1, <1>3, <1>9 DEF Promise!Commit

(* What the i-th transaction of s sees.                                    *)
Look(s, i, f) == IF s[i].error THEN Failed ELSE Image(s, i, f, s[i].root)

LEMMA ImagesAre ==
    ASSUME NEW s \in Seq(Txn), NEW f, NEW m, NEW w, w = Images(s, f, m)
    PROVE  /\ Row(w.stack, Len(s)) /\ \A i \in 1..Len(s) : w.stack[i] = Look(s, i, f)
           /\ w.stored = Image(s, 0, f, m)
  <1>1. Len(s) \in Nat /\ DOMAIN s = 1..Len(s)
    OBVIOUS
  <1>2. w.stack = [i \in 1..Len(s) |-> Look(s, i, f)] /\ w.stored = Image(s, 0, f, m)
    BY <1>1 DEF Images, Look
  <1>3. PICK g : g = w.stack
    OBVIOUS
  <1>4. g = [i \in 1..Len(s) |-> Look(s, i, f)]
    BY <1>2, <1>3
  <1>5. DOMAIN g = 1..Len(s) /\ (\A i \in 1..Len(s) : g[i] = Look(s, i, f)) /\ g = [i \in 1..Len(s) |-> g[i]]
    BY <1>4
  <1> QED
    BY <1>1, <1>2, <1>3, <1>5 DEF Row

LEMMA SeesAre ==
    ASSUME IInv
    PROVE  /\ Row(sees.stack, Top) /\ \A i \in 1..Top : sees.stack[i] = Look(txns, i, file)
           /\ sees.stored = Image(txns, 0, file, meta)
  <1>1. txns \in Seq(Txn) /\ Len(txns) = Top /\ sees = Images(txns, file, meta)
    BY StackShape DEF IInv, Seeing
  <1> QED
    BY <1>1, ImagesAre

(* The same lists show the same.                                           *)
LEMMA LookSame ==
    ASSUME NEW s, NEW r, NEW i \in Nat, i > 0, s[i].error = r[i].error, s[i].root = r[i].root,
           \A j \in 1..i : s[j].dirty = r[j].dirty /\ s[j].spill = r[j].spill, NEW f
    PROVE  Look(s, i, f) = Look(r, i, f)
  <1>1. \A p : Page(s, i, f, p) = Page(r, i, f, p)
    BY WhereSame
  <1>2. Image(s, i, f, s[i].root) = Image(r, i, f, r[i].root)
    BY <1>1 DEF Image, Content
  <1> QED
    BY <1>2 DEF Look

LEMMA StoredSame ==
    ASSUME NEW s, NEW r, NEW f, NEW m
    PROVE  Image(s, 0, f, m) = Image(r, 0, f, m)
  <1>1. \A p : Page(s, 0, f, p) = f[p] /\ Page(r, 0, f, p) = f[p]
    BY PageNone
  <1> QED
    BY <1>1 DEF Image, Content

-----------------------------------------------------------------------------
(* Each step of the transactions is one of the images, or none.            *)

LEMMA Promised ==
    ASSUME NEW g, NEW h, g = sees.stack, h = sees'.stack, sees'.stored = sees.stored,
           \/ Promise!Fail(g, h)
           \/ /\ pkeep' # {} => pkeep # {}
              /\ \/ Promise!Begin(g, h) \/ Promise!Change(g, h) \/ Promise!Abort(g, h)
                 \/ Promise!Commit(g, h)
    PROVE  Promise!Next
  BY DEF Promise!Next

(* A call reaches two nodes at most.                                       *)
LEMMA NearFew ==
    ASSUME NEW D, NEW E, Near(D, E)
    PROVE  Cardinality({k \in Nodes : Picture(E)[k] # Picture(D)[k]}) <= 2
  <1>1. PICK a \in Nodes, b \in Nodes : \A n \in Nodes \ {a, b} : Picture(E)[n] = Picture(D)[n]
    BY DEF Near
  <1>2. PICK T : T = {k \in Nodes : Picture(E)[k] # Picture(D)[k]}
    OBVIOUS
  <1>3. T \subseteq {a, b}
    BY <1>1, <1>2
  <1>4. /\ IsFiniteSet({a}) /\ Cardinality({a}) = 1
    BY FS_Singleton
  <1>5. /\ IsFiniteSet({a} \cup {b}) /\ Cardinality({a} \cup {b}) <= 2
    <2>1. CASE b \in {a}
      <3>1. {a} \cup {b} = {a}
        BY <2>1
      <3> QED
        BY <3>1, <1>4
    <2>2. CASE b \notin {a}
      <3>1. IsFiniteSet({a} \cup {b}) /\ Cardinality({a} \cup {b}) = Cardinality({a}) + 1
        BY <2>2, <1>4, FS_AddElement
      <3> QED
        BY <3>1, <1>4
    <2> QED
      BY <2>1, <2>2
  <1>6. T \subseteq {a} \cup {b}
    BY <1>3
  <1>7. Cardinality(T) <= Cardinality({a} \cup {b}) /\ IsFiniteSet(T)
    BY <1>5, <1>6, FS_Subset
  <1>8. Cardinality(T) \in Nat /\ Cardinality({a} \cup {b}) \in Nat
    BY <1>5, <1>7, FS_CardinalityType
  <1> QED
    BY <1>2, <1>5, <1>7, <1>8

(* A transaction that has not failed sees a tree.                          *)
LEMMA LookSound ==
    ASSUME IInv, NEW i \in 1..Top, ~txns[i].error
    PROVE  Look(txns, i, file) # Failed
  <1>1. PICK D \in Trees : LevelOK(txns, file, HeadOf(i), LastOf(i), i, D)
    BY DEF IInv, LevelsOK
  <1>2. WellMade(D) /\ D.r = txns[i].root /\ Shows(D, txns, i, file)
    BY <1>1 DEF LevelOK
  <1>3. Image(txns, i, file, txns[i].root) = Picture(D)
    BY <1>2, ImageIs
  <1> QED
    BY <1>2, <1>3, PictureSound DEF Look

(* A level sees the same tree, whatever has been written to the map.       *)
LEMMA ImageCarried ==
    ASSUME NEW i \in Nat \ {0}, NEW s, NEW r, \A j \in 1..i : r[j] = s[j],
           NEW f, NEW g, NEW h, NEW l, NEW D, LevelOK(s, f, h, l, i, D),
           \A p \in PagesIn(D) : Page(s, i, g, p) = Page(s, i, f, p)
    PROVE  Image(r, i, g, r[i].root) = Image(s, i, f, s[i].root)
  <1>1. LevelOK(r, g, h, l, i, D)
    BY Carried
  <1>2. Image(r, i, g, r[i].root) = Picture(D)
    BY <1>1, ImageIs DEF LevelOK
  <1>3. Image(s, i, f, s[i].root) = Picture(D)
    BY ImageIs DEF LevelOK
  <1> QED
    BY <1>2, <1>3

(* An operation changes the innermost image or fails its transaction.      *)
LEMMA OperationPromised ==
    ASSUME IInv, Operation
    PROVE  Promise!Next
  <1>1. PICK D, x : Begun(D) /\ Ends(x, D) /\ Apply(x)
    BY OperationEnds
  <1>2. PICK s, f, g, h, n : /\ s = Chain(x) /\ f = x.file /\ g = sees.stack /\ h = sees'.stack
                             /\ n = Top
    OBVIOUS
  <1>3. txns' = s /\ file' = f /\ meta' = meta /\ sees' = Images(s, f, meta)
    BY <1>1, <1>2 DEF Apply, Becomes
  <1>4. /\ Types /\ LevelsOK /\ StoredOK /\ Top > 0 /\ ~txns[Top].error /\ Level(Top, D)
        /\ Started /\ Typed(x) /\ Safe(f) /\ x \in WorkT /\ x.t \in Txn
    BY <1>1, <1>2 DEF IInv, Begun, Ends, Typed, WorkT
  <1>5. /\ s \in Seq(Txn) /\ Len(s) = n /\ s[n] = x.t /\ n \in Nat \ {0} /\ n - 1 \in Nat
        /\ \A j \in 1..(n - 1) : s[j] = txns[j]
    BY <1>2, <1>4, ChainFacts, Shapes DEF Types
  <1>6. /\ Row(g, n) /\ \A i \in 1..n : g[i] = Look(txns, i, file)
        /\ Row(h, n) /\ \A i \in 1..n : h[i] = Look(s, i, f)
        /\ sees.stored = Image(txns, 0, file, meta) /\ sees'.stored = Image(s, 0, f, meta)
    <2>1. /\ Row(g, n) /\ \A i \in 1..n : g[i] = Look(txns, i, file)
          /\ sees.stored = Image(txns, 0, file, meta)
      BY <1>2, SeesAre
    <2>2. /\ Row(h, n) /\ \A i \in 1..n : h[i] = Look(s, i, f)
          /\ sees'.stored = Image(s, 0, f, meta)
      BY <1>2, <1>3, <1>5, ImagesAre
    <2> QED
      BY <2>1, <2>2
  <1>7. sees'.stored = sees.stored
    <2>1. meta = HomeRoot /\ AsStored(file)
      BY <1>4 DEF StoredOK, AsStored, FirstVal
    <2>2. AsStored(f)
      BY <1>4, <2>1 DEF Safe, AsStored
    <2> QED
      BY <1>6, <2>1, <2>2, StoredImage
  <1>8. \A j \in 1..(n - 1) : h[j] = g[j]
    <2> SUFFICES ASSUME NEW j \in 1..(n - 1)
                 PROVE  h[j] = g[j]
      OBVIOUS
    <2>1. j \in 1..n /\ j \in Nat \ {0} /\ (\A k \in 1..j : s[k] = txns[k]) /\ s[j] = txns[j]
      BY <1>5
    <2>2. PICK B \in Trees : Level(j, B)
      BY <1>2, <1>4, LowerLevels
    <2>3. LevelOK(txns, file, HeadOf(j), LastOf(j), j, B)
      BY <2>2 DEF Level
    <2>4. \A p \in PagesIn(B) : Page(txns, j, f, p) = Page(txns, j, file, p)
      BY <1>2, <1>4, <2>2 DEF Safe
    <2>5. Image(s, j, f, s[j].root) = Image(txns, j, file, txns[j].root)
      <3>1. PICK hd, lt : LevelOK(txns, file, hd, lt, j, B)
        BY <2>3
      <3>2. j \in Nat \ {0} /\ \A k \in 1..j : s[k] = txns[k]
        BY <2>1
      <3> QED
        BY <2>4, <3>1, <3>2, ImageCarried
    <2> QED
      BY <1>6, <2>1, <2>5 DEF Look
  <1>9. g[n] = Picture(D) /\ g[n] # Failed
    <2>1. n \in 1..n
      BY <1>5
    <2>2. WellMade(D) /\ D.r = txns[n].root /\ Shows(D, txns, n, file)
      BY <1>2, <1>4 DEF Level, LevelOK
    <2>3. Image(txns, n, file, txns[n].root) = Picture(D)
      BY <2>2, ImageIs
    <2> QED
      BY <1>2, <1>4, <1>6, <2>1, <2>2, <2>3, PictureSound DEF Look
  <1>10. n \in 1..n /\ n > 0 /\ h[n] = Look(s, n, f)
    BY <1>5, <1>6
  <1>11. CASE Failing(x)
    <2>1. h[n] = Failed
      BY <1>5, <1>10, <1>11 DEF Failing, Look
    <2>2. Promise!Fail(g, h)
      BY <1>6, <1>8, <1>10, <2>1, TopStep
    <2> QED
      BY <1>2, <1>7, <2>2, Promised
  <1>12. CASE ~Failing(x)
    <2>1. PICK E \in Trees : \E y : Fine(y, E) /\ Likewise(x, y) /\ Near(D, E)
      BY <1>1, <1>12 DEF Ends
    <2>2. PICK y : Fine(y, E) /\ Likewise(x, y) /\ Near(D, E)
      BY <2>1
    <2>3. /\ y.t \in Txn /\ ~y.t.error /\ WellMade(E) /\ E.r = y.t.root /\ Shown(y, E)
      BY <2>2, <1>4, FineFacts DEF Good
    <2>4. Chain(y) = s /\ y.file = f /\ y.t = x.t
      BY <2>2, <1>2 DEF Likewise, Chain
    <2>5. Shows(E, s, n, f)
      BY <1>2, <2>3, <2>4 DEF Shown
    <2>6. h[n] = Picture(E) /\ h[n] # Failed
      <3>1. Image(s, n, f, s[n].root) = Picture(E)
        BY <1>5, <2>3, <2>4, <2>5, ImageIs
      <3> QED
        BY <1>5, <1>10, <2>3, <2>4, <3>1, PictureSound DEF Look
    <2>7. Cardinality({k \in Nodes : h[n][k] # g[n][k]}) <= 2
      BY <1>9, <2>2, <2>6, NearFew
    <2>8. Promise!Change(g, h)
      BY <1>6, <1>8, <1>9, <1>10, <2>6, <2>7, TopStep
    <2>9. \A m : ~SpillFails(m)
      <3>1. ~txns'[Top].error
        BY <1>2, <1>3, <1>5, <2>3, <2>4
      <3>2. txns \in Seq(Txn)
        BY <1>4 DEF Types, Stacked
      <3> QED
        BY <1>4, <3>1, <3>2, SpillFailsIs
    <2>10. pkeep' # {} => pkeep # {}
      BY <2>9, MarksStay DEF Next
    <2> QED
      BY <1>2, <1>7, <2>8, <2>10, Promised
  <1> QED
    BY <1>11, <1>12

(* The child begins with its parent's image.                               *)
LEMMA BeginPromised ==
    ASSUME IInv, Begin
    PROVE  Promise!Next
  <1>1. /\ Top > 0 /\ ~txns[Top].error
        /\ sees' = Images(Append(txns, Child), file, meta)
    BY DEF Begin, CanWork, Blocked, Becomes
  <1>2. PICK s, u, n, g, h : /\ s = Append(txns, Child) /\ u = Child /\ n = Top
                             /\ g = sees.stack /\ h = sees'.stack
    OBVIOUS
  <1>3. /\ s \in Seq(Txn) /\ Len(s) = n + 1 /\ (\A j \in 1..n : s[j] = txns[j])
        /\ s[n + 1] = u /\ Begins(txns[n], u, pghead, pglast) /\ n \in Nat /\ n > 0
    BY <1>1, <1>2, ChildIs, StackShape
  <1>4. /\ Row(g, n) /\ \A i \in 1..n : g[i] = Look(txns, i, file)
        /\ Row(h, n + 1) /\ \A i \in 1..(n + 1) : h[i] = Look(s, i, file)
        /\ sees.stored = Image(txns, 0, file, meta) /\ sees'.stored = Image(s, 0, file, meta)
    <2>1. /\ Row(g, n) /\ \A i \in 1..n : g[i] = Look(txns, i, file)
          /\ sees.stored = Image(txns, 0, file, meta)
      BY <1>2, SeesAre
    <2>2. /\ Row(h, n + 1) /\ \A i \in 1..(n + 1) : h[i] = Look(s, i, file)
          /\ sees'.stored = Image(s, 0, file, meta)
      <3>1. sees' = Images(s, file, meta) /\ s \in Seq(Txn) /\ Len(s) = n + 1 /\ h = sees'.stack
        BY <1>1, <1>2, <1>3
      <3> QED
        BY <3>1, ImagesAre
    <2> QED
      BY <2>1, <2>2
  <1>5. sees'.stored = sees.stored
    BY <1>4, StoredSame
  <1>6. \A j \in 1..n : h[j] = g[j]
    <2> SUFFICES ASSUME NEW j \in 1..n
                 PROVE  h[j] = g[j]
      OBVIOUS
    <2>1. j \in Nat /\ j > 0 /\ j \in 1..(n + 1) /\ s[j] = txns[j] /\ \A k \in 1..j : s[k] = txns[k]
      BY <1>3
    <2>2. Look(s, j, file) = Look(txns, j, file)
      BY <2>1, LookSame
    <2> QED
      BY <1>4, <2>1, <2>2
  <1>7. h[n + 1] = g[n] /\ g[n] # Failed
    <2>1. n + 1 \in 1..(n + 1) /\ n \in 1..n
      BY <1>3
    <2>2. u.dirty = <<>> /\ u.spill = {} /\ u.root = txns[n].root /\ u.error = txns[n].error
      BY <1>3 DEF Begins
    <2>3. \A f, p : Page(s, n + 1, f, p) = Page(txns, n, f, p)
      BY <1>3, <2>2, BeginsSees
    <2>4. Image(s, n + 1, file, u.root) = Image(txns, n, file, txns[n].root)
      BY <2>2, <2>3 DEF Image, Content
    <2>5. Look(s, n + 1, file) = Look(txns, n, file)
      BY <1>3, <2>2, <2>4 DEF Look
    <2>6. Look(txns, n, file) # Failed
      BY <1>1, <1>2, <2>1, LookSound
    <2> QED
      BY <1>4, <2>1, <2>5, <2>6
  <1>8. Promise!Begin(g, h)
    BY <1>3, <1>4, <1>6, <1>7, BeginStep
  <1>9. pkeep' = pkeep
    BY DEF Begin
  <1> QED
    BY <1>2, <1>5, <1>8, <1>9, Promised

(* The transaction inside is aborted; its parent may fail with it.         *)
LEMMA DroppedPromised ==
    ASSUME IInv, Top > 0, NEW s, s = Front(txns) \/ s = Poisoned(Front(txns)), Dropped(s)
    PROVE  Promise!Next
  <1>1. PICK r, n, g, h : r = Front(txns) /\ n = Top /\ g = sees.stack /\ h = sees'.stack
    OBVIOUS
  <1>2. /\ r \in Seq(Txn) /\ Len(r) = n - 1 /\ (\A j \in 1..(n - 1) : r[j] = txns[j])
        /\ n \in Nat /\ n > 0 /\ n - 1 \in Nat
    BY <1>1, StackShape, FrontIs
  <1>3. /\ s \in Seq(Txn) /\ Len(s) = n - 1
        /\ \A j \in 1..(n - 2) : s[j] = r[j]
        /\ \A j \in 1..(n - 1) :
             s[j].dirty = txns[j].dirty /\ s[j].spill = txns[j].spill /\ s[j].root = txns[j].root
        /\ s = r \/ (n > 1 => s[n - 1].error)
    <2>1. CASE s = r
      BY <1>2, <2>1
    <2>2. CASE s = Poisoned(r)
      <3>1. /\ s \in Seq(Txn) /\ Len(s) = Len(r) /\ \A j \in 1..(Len(r) - 1) : s[j] = r[j]
            /\ \A j \in 1..Len(r) :
                 s[j].dirty = r[j].dirty /\ s[j].spill = r[j].spill /\ s[j].root = r[j].root
            /\ r # <<>> => s[Len(r)].error
        BY <1>2, <2>2, PoisonedIs
      <3>2. (n > 1 => r # <<>>) /\ Len(r) - 1 = n - 2
        BY <1>2
      <3> QED
        BY <1>2, <3>1, <3>2
    <2> QED
      BY <1>1, <2>1, <2>2
  <1>4. sees' = Images(s, file, meta)
    BY DEF Dropped, Becomes
  <1>5. /\ Row(g, n) /\ \A i \in 1..n : g[i] = Look(txns, i, file)
        /\ sees.stored = Image(txns, 0, file, meta)
    BY <1>1, SeesAre
  <1>6. /\ Row(h, n - 1) /\ \A i \in 1..(n - 1) : h[i] = Look(s, i, file)
        /\ sees'.stored = Image(s, 0, file, meta)
    <2>1. s \in Seq(Txn) /\ Len(s) = n - 1 /\ h = sees'.stack
      BY <1>1, <1>3
    <2> QED
      BY <1>4, <2>1, ImagesAre
  <1>7. sees'.stored = sees.stored
    BY <1>5, <1>6, StoredSame
  <1>8. ASSUME NEW j \in 1..(n - 1), s[j].error = txns[j].error
        PROVE  h[j] = g[j]
    <2>1. /\ j \in Nat /\ j > 0 /\ j \in 1..n
          /\ \A k \in 1..j : s[k].dirty = txns[k].dirty /\ s[k].spill = txns[k].spill
          /\ s[j].root = txns[j].root
      BY <1>2, <1>3
    <2>2. Look(s, j, file) = Look(txns, j, file)
      BY <1>8, <2>1, LookSame
    <2> QED
      BY <1>5, <1>6, <2>1, <2>2
  <1>9. \A j \in 1..(n - 2) : h[j] = g[j]
    <2> SUFFICES ASSUME NEW j \in 1..(n - 2)
                 PROVE  h[j] = g[j]
      OBVIOUS
    <2>1. j \in 1..(n - 1)
      BY <1>2
    <2>2. s[j].error = txns[j].error
      BY <1>2, <1>3, <2>1
    <2> QED
      BY <1>8, <2>1, <2>2
  <1>12. pkeep' # {} => pkeep # {}
    BY DEF Dropped, Above
  <1>10. CASE s = r \/ n = 1
    <2>1. \A j \in 1..(n - 1) : h[j] = g[j]
      <3> SUFFICES ASSUME NEW j \in 1..(n - 1)
                   PROVE  h[j] = g[j]
        OBVIOUS
      <3>1. s = r
        BY <1>2, <1>10
      <3>2. s[j].error = txns[j].error
        BY <1>2, <3>1
      <3> QED
        BY <1>8, <3>2
    <2>2. Promise!Abort(g, h)
      BY <1>2, <1>5, <1>6, <2>1, AbortStep
    <2> QED
      BY <1>1, <1>7, <1>12, <2>2, Promised
  <1>11. CASE s # r /\ n # 1
    <2>1. n > 1 /\ n - 1 \in 1..(n - 1)
      BY <1>2, <1>11
    <2>2. h[n - 1] = Failed
      BY <1>3, <1>6, <1>11, <2>1 DEF Look
    <2>3. Promise!Commit(g, h)
      BY <1>5, <1>6, <1>9, <2>1, <2>2, CommitStep
    <2> QED
      BY <1>1, <1>7, <1>12, <2>3, Promised
  <1> QED
    BY <1>10, <1>11

LEMMA AbortPromised ==
    ASSUME IInv, NEW i, Abort(i) \/ CommitFailed(i) \/ CommitNoMemory(i)
    PROVE  Promise!Next
  <1>1. i \in 1..Top /\ (Dropped(Front(txns)) \/ Dropped(Poisoned(Front(txns))))
    BY DEF Abort, CommitFailed, CommitNoMemory, Ending
  <1>2. Top > 0
    BY <1>1, StackShape
  <1> QED
    BY <1>1, <1>2, DroppedPromised

(* What the child saw is what its parent sees.                             *)
LEMMA MergedPromised ==
    ASSUME IInv, Top > 1, ~txns[Top].error, NEW m \in Txn,
           m.error \/ Joins(txns[Top - 1], txns[Top], m),
           Becomes(Append(SubSeq(txns, 1, Top - 2), m), file, meta), pkeep' # {} => pkeep # {}
    PROVE  Promise!Next
  <1>1. PICK s, k, n, g, h, r : /\ s = Append(SubSeq(txns, 1, Top - 2), m) /\ k = Top /\ n = k - 1
                                /\ g = sees.stack /\ h = sees'.stack /\ r = SubSeq(txns, 1, n - 1)
    OBVIOUS
  <1>2. /\ txns \in Seq(Txn) /\ Len(txns) = k /\ k \in Nat /\ k > 1 /\ n \in Nat /\ n > 0 /\ k = n + 1
        /\ k - 2 = n - 1 /\ n \in 1..n /\ k \in 1..k
    BY <1>1, StackShape
  <1>3. /\ s \in Seq(Txn) /\ Len(s) = n /\ s[n] = m
        /\ \A j \in 1..(n - 1) : s[j] = txns[j]
    <2>1. r \in Seq(Txn) /\ Len(r) = n - 1 /\ \A j \in 1..(n - 1) : r[j] = txns[j]
      BY <1>1, <1>2
    <2>2. s = Append(r, m)
      BY <1>1, <1>2
    <2> QED
      BY <1>2, <2>1, <2>2
  <1>4. sees' = Images(s, file, meta)
    BY <1>1 DEF Becomes
  <1>5. /\ Row(g, k) /\ \A i \in 1..k : g[i] = Look(txns, i, file)
        /\ sees.stored = Image(txns, 0, file, meta)
    BY <1>1, SeesAre
  <1>6. /\ Row(h, n) /\ \A i \in 1..n : h[i] = Look(s, i, file)
        /\ sees'.stored = Image(s, 0, file, meta)
    <2>1. s \in Seq(Txn) /\ Len(s) = n /\ h = sees'.stack
      BY <1>1, <1>3
    <2> QED
      BY <1>4, <2>1, ImagesAre
  <1>7. sees'.stored = sees.stored
    BY <1>5, <1>6, StoredSame
  <1>8. \A j \in 1..(n - 1) : h[j] = g[j]
    <2> SUFFICES ASSUME NEW j \in 1..(n - 1)
                 PROVE  h[j] = g[j]
      OBVIOUS
    <2>1. /\ j \in Nat /\ j > 0 /\ j \in 1..n /\ j \in 1..k /\ s[j] = txns[j]
          /\ \A i \in 1..j : s[i] = txns[i]
      BY <1>2, <1>3
    <2>2. Look(s, j, file) = Look(txns, j, file)
      BY <2>1, LookSame
    <2> QED
      BY <1>5, <1>6, <2>1, <2>2
  <1>9. h[n] \in {g[k], Failed}
    <2>1. CASE m.error
      BY <1>2, <1>3, <1>6, <2>1 DEF Look
    <2>2. CASE ~m.error
      <3>1. PICK q, t : q = txns[n] /\ t = txns[k]
        OBVIOUS
      <3>2. Joins(q, t, m) /\ ~t.error
        BY <1>1, <2>2, <3>1
      <3>3. Finds(s, n, txns, k)
        BY <1>2, <1>3, <3>1, <3>2, JoinsSees
      <3>4. m.root = t.root
        BY <3>2 DEF Joins
      <3>5. Image(s, n, file, m.root) = Image(txns, k, file, t.root)
        BY <3>3, <3>4 DEF Finds, Image, Content
      <3> QED
        BY <1>2, <1>3, <1>5, <1>6, <2>2, <3>1, <3>2, <3>5 DEF Look
    <2> QED
      BY <2>1, <2>2
  <1>10. Promise!Commit(g, h)
    <2>1. Row(h, k - 1) /\ h[k - 1] \in {g[k], Failed} /\ \A j \in 1..(k - 2) : h[j] = g[j]
      BY <1>1, <1>2, <1>6, <1>8, <1>9
    <2> QED
      BY <1>2, <1>5, <2>1, CommitStep
  <1> QED
    BY <1>1, <1>7, <1>10, Promised

LEMMA CommitChildPromised ==
    ASSUME IInv, NEW i, CommitChild(i) \/ CommitHalf(i)
    PROVE  Promise!Next
  <1>1. PICK q, t : q = txns[Top - 1] /\ t = txns[Top]
    OBVIOUS
  <1>2. PICK m \in {MergedInto(q, t), Half(q, t)} :
          Becomes(Append(SubSeq(txns, 1, Top - 2), m), file, meta)
    BY <1>1 DEF CommitChild, CommitHalf
  <1>3. Top > 1 /\ ~t.error
    BY <1>1 DEF CommitChild, CommitHalf
  <1>4. q \in Txn /\ t \in Txn
    <2>1. Top \in 1..Top /\ Top - 1 \in 1..Top
      BY <1>3, StackShape
    <2> QED
      BY <1>1, <2>1, StackShape
  <1>5. m \in Txn /\ (m.error \/ Joins(q, t, m))
    BY <1>2, <1>4, MergedIs
  <1>6. pkeep' # {} => pkeep # {}
    BY DEF CommitChild, CommitHalf, KeptMerged, Above
  <1> QED
    BY <1>1, <1>2, <1>3, <1>5, <1>6, MergedPromised

(* mdb_page_flush has written what the outermost transaction saw.          *)
LEMMA CommitTopStores ==
    ASSUME IInv, CommitTop, pkeep = {}
    PROVE  sees'.stored = sees.stack[1]
  <1>1. PICK t, f, g, h : /\ t = txns[1] /\ f = Flushed(file, DOMAIN txns[1].dirty)
                          /\ g = sees.stack /\ h = sees'.stack
    OBVIOUS
  <1>2. /\ Top = 1 /\ ~t.error /\ sees' = Images(<<>>, f, t.root) /\ 1 \in 1..Top
    <2>1. PICK P : /\ P = {p \in DOMAIN txns[1].dirty : <<1, p>> \notin pkeep}
                   /\ sees' = Images(<<>>, Flushed(file, P), txns[1].root)
      BY DEF CommitTop, Becomes
    <2>2. P = DOMAIN txns[1].dirty
      BY <2>1
    <2>3. Top = 1 /\ ~txns[1].error
      BY DEF CommitTop
    <2>4. f = Flushed(file, P)
      BY <1>1, <2>2
    <2>5. sees' = Images(<<>>, f, t.root)
      BY <1>1, <2>1, <2>4
    <2> QED
      BY <1>1, <2>3, <2>5
  <1>3. /\ Row(g, 1) /\ g[1] = Look(txns, 1, file)
    BY <1>1, <1>2, SeesAre
  <1>4. h = <<>> /\ sees'.stored = Image(<<>>, 0, f, t.root)
    <2>1. PICK s : s = <<>>
      OBVIOUS
    <2>4. s \in Seq(Txn)
      BY <2>1
    <2>7. Len(s) = 0
      BY <2>1
    <2>5. sees' = Images(s, f, t.root) /\ h = sees'.stack
      BY <1>1, <1>2, <2>1
    <2>6. Row(h, Len(s)) /\ sees'.stored = Image(s, 0, f, t.root)
      BY <2>4, <2>5, ImagesAre
    <2>2. Row(h, 0) /\ sees'.stored = Image(<<>>, 0, f, t.root)
      BY <2>1, <2>6, <2>7
    <2>3. \E S : h \in Seq(S) /\ Len(h) = 0
      BY <2>2, Rows
    <2> QED
      BY <2>2, <2>3
  <1>5. PICK D \in Trees : LevelOK(txns, file, HeadOf(1), LastOf(1), 1, D)
    BY <1>1, <1>2 DEF IInv, LevelsOK
  <1>6. WellMade(D) /\ D.r = t.root /\ Shows(D, txns, 1, file) /\ Apart(t)
    BY <1>1, <1>5 DEF LevelOK, ListsOK
  <1>7. \A p \in Pgs : f[p] = Page(txns, 1, file, p)
    <2>1. \A p \in Pgs : f[p] = IF p \in DOMAIN t.dirty THEN t.dirty[p] ELSE file[p]
      <3>1. Types /\ Top > 0 /\ txns[Top] = t /\ DOMAIN t.dirty \subseteq DOMAIN txns[Top].dirty
        BY <1>1, <1>2 DEF IInv
      <3>2. f = Flushed(file, DOMAIN t.dirty)
        BY <1>1
      <3>3. \A p \in Pgs : f[p] = IF p \in DOMAIN t.dirty THEN txns[Top].dirty[p] ELSE file[p]
        BY <3>1, <3>2, FlushFacts
      <3> QED
        BY <3>1, <3>3
    <2>2. ASSUME NEW p
          PROVE  Page(txns, 1, file, p) = IF p \in t.spill THEN file[p]
                                          ELSE IF p \in DOMAIN t.dirty THEN t.dirty[p] ELSE file[p]
      <3>1. 1 \in Nat /\ 1 > 0 /\ 1 - 1 = 0
        OBVIOUS
      <3>2. Page(txns, 0, file, p) = file[p]
        BY PageNone
      <3>3. Page(txns, 1, file, p) = IF p \in txns[1].spill THEN file[p]
                                     ELSE IF p \in DOMAIN txns[1].dirty THEN txns[1].dirty[p]
                                     ELSE Page(txns, 1 - 1, file, p)
        BY <3>1, PageStep
      <3> QED
        BY <1>1, <3>1, <3>2, <3>3
    <2> QED
      BY <1>6, <2>1, <2>2 DEF Apart
  <1>8. Shows(D, <<>>, 0, f)
    <2>1. \A p \in Pgs : Page(<<>>, 0, f, p) = Page(txns, 1, file, p)
      BY <1>7, PageNone
    <2>2. D.r \in Pgs /\ (\A n \in Nodes : D.k[n] # NoPage => D.k[n] \in Pgs)
          /\ (D.o # NoPage => D.o \in Pgs)
      BY <1>6 DEF WellMade, Trees, Opt
    <2> QED
      BY <1>6, <2>1, <2>2 DEF Shows
  <1>9. Image(<<>>, 0, f, t.root) = Picture(D) /\ Image(txns, 1, file, t.root) = Picture(D)
    BY <1>6, <1>8, ImageIs
  <1>10. sees'.stored = g[1] /\ g[1] # Failed
    BY <1>1, <1>2, <1>3, <1>4, <1>6, <1>9, PictureSound DEF Look
  <1> QED
    BY <1>1, <1>10

LEMMA CommitTopPromised ==
    ASSUME IInv, CommitTop
    PROVE  Promise!Next
  <1>1. PICK s, g, h : s = <<>> /\ g = sees.stack /\ h = sees'.stack
    OBVIOUS
  <1>2. /\ Top = 1 /\ ~txns[1].error /\ 1 \in 1..Top /\ pkeep' = {}
        /\ \E f : sees' = Images(s, f, txns[1].root)
    <2>1. Top = 1 /\ ~txns[1].error /\ pkeep' = {}
      BY DEF CommitTop
    <2>2. PICK f : sees' = Images(<<>>, f, txns[1].root)
      BY DEF CommitTop, Becomes
    <2> QED
      BY <1>1, <2>1, <2>2
  <1>3. /\ Row(g, 1) /\ g[1] = Look(txns, 1, file)
    BY <1>1, <1>2, SeesAre
  <1>4. h = <<>>
    <2>1. s \in Seq(Txn) /\ Len(s) = 0
      BY <1>1
    <2>2. PICK f : sees' = Images(s, f, txns[1].root)
      BY <1>2
    <2>3. Row(h, Len(s))
      BY <1>1, <2>1, <2>2, ImagesAre
    <2>4. Row(h, 0)
      BY <2>1, <2>3
    <2>5. \E S : h \in Seq(S) /\ Len(h) = 0
      BY <2>4, Rows
    <2> QED
      BY <2>5
  <1>5. g[1] # Failed
    BY <1>2, <1>3, LookSound
  <1>6. Promise!Store(g, h)
    <2>1. PICK S : g \in Seq(S) /\ Len(g) = 1
      BY <1>3, Rows
    <2>2. g # <<>>
      BY <2>1, EmptySeq
    <2>3. Promise!Last(g) = g[1]
      BY <2>1 DEF Promise!Last
    <2>4. pkeep = {} => sees'.stored = g[1]
      BY <1>1, CommitTopStores
    <2> QED
      BY <1>4, <1>5, <2>1, <2>2, <2>3, <2>4 DEF Promise!Store, Promise!Usable
  <1> QED
    BY <1>1, <1>2, <1>6 DEF Promise!Next

LEMMA StepPromised ==
    ASSUME IInv, [Next]_vars
    PROVE  [Promise!Next]_(Promise!vars)
  <1>1. CASE Operation
    BY <1>1, OperationPromised
  <1>2. CASE UseCursor
    <2>1. sees' = sees /\ pkeep' = pkeep
      BY <1>2 DEF UseCursor, OpenCursor, CloseCursor, Position, Set
    <2> QED
      BY <2>1 DEF Promise!vars
  <1>3. CASE Begin
    BY <1>3, BeginPromised
  <1>4. CASE End
    <2>1. CASE CommitTop
      BY <2>1, CommitTopPromised
    <2>2. ASSUME NEW i \in Levels, Abort(i) \/ CommitFailed(i) \/ CommitNoMemory(i)
          PROVE  Promise!Next
      BY <2>2, AbortPromised
    <2>3. ASSUME NEW i \in Levels, CommitChild(i) \/ CommitHalf(i)
          PROVE  Promise!Next
      BY <2>3, CommitChildPromised
    <2> QED
      BY <1>4, <2>1, <2>2, <2>3 DEF End
  <1>5. CASE UNCHANGED vars
    BY <1>5 DEF vars, Promise!vars
  <1> QED
    BY <1>1, <1>2, <1>3, <1>4, <1>5 DEF Next

(* The outermost transaction sees what is stored.                          *)
LEMMA InitPromised ==
    ASSUME Init
    PROVE  Promise!Init
  <1>1. PICK t, g : t = Outermost /\ g = sees.stack
    OBVIOUS
  <1>2. /\ txns = <<t>> /\ meta = HomeRoot /\ AsStored(file) /\ IInv
        /\ ~t.error /\ t.root = HomeRoot /\ t.dirty = <<>> /\ t.spill = {}
    BY <1>1, OutermostIs, InitHolds DEF Init, AsStored, FirstVal
  <1>3. Top = 1 /\ txns[1] = t /\ 1 \in 1..1
    BY <1>2 DEF Top
  <1>4. Row(g, 1) /\ g[1] = Look(txns, 1, file) /\ sees.stored = Image(txns, 0, file, meta)
    BY <1>1, <1>2, <1>3, SeesAre
  <1>5. \A p : Page(txns, 1, file, p) = Page(txns, 0, file, p)
    <2> SUFFICES ASSUME NEW p
                 PROVE  Page(txns, 1, file, p) = Page(txns, 0, file, p)
      OBVIOUS
    <2>1. 1 \in Nat /\ 1 > 0 /\ 1 - 1 = 0 /\ DOMAIN t.dirty = {}
      BY <1>2
    <2>2. Page(txns, 0, file, p) = file[p]
      BY PageNone
    <2>3. Page(txns, 1, file, p) = IF p \in txns[1].spill THEN file[p]
                                   ELSE IF p \in DOMAIN txns[1].dirty THEN txns[1].dirty[p]
                                   ELSE Page(txns, 1 - 1, file, p)
      BY <2>1, PageStep
    <2> QED
      BY <1>2, <1>3, <2>1, <2>2, <2>3
  <1>6. Image(txns, 1, file, HomeRoot) = Image(txns, 0, file, HomeRoot)
    BY <1>5 DEF Image, Content
  <1>7. g[1] = sees.stored
    BY <1>2, <1>3, <1>4, <1>6 DEF Look
  <1>8. g = <<sees.stored>>
    <2>1. PICK S : g \in Seq(S) /\ Len(g) = 1
      BY <1>4, Rows
    <2> QED
      BY <1>7, <2>1
  <1> QED
    BY <1>1, <1>8 DEF Promise!Init, Init

-----------------------------------------------------------------------------
(* The theorems. *)

(* Room in a dirty list: what mdb_txn_commit asserts when it merges lists, *)
(* and what mdb_page_dirty must not find used up.                          *)
THEOREM RoomExact == Spec => []DirtyRoomExact
  <1>1. IInv => DirtyRoomExact
    BY RoomFollows
  <1> QED
    BY <1>1, Invariant, PTL

(* No page is lost or has two uses, at any level, whatever has been spilled,*)
(* given up, reclaimed or begun again (mdb_page_alloc, mdb_page_loose,     *)
(* mdb_ovpage_free, mdb_txn_end).                                          *)
THEOREM EachPageOnce == Spec => []PagesOnce
  <1>1. IInv /\ MarksOK => PagesOnce
    BY PagesFollow
  <1> QED
    BY <1>1, Invariant, Marks, PTL

(* The cursors follow the pages, in the child and back (mdb_page_touch,    *)
(* mdb_cursor_shadow, mdb_cursors_close).                                  *)
THEOREM CursorsStayOnTree == Spec => []CursorsOnTree
  <1>1. IInv => CursorsOnTree
    BY CursorsFollow
  <1> QED
    BY <1>1, Invariant, PTL

(* Nested transactions keep the promise of NestedStore, whatever fails:    *)
(* early writes show to nobody, an abort gives back the parent's image, a  *)
(* commit the child's.  What the outermost commit stores is its image, if  *)
(* no early write that failed (mdb_page_spill) has left P_KEEP on a page.  *)
THEOREM KeepsPromise == Spec => ImplementsNestedStore
  <1>1. Init => Promise!Init
    BY InitPromised
  <1>2. IInv /\ [Next]_vars => [Promise!Next]_(Promise!vars)
    BY StepPromised
  <1> QED
    BY <1>1, <1>2, Invariant, PTL DEF Spec, ImplementsNestedStore, Promise!Spec
================================================================================
