---------------------------- MODULE EnvCopyProofs ----------------------------
(***************************************************************************)
(* Proofs about EnvCopy, for any map, any writer beside the copy, any      *)
(* snapshots, size of buffers and failures.                                *)
(***************************************************************************)
EXTENDS EnvCopy, SequenceTheorems, WellFoundedInduction, TLAPS

-----------------------------------------------------------------------------
(***************************************************************************)
(* The copy as it is.  A page that a copied meta page needs is in its tree *)
(* still, or was freed by a later transaction (Follows), and what is taken *)
(* again was freed by an earlier one than the copier's reader slot names.  *)
(***************************************************************************)
PageMap == UNION {[S -> Nat] : S \in SUBSET Pgnos}
MetaPage == [id : Nat, tree : PageMap, freed : PageMap, next : NUM_METAS..MaxPg]

AsIsTypes ==
    /\ disk \in PageMap
    /\ metas \in [{0, 1} -> MetaPage]
    /\ wmutex \in {"free", "writer", "copier"}
    /\ wtxn \in MetaPage
    /\ reader \in Nat
    /\ rsnap \in MetaPage
    /\ out \in [metas : Seq(MetaPage), pages : Seq(Nat)]
    /\ at \in {"off", "lock", "metas", "pages", "done"}
    /\ res \in {"none", "copied", "failed"}

(* Who holds the mutex, and how the numbers stand. *)
NumbersOK ==
    /\ wmutex = "copier" <=> at = "metas"
    /\ wtxn # None <=> wmutex = "writer"
    /\ metas[0].id % 2 = 0 /\ metas[1].id % 2 = 1
    /\ metas[0].id = metas[1].id + 1 \/ metas[1].id = metas[0].id + 1
    /\ wmutex = "writer" => wtxn.id = Newest.id + 1
    /\ reader <= Newest.id
    /\ at = "done" => reader = 0
    /\ res # "none" => at = "done"

(* Where the copy ends, once that is known: behind every page that a copied *)
(* meta page needs, although the file grows on.                            *)
EndOK ==
    /\ at = "pages" \/ copyEnd = 0
    /\ at = "pages" /\ copyEnd # 0 =>
          \A i \in 1..NUM_METAS : \A p \in Pages(out.metas[i]) :
             copyEnd \in Nat /\ p < copyEnd

(* A page is in the tree or free, and below the end. *)
Tidy(m) ==
    /\ Pages(m) \cap DOMAIN m.freed = {}
    /\ \A p \in Pages(m) \cup DOMAIN m.freed : p < m.next
OnDisk(m) == \A p \in Pages(m) : p \in DOMAIN disk /\ disk[p] = m.tree[p]
Follows(m, x) ==
    /\ m.id <= x.id /\ m.next <= x.next
    /\ \A p \in Pages(m) :
          p \in Pages(x) \/ (p \in DOMAIN x.freed /\ m.id < x.freed[p])

(* What is true of a meta page as long as it may be read. *)
Kept(m) ==
    /\ OnDisk(m) /\ Follows(m, Newest)
    /\ wmutex = "writer" => Follows(m, wtxn)

MetasOK ==
    /\ \A i \in {0, 1} : Tidy(metas[i]) /\ Kept(metas[i])
    /\ wmutex = "writer" => Tidy(wtxn) /\ OnDisk(wtxn)

(* The copy: its meta pages, and its pages as far as it is. *)
CopyOK ==
    /\ at \in {"off", "lock"} => out.metas = <<>> /\ out.pages = <<>>
    /\ at = "metas" =>
          /\ Len(out.metas) < NUM_METAS /\ out.pages = <<>>
          /\ \A i \in 1..Len(out.metas) : out.metas[i] = metas[i - 1]
          /\ rsnap = Newest /\ reader = Newest.id
    /\ at = "pages" =>
          /\ Len(out.metas) = NUM_METAS
          /\ \A i \in 1..NUM_METAS :
                /\ Tidy(out.metas[i]) /\ Kept(out.metas[i])
                /\ out.metas[i].next <= rsnap.next
                /\ reader <= out.metas[i].id + 1
                /\ \A j \in 1..Len(out.pages) :
                      j + 1 \in Pages(out.metas[i]) =>
                          out.pages[j] = out.metas[i].tree[j + 1]
          /\ reader # 0

AsIsInv == AsIsTypes /\ NumbersOK /\ MetasOK /\ CopyOK /\ AsIsReadable

-----------------------------------------------------------------------------
(* Map g is map f without the pages S and with v at the pages T. *)
Updates(g, f, S, T, v) ==
    /\ g \in PageMap /\ DOMAIN g = (DOMAIN f \ S) \cup T
    /\ \A p \in T : g[p] = v
    /\ \A p \in (DOMAIN f \ S) \ T : g[p] = f[p]

(* What Put leaves of a function, and where. *)
LEMMA Updated ==
    ASSUME NEW f \in PageMap, NEW T, T \subseteq Pgnos, NEW v, v \in Nat
    PROVE  Updates(Put(f, T, v), f, {}, T, v)
  <1>1. PICK D \in SUBSET Pgnos : f \in [D -> Nat]
    BY DEF PageMap
  <1>2. D \cup T \in SUBSET Pgnos /\ DOMAIN f = D
    BY <1>1
  <1>3. PICK g : g = [p \in DOMAIN f \cup T |-> IF p \in T THEN v ELSE f[p]]
    OBVIOUS
  <1>4. g \in [D \cup T -> Nat]
    BY <1>1, <1>2, <1>3
  <1>5. Updates(g, f, {}, T, v)
    BY <1>2, <1>3, <1>4 DEF PageMap, Updates
  <1> QED
    BY <1>3, <1>5 DEF Put

(* What WritePage leaves of a tree: without the old page, with the new. *)
LEMMA Rewritten ==
    ASSUME NEW f \in PageMap, NEW S, NEW T, T \subseteq Pgnos, NEW v, v \in Nat
    PROVE  Updates(Put(Without(f, S), T, v), f, S, T, v)
  <1>1. PICK h : h = Without(f, S)
    OBVIOUS
  <1>2. /\ h \in PageMap /\ DOMAIN h = DOMAIN f \ S
        /\ \A p \in DOMAIN h : h[p] = f[p]
    <2>1. PICK D \in SUBSET Pgnos : f \in [D -> Nat]
      BY DEF PageMap
    <2>2. D \ S \in SUBSET Pgnos /\ DOMAIN f = D
      BY <2>1
    <2>3. h \in [D \ S -> Nat]
      BY <1>1, <2>1, <2>2 DEF Without
    <2> QED
      BY <1>1, <2>2, <2>3 DEF Without, PageMap
  <1>3. PICK g : g = Put(h, T, v)
    OBVIOUS
  <1>4. Updates(g, h, {}, T, v)
    BY <1>2, <1>3, Updated, Zenon
  <1>5. Updates(g, f, S, T, v)
    BY <1>2, <1>4 DEF Updates
  <1> QED
    BY <1>1, <1>3, <1>5

(* A page map's values are numbers, and its pages are the map's. *)
LEMMA MapIs ==
    ASSUME NEW f \in PageMap
    PROVE  DOMAIN f \subseteq Pgnos /\ \A p \in DOMAIN f : f[p] \in Nat
  BY DEF PageMap

(* No transaction is a meta page without pages. *)
LEMMA NoneIs == None \in MetaPage /\ Pages(None) = {} /\ DOMAIN None.freed = {}
  <1>1. <<>> \in PageMap /\ DOMAIN <<>> = {}
    <2>1. <<>> \in [{} -> Nat]
      OBVIOUS
    <2> QED
      BY <2>1 DEF PageMap
  <1> QED
    BY <1>1, AsIsAssumption DEF None, MetaPage, Pages, NUM_METAS

(* The fields of a meta page. *)
LEMMA MetaIs ==
    ASSUME NEW m \in MetaPage
    PROVE  /\ m.id \in Nat /\ m.next \in Nat /\ NUM_METAS <= m.next /\ m.next <= MaxPg
           /\ m.next \in NUM_METAS..MaxPg /\ MaxPg \in Nat
           /\ m.tree \in PageMap /\ m.freed \in PageMap
           /\ DOMAIN m.tree \subseteq Pgnos /\ DOMAIN m.freed \subseteq Pgnos
           /\ \A p \in DOMAIN m.freed : m.freed[p] \in Nat
           /\ m = [id |-> m.id, tree |-> m.tree, freed |-> m.freed, next |-> m.next]
  <1>1. /\ m.id \in Nat /\ m.next \in NUM_METAS..MaxPg
        /\ m.tree \in PageMap /\ m.freed \in PageMap
        /\ m = [id |-> m.id, tree |-> m.tree, freed |-> m.freed, next |-> m.next]
    BY DEF MetaPage
  <1>2. m.next \in Nat /\ NUM_METAS <= m.next /\ m.next <= MaxPg /\ MaxPg \in Nat
    BY <1>1, AsIsAssumption DEF NUM_METAS
  <1> QED
    BY <1>1, <1>2, MapIs

(* A record of the right fields is a meta page. *)
LEMMA MetaMade ==
    ASSUME NEW id \in Nat, NEW tree \in PageMap, NEW freed \in PageMap,
           NEW next \in NUM_METAS..MaxPg
    PROVE  [id |-> id, tree |-> tree, freed |-> freed, next |-> next] \in MetaPage
  BY DEF MetaPage

(* The newest of the two meta pages is one of them, and not the older. *)
LEMMA NewestIs ==
    ASSUME AsIsTypes, NumbersOK
    PROVE  /\ Newest \in MetaPage /\ Newest \in {metas[0], metas[1]}
           /\ Newest.id \in Nat
           /\ \A i \in {0, 1} : /\ metas[i] \in MetaPage /\ metas[i].id \in Nat
                                /\ metas[i].id <= Newest.id
                                /\ Newest.id <= metas[i].id + 1
  <1>1. metas[0] \in MetaPage /\ metas[1] \in MetaPage
    BY DEF AsIsTypes
  <1>2. metas[0].id \in Nat /\ metas[1].id \in Nat
    BY <1>1, MetaIs
  <1>3. Newest = IF metas[0].id > metas[1].id THEN metas[0] ELSE metas[1]
    BY DEF Newest
  <1>4. metas[0].id = metas[1].id + 1 \/ metas[1].id = metas[0].id + 1
    BY DEF NumbersOK
  <1>5. /\ metas[0].id <= Newest.id /\ Newest.id <= metas[0].id + 1
        /\ metas[1].id <= Newest.id /\ Newest.id <= metas[1].id + 1
    BY <1>2, <1>3, <1>4
  <1>6. Newest \in {metas[0], metas[1]}
    BY <1>3
  <1> QED
    BY <1>1, <1>2, <1>5, <1>6

(* The copy has not begun and the file holds one tree. *)
LEMMA AsIsInitInd == AsIsInit => AsIsInv
  <1> SUFFICES ASSUME AsIsInit PROVE AsIsInv
    OBVIOUS
  <1> USE DEF NUM_METAS
  <1>1. 2 \in Pgnos /\ MaxPg \in Nat /\ MaxPg >= 3
    BY AsIsAssumption DEF Pgnos
  <1>2. disk \in PageMap /\ DOMAIN disk = {2} /\ disk[2] = 1
    <2>1. disk \in [{2} -> Nat] /\ {2} \in SUBSET Pgnos
      BY <1>1 DEF AsIsInit
    <2> QED
      BY <2>1 DEF PageMap, AsIsInit
  <1> DEFINE one == [None EXCEPT !.id = 1, !.tree = disk, !.next = 3]
  <1>3. /\ one \in MetaPage /\ one.id = 1 /\ one.tree = disk /\ one.next = 3
        /\ one.freed = <<>>
    <2>1. None.freed = <<>>
      BY DEF None
    <2>2. <<>> \in PageMap
      BY <2>1, NoneIs, MetaIs
    <2>3. 3 \in NUM_METAS..MaxPg
      BY <1>1
    <2> QED
      BY <1>2, <2>2, <2>3 DEF MetaPage, None
  <1>4. metas = [i \in {0, 1} |-> IF i = 0 THEN None ELSE one]
    BY DEF AsIsInit
  <1> HIDE DEF one
  <1>5. /\ metas[0] = None /\ metas[1] = one /\ metas \in [{0, 1} -> MetaPage]
        /\ metas[1] \in MetaPage /\ metas[1].id = 1 /\ metas[1].tree = disk
        /\ metas[1].next = 3 /\ metas[1].freed = <<>>
    BY <1>3, <1>4, NoneIs
  <1>6. metas[0].id = 0 /\ metas[0].next = 2 /\ Newest = metas[1]
    BY <1>5 DEF None, Newest
  <1>a. AsIsTypes
    <2>1. /\ wmutex = "free" /\ wtxn = None /\ reader = 0 /\ rsnap = None
          /\ at = "off" /\ res = "none" /\ out = [metas |-> <<>>, pages |-> <<>>]
      BY DEF AsIsInit
    <2>2. out \in [metas : Seq(MetaPage), pages : Seq(Nat)]
      <3>1. <<>> \in Seq(MetaPage) /\ <<>> \in Seq(Nat)
        OBVIOUS
      <3> QED
        BY <2>1, <3>1
    <2> QED
      BY <1>2, <1>5, <2>1, <2>2, NoneIs DEF AsIsTypes
  <1>7. NumbersOK
    <2>1. /\ wmutex = "free" /\ wtxn = None /\ reader = 0 /\ at = "off" /\ res = "none"
      BY DEF AsIsInit
    <2>2. metas[0].id % 2 = 0 /\ metas[1].id % 2 = 1 /\ metas[1].id = metas[0].id + 1
      BY <1>5, <1>6
    <2>3. reader <= Newest.id
      <3>1. Newest.id = 1
        BY <1>5, <1>6
      <3>2. reader = 0
        BY <2>1
      <3> QED
        BY <3>1, <3>2
    <2> QED
      BY <2>1, <2>2, <2>3 DEF NumbersOK
  <1>8. MetasOK
    <2>1. Pages(metas[0]) = {} /\ DOMAIN metas[0].freed = {}
      BY <1>5, NoneIs
    <2>2. Pages(metas[1]) = {2} /\ DOMAIN metas[1].freed = {}
      BY <1>2, <1>5 DEF Pages
    <2>3. \A i \in {0, 1} : Tidy(metas[i])
      BY <1>5, <2>1, <2>2 DEF Tidy
    <2>4. \A i \in {0, 1} : OnDisk(metas[i])
      BY <1>2, <1>5, <2>1, <2>2 DEF OnDisk
    <2>5. \A i \in {0, 1} : Follows(metas[i], Newest)
      BY <1>5, <1>6, <2>1, <2>2 DEF Follows
    <2> QED
      BY <2>3, <2>4, <2>5 DEF MetasOK, Kept, AsIsInit
  <1>9. CopyOK /\ AsIsReadable
    BY DEF CopyOK, AsIsReadable, AsIsInit
  <1> QED
    BY <1>a, <1>7, <1>8, <1>9 DEF AsIsInv

(* A step that leaves the writer alone keeps every meta page.              *)
LEMMA KeptStays ==
    ASSUME NEW m, Kept(m), UNCHANGED <<disk, metas, wtxn>>,
           wmutex' = "writer" => wmutex = "writer"
    PROVE  Kept(m)'
  BY DEF Kept, OnDisk, Follows, Newest, Pages

(* Without a step of the writer, what it kept stays kept. *)
LEMMA MetasStay ==
    ASSUME MetasOK, UNCHANGED <<disk, metas, wtxn>>,
           wmutex' = "writer" => wmutex = "writer"
    PROVE  MetasOK'
  BY DEF MetasOK, Tidy, Kept, OnDisk, Follows, Newest, Pages

(* A step of the writer keeps the copy if it keeps the meta pages in it.   *)
LEMMA CopyStays ==
    ASSUME CopyOK, UNCHANGED copierVars, at = "metas" => UNCHANGED metas,
           \A m \in MetaPage : Kept(m) /\ at = "pages" /\ reader <= m.id + 1 => Kept(m)',
           AsIsTypes, AsIsReadable
    PROVE  CopyOK' /\ AsIsReadable'
  <1>1. AsIsReadable'
    BY DEF AsIsReadable, copierVars, Pages
  <1>2. ASSUME at = "pages", NEW i \in 1..NUM_METAS
        PROVE  Kept(out.metas[i])'
    <2>1. out.metas[i] \in MetaPage
      BY <1>2, ElementOfSeq DEF CopyOK, AsIsTypes
    <2>2. PICK m \in MetaPage : m = out.metas[i]
      BY <2>1
    <2>3. Kept(m) /\ reader <= m.id + 1
      BY <1>2, <2>2 DEF CopyOK
    <2>4. Kept(m)' /\ m = out'.metas[i]
      BY <1>2, <2>2, <2>3 DEF copierVars
    <2> QED
      BY <2>4 DEF Kept, OnDisk, Follows, Pages
  <1>3. (at = "metas" => Newest' = Newest /\ metas' = metas) /\ at' = at /\ out' = out
        /\ rsnap' = rsnap /\ reader' = reader
    BY DEF Newest, copierVars
  <1>4. CopyOK'
    <2>1. (at \in {"off", "lock"} => out.metas = <<>> /\ out.pages = <<>>)'
      BY <1>3 DEF CopyOK
    <2>2. (at = "metas" =>
            /\ Len(out.metas) < NUM_METAS /\ out.pages = <<>>
            /\ \A i \in 1..Len(out.metas) : out.metas[i] = metas[i - 1]
            /\ rsnap = Newest /\ reader = Newest.id)'
      BY <1>3 DEF CopyOK
    <2>3. (at = "pages" =>
            /\ Len(out.metas) = NUM_METAS
            /\ \A i \in 1..NUM_METAS :
                  /\ Tidy(out.metas[i]) /\ Kept(out.metas[i])
                  /\ out.metas[i].next <= rsnap.next
                  /\ reader <= out.metas[i].id + 1
                  /\ \A j \in 1..Len(out.pages) :
                        j + 1 \in Pages(out.metas[i]) =>
                            out.pages[j] = out.metas[i].tree[j + 1]
            /\ reader # 0)'
      BY <1>2, <1>3 DEF CopyOK, Tidy, Pages
    <2> QED
      BY <2>1, <2>2, <2>3 DEF CopyOK
  <1> QED
    BY <1>1, <1>4

-----------------------------------------------------------------------------
(* The writer. *)

(* The parts of the invariant. *)
LEMMA AsIsUnfolded ==
    ASSUME AsIsInv
    PROVE  AsIsTypes /\ NumbersOK /\ MetasOK /\ CopyOK /\ AsIsReadable
  BY DEF AsIsInv

(* A writer begins with the newest meta page's trees. *)
LEMMA LockInd ==
    ASSUME AsIsInv, Lock
    PROVE  AsIsInv'
  <1>1. AsIsTypes /\ NumbersOK /\ MetasOK /\ CopyOK /\ AsIsReadable
    BY DEF AsIsInv
  <1>2. PICK x \in MetaPage : x = Newest
    BY <1>1, NewestIs
  <1>3. /\ wmutex = "free" /\ wmutex' = "writer" /\ UNCHANGED <<disk, metas, copierVars>>
        /\ wtxn' = [x EXCEPT !.id = @ + 1]
    BY <1>2 DEF Lock
  <1>4. /\ wtxn' \in MetaPage /\ wtxn'.id = x.id + 1 /\ wtxn'.tree = x.tree
        /\ wtxn'.freed = x.freed /\ wtxn'.next = x.next /\ x.id \in Nat
        /\ x.next \in Nat
    <2>1. x.id \in Nat /\ x.next \in Nat
      BY MetaIs
    <2>2. wtxn' = [x EXCEPT !.id = x.id + 1]
      BY <1>3
    <2>3. x.id + 1 \in Nat
      BY <2>1
    <2> QED
      BY <2>1, <2>2, <2>3 DEF MetaPage
  <1>5. x = Newest' /\ Pages(wtxn') = Pages(x)
    BY <1>2, <1>3, <1>4 DEF Newest, Pages
  <1>6. AsIsTypes'
    BY <1>1, <1>3, <1>4 DEF AsIsTypes, copierVars
  <1>7. NumbersOK'
    <2>1. wtxn' # None
      BY <1>4 DEF None
    <2> QED
      BY <1>1, <1>3, <1>4, <1>5, <2>1 DEF NumbersOK, copierVars, Newest
  <1>8. ASSUME NEW m \in MetaPage, Kept(m) PROVE Kept(m)'
    <2>1. Follows(m, x) /\ OnDisk(m) /\ m.id \in Nat
      BY <1>2, <1>8 DEF Kept, MetaPage
    <2>2. Follows(m, wtxn')
      BY <1>4, <1>5, <2>1 DEF Follows
    <2>3. Follows(m, Newest') /\ OnDisk(m)'
      BY <1>3, <1>5, <2>1 DEF OnDisk, Pages
    <2> QED
      BY <2>2, <2>3 DEF Kept, Follows, Pages
  <1>9. MetasOK'
    <2>1. ASSUME NEW i \in {0, 1} PROVE (Tidy(metas[i]) /\ Kept(metas[i]))'
      <3>1. PICK m \in MetaPage : m = metas[i]
        BY <1>1 DEF AsIsTypes
      <3>2. m = metas'[i] /\ Tidy(m) /\ Kept(m)
        BY <1>1, <1>3, <3>1 DEF MetasOK
      <3>3. Kept(m)'
        BY <1>8, <3>2
      <3> QED
        BY <3>2, <3>3 DEF Tidy, Kept, OnDisk, Follows, Pages
    <2>2. Tidy(x) /\ OnDisk(x)
      BY <1>1, <1>2, NewestIs DEF MetasOK, Kept
    <2>3. Tidy(wtxn') /\ OnDisk(wtxn)'
      BY <1>3, <1>4, <1>5, <2>2 DEF Tidy, OnDisk
    <2> QED
      BY <2>1, <2>3 DEF MetasOK, Tidy, Pages
  <1>10. CopyOK' /\ AsIsReadable'
    BY <1>1, <1>3, <1>8, CopyStays
  <1> QED
    BY <1>6, <1>7, <1>9, <1>10 DEF AsIsInv

(* What the writer puts into its tree or on its free list. *)
LEMMA WritePageInd ==
    ASSUME AsIsInv, WritePage
    PROVE  AsIsInv'
  <1>1. AsIsTypes /\ NumbersOK /\ MetasOK /\ CopyOK /\ AsIsReadable
    BY DEF AsIsInv
  <1>2. wmutex = "writer" /\ UNCHANGED <<metas, wmutex, copierVars>>
    BY DEF WritePage
  <1>3. PICK q, old :
            /\ q \in Reclaimable \cup (Pgnos \cap {wtxn.next})
            /\ old \in {{}} \cup {{p} : p \in {y \in Pages(wtxn) :
                                               wtxn.tree[y] < wtxn.id}}
            /\ disk' = Put(disk, {q}, wtxn.id)
            /\ wtxn' = [wtxn EXCEPT
                 !.tree  = Put(Without(@, old), {q}, wtxn.id),
                 !.freed = Put(Without(@, {q}), old, wtxn.id),
                 !.next  = IF q = @ THEN @ + 1 ELSE @]
    BY DEF WritePage
  <1>4. PICK w \in MetaPage : w = wtxn
    BY <1>1 DEF AsIsTypes
  <1>5. /\ w.id \in Nat /\ w.next \in NUM_METAS..MaxPg /\ w.tree \in PageMap
        /\ w.freed \in PageMap /\ disk \in PageMap /\ MaxPg \in Nat
        /\ DOMAIN w.tree \subseteq Pgnos /\ DOMAIN w.freed \subseteq Pgnos
        /\ \A p \in DOMAIN w.freed : w.freed[p] \in Nat
        /\ Newest \in MetaPage /\ Newest.id \in Nat /\ w.id = Newest.id + 1
        /\ reader \in Nat
    BY <1>1, <1>2, <1>4, MapIs, NewestIs, AsIsAssumption DEF MetaPage, AsIsTypes, NumbersOK
  <1>6. /\ q \in Pgnos
        /\ \/ q = w.next
           \/ q \in DOMAIN w.freed /\ w.freed[q] < Oldest
    BY <1>3, <1>4, <1>5 DEF Reclaimable
  <1>7. old \subseteq Pages(w) /\ old \subseteq Pgnos
    BY <1>3, <1>4, <1>5 DEF Pages
  <1>a. {q} \subseteq Pgnos /\ w.id \in Nat
    BY <1>5, <1>6
  <1>b. PICK tree : tree = Put(Without(w.tree, old), {q}, w.id)
    OBVIOUS
  <1>c. PICK freed : freed = Put(Without(w.freed, {q}), old, w.id)
    OBVIOUS
  <1> DEFINE next == IF q = w.next THEN w.next + 1 ELSE w.next
  <1>8. /\ tree \in PageMap /\ DOMAIN tree = (DOMAIN w.tree \ old) \cup {q}
        /\ tree[q] = w.id
        /\ \A p \in (DOMAIN w.tree \ old) \ {q} : tree[p] = w.tree[p]
    <2>1. w.tree \in PageMap
      BY <1>5
    <2>2. Updates(tree, w.tree, old, {q}, w.id)
      BY <1>a, <1>b, <2>1, Rewritten, Zenon
    <2> QED
      BY <2>2 DEF Updates
  <1>9. /\ freed \in PageMap /\ DOMAIN freed = (DOMAIN w.freed \ {q}) \cup old
        /\ \A p \in old : freed[p] = w.id
        /\ \A p \in (DOMAIN w.freed \ {q}) \ old : freed[p] = w.freed[p]
    <2>1. w.freed \in PageMap /\ old \subseteq Pgnos
      BY <1>5, <1>7
    <2>2. Updates(freed, w.freed, {q}, old, w.id)
      BY <1>a, <1>c, <2>1, Rewritten, Zenon
    <2> QED
      BY <2>2 DEF Updates
  <1>10. /\ disk' \in PageMap /\ DOMAIN disk' = DOMAIN disk \cup {q} /\ disk'[q] = w.id
         /\ \A p \in DOMAIN disk : p # q => disk'[p] = disk[p]
    <2>1. PICK d \in PageMap : d = disk
      BY <1>5
    <2>2. disk' = Put(d, {q}, w.id)
      BY <1>3, <1>4, <2>1
    <2>3. Updates(Put(d, {q}, w.id), d, {}, {q}, w.id)
      BY <1>a, Updated, Zenon
    <2> QED
      BY <2>1, <2>2, <2>3 DEF Updates
  <1>11. next \in NUM_METAS..MaxPg /\ next >= w.next /\ (q < next \/ ~Tidy(w))
    <2>1. q \in DOMAIN w.freed /\ Tidy(w) => q < w.next
      BY DEF Tidy
    <2> QED
      BY <1>5, <1>6, <2>1 DEF Pgnos, NUM_METAS
  <1>12. wtxn' = [w EXCEPT !.tree = tree, !.freed = freed, !.next = next]
    BY <1>3, <1>4, <1>b, <1>c
  <1> HIDE DEF next
  <1>13. Tidy(w) /\ OnDisk(w)
    BY <1>1, <1>2, <1>4 DEF MetasOK
  <1>14. /\ wtxn' \in MetaPage /\ wtxn'.id = w.id /\ wtxn'.tree = tree
         /\ wtxn'.freed = freed /\ wtxn'.next = next
    <2>1. tree \in PageMap /\ freed \in PageMap /\ next \in NUM_METAS..MaxPg
      BY <1>8, <1>9, <1>11
    <2> QED
      BY <1>12, <2>1 DEF MetaPage
  <1>15. Newest' = Newest
    BY <1>2 DEF Newest
  <1>16. AsIsTypes'
    BY <1>1, <1>2, <1>10, <1>14 DEF AsIsTypes, copierVars
  <1>17. NumbersOK'
    <2>1. wtxn' # None
      BY <1>5, <1>14 DEF None
    <2> QED
      BY <1>1, <1>2, <1>4, <1>14, <1>15, <2>1 DEF NumbersOK, copierVars
  (* What must be kept is not taken. *)
  <1>18. ASSUME NEW m \in MetaPage, Kept(m), Oldest <= m.id + 1
         PROVE  Kept(m)'
    <2>1. /\ OnDisk(m) /\ Follows(m, Newest) /\ Follows(m, w) /\ m.id \in Nat
          /\ m.next \in Nat /\ DOMAIN m.tree \subseteq Pgnos
      BY <1>2, <1>4, <1>18, MapIs DEF Kept, MetaPage, NUM_METAS
    <2>2. Oldest \in Int
      BY <1>4, <1>5 DEF Oldest
    <2>3. q \notin Pages(m)
      <3>1. SUFFICES ASSUME q \in Pages(m) PROVE FALSE
        OBVIOUS
      <3>2. q \in Pages(w) \/ (q \in DOMAIN w.freed /\ m.id < w.freed[q])
        BY <2>1, <3>1 DEF Follows
      <3>3. q < w.next
        BY <1>13, <3>2 DEF Tidy
      <3>4. q \in DOMAIN w.freed /\ w.freed[q] < Oldest
        BY <1>5, <1>6, <3>3 DEF Pgnos, NUM_METAS
      <3>5. m.id < w.freed[q]
        BY <1>13, <3>2, <3>4 DEF Tidy
      <3> QED
        BY <1>5, <1>18, <2>1, <2>2, <3>4, <3>5
    <2>4. OnDisk(m)'
      BY <1>10, <2>1, <2>3 DEF OnDisk, Pages
    <2>5. m.id < w.id
      BY <1>5, <2>1 DEF Follows
    <2>6. ASSUME NEW p \in Pages(m)
          PROVE  p \in DOMAIN tree \/ (p \in DOMAIN freed /\ m.id < freed[p])
      <3>1. p # q
        BY <2>3, <2>6
      <3>2. CASE p \in old
        BY <1>9, <2>5, <3>2
      <3>3. CASE p \notin old
        BY <1>8, <1>9, <2>1, <2>6, <3>1, <3>3 DEF Follows, Pages
      <3> QED
        BY <3>2, <3>3
    <2>7. Follows(m, wtxn')
      BY <1>5, <1>11, <1>13, <1>14, <2>1, <2>5, <2>6 DEF Follows, Pages, NUM_METAS
    <2> QED
      BY <1>15, <2>1, <2>4, <2>7 DEF Kept, Follows, Pages
  <1>19. MetasOK'
    <2>1. ASSUME NEW i \in {0, 1} PROVE (Tidy(metas[i]) /\ Kept(metas[i]))'
      <3>1. PICK m \in MetaPage : m = metas[i]
        BY <1>1 DEF AsIsTypes
      <3>2. m = metas'[i] /\ Tidy(m) /\ Kept(m)
        BY <1>1, <1>2, <3>1 DEF MetasOK
      <3>3. m.id \in Nat /\ Newest.id <= m.id + 1
        BY <1>1, <3>1, NewestIs
      <3>4. Oldest <= m.id + 1
        BY <1>1, <1>4, <1>5, <3>3 DEF Oldest
      <3>5. Kept(m)'
        BY <1>18, <3>2, <3>4
      <3> QED
        BY <3>2, <3>5 DEF Tidy, Kept, OnDisk, Follows, Pages
    <2>2. q \notin Pages(w)
      BY <1>5, <1>6, <1>13 DEF Tidy, NUM_METAS
    <2>3. Tidy(wtxn')
      <3>1. DOMAIN tree \cap DOMAIN freed = {}
        BY <1>7, <1>8, <1>9, <1>13, <2>2 DEF Tidy, Pages
      <3>2. ASSUME NEW p \in DOMAIN tree \cup DOMAIN freed PROVE p < next
        <4>1. p = q \/ p \in Pages(w) \cup DOMAIN w.freed
          BY <1>7, <1>8, <1>9, <3>2 DEF Pages
        <4>2. p \in Pages(w) \cup DOMAIN w.freed => p < w.next /\ p \in Nat
          BY <1>5, <1>13 DEF Tidy, Pages, Pgnos, NUM_METAS
        <4> QED
          BY <1>5, <1>11, <1>13, <4>1, <4>2 DEF NUM_METAS
      <3> QED
        BY <1>14, <3>1, <3>2 DEF Tidy, Pages
    <2>4. OnDisk(wtxn)'
      BY <1>8, <1>10, <1>13, <1>14 DEF OnDisk, Pages
    <2> QED
      BY <1>2, <2>1, <2>3, <2>4 DEF MetasOK, Tidy, Pages
  <1>20. CopyOK' /\ AsIsReadable'
    <2>1. ASSUME NEW m \in MetaPage, Kept(m), at = "pages", reader <= m.id + 1
          PROVE  Kept(m)'
      <3>1. reader # 0 /\ m.id \in Nat
        BY <1>1, <2>1 DEF CopyOK, MetaPage
      <3>2. Oldest <= reader /\ Oldest \in Int
        BY <1>4, <1>5, <3>1 DEF Oldest
      <3>3. Oldest <= m.id + 1
        BY <1>5, <2>1, <3>1, <3>2
      <3> QED
        BY <1>18, <2>1, <3>3
    <2> QED
      BY <1>1, <1>2, <2>1, CopyStays
  <1> QED
    BY <1>16, <1>17, <1>19, <1>20 DEF AsIsInv

(* A page given up again goes to the free list. *)
LEMMA SkipPageInd ==
    ASSUME AsIsInv, SkipPage
    PROVE  AsIsInv'
  <1>1. AsIsTypes /\ NumbersOK /\ MetasOK /\ CopyOK /\ AsIsReadable
    BY DEF AsIsInv
  <1>2. PICK w \in MetaPage : w = wtxn
    BY <1>1 DEF AsIsTypes
  <1>a. PICK freed : freed = Put(w.freed, {w.next}, w.id)
    OBVIOUS
  <1>3. /\ wmutex = "writer" /\ w.next \in Pgnos
        /\ wtxn' = [w EXCEPT !.next = w.next + 1, !.freed = freed]
        /\ UNCHANGED <<disk, metas, wmutex, copierVars>>
    BY <1>2, <1>a DEF SkipPage
  <1>4. /\ w.id \in Nat /\ w.next \in Nat /\ w.tree \in PageMap /\ w.freed \in PageMap
        /\ w.next + 1 \in NUM_METAS..MaxPg /\ DOMAIN w.tree \subseteq Pgnos
        /\ DOMAIN w.freed \subseteq Pgnos
    BY <1>3, MetaIs DEF Pgnos, NUM_METAS
  <1>5. /\ freed \in PageMap /\ DOMAIN freed = DOMAIN w.freed \cup {w.next}
        /\ \A p \in DOMAIN w.freed : p # w.next => freed[p] = w.freed[p]
    <2>1. {w.next} \subseteq Pgnos
      BY <1>3
    <2>2. Updates(freed, w.freed, {}, {w.next}, w.id)
      BY <1>4, <1>a, <2>1, Updated, Zenon
    <2> QED
      BY <2>2 DEF Updates
  <1>6. /\ wtxn' \in MetaPage /\ wtxn'.id = w.id /\ wtxn'.tree = w.tree
        /\ wtxn'.freed = freed /\ wtxn'.next = w.next + 1
    <2>1. freed \in PageMap /\ w.next + 1 \in NUM_METAS..MaxPg
      BY <1>4, <1>5
    <2>2. wtxn' = [w EXCEPT !.next = w.next + 1, !.freed = freed]
      BY <1>3
    <2> QED
      BY <2>1, <2>2 DEF MetaPage
  <1>7. Tidy(w) /\ OnDisk(w) /\ Newest' = Newest
    BY <1>1, <1>2, <1>3 DEF MetasOK, Newest
  <1>8. AsIsTypes'
    BY <1>1, <1>3, <1>6 DEF AsIsTypes, copierVars
  <1>9. NumbersOK'
    <2>1. wtxn' # None
      <3>1. Newest.id \in Nat /\ w.id = Newest.id + 1
        BY <1>1, <1>2, <1>3, NewestIs DEF NumbersOK
      <3> QED
        BY <1>6, <3>1 DEF None
    <2> QED
      BY <1>1, <1>2, <1>3, <1>6, <1>7, <2>1 DEF NumbersOK, copierVars
  <1>10. ASSUME NEW m \in MetaPage, Kept(m) PROVE Kept(m)'
    <2>1. /\ OnDisk(m) /\ Follows(m, Newest) /\ Follows(m, w) /\ m.next \in Nat
      BY <1>2, <1>3, <1>10 DEF Kept, MetaPage, NUM_METAS
    <2>2. ASSUME NEW p \in Pages(m)
          PROVE  p \in Pages(w) \/ (p \in DOMAIN freed /\ m.id < freed[p])
      <3>1. p \in Pages(w) \/ (p \in DOMAIN w.freed /\ m.id < w.freed[p])
        BY <2>1 DEF Follows
      <3>2. p \in DOMAIN w.freed => p # w.next
        BY <1>4, <1>7 DEF Tidy
      <3> QED
        BY <1>5, <3>1, <3>2
    <2>3. Follows(m, wtxn')
      BY <1>4, <1>6, <2>1, <2>2 DEF Follows, Pages
    <2> QED
      BY <1>3, <1>7, <2>1, <2>3 DEF Kept, Follows, OnDisk, Pages
  <1>11. MetasOK'
    <2>1. ASSUME NEW i \in {0, 1} PROVE (Tidy(metas[i]) /\ Kept(metas[i]))'
      <3>1. PICK m \in MetaPage : m = metas[i]
        BY <1>1 DEF AsIsTypes
      <3>2. m = metas'[i] /\ Tidy(m) /\ Kept(m)
        BY <1>1, <1>3, <3>1 DEF MetasOK
      <3>3. Kept(m)'
        BY <1>10, <3>2
      <3> QED
        BY <3>2, <3>3 DEF Tidy, Kept, OnDisk, Follows, Pages
    <2>2. Tidy(wtxn')
      <3>1. Pages(w) \cap DOMAIN freed = {}
        BY <1>4, <1>5, <1>7 DEF Tidy
      <3>2. ASSUME NEW p \in Pages(w) \cup DOMAIN freed PROVE p < w.next + 1
        <4>1. p = w.next \/ (p < w.next /\ p \in Nat)
          BY <1>4, <1>5, <1>7, <3>2 DEF Tidy, Pages, Pgnos, NUM_METAS
        <4> QED
          BY <1>4, <4>1
      <3> QED
        BY <1>6, <3>1, <3>2 DEF Tidy, Pages
    <2>3. OnDisk(wtxn)'
      BY <1>3, <1>6, <1>7 DEF OnDisk, Pages
    <2> QED
      BY <1>3, <2>1, <2>2, <2>3 DEF MetasOK, Tidy, Pages
  <1>12. CopyOK' /\ AsIsReadable'
    BY <1>1, <1>3, <1>10, CopyStays
  <1> QED
    BY <1>8, <1>9, <1>11, <1>12 DEF AsIsInv

(* A commit replaces the older meta page: its successor follows all others. *)
LEMMA EndTxnInd ==
    ASSUME AsIsInv, EndTxn
    PROVE  AsIsInv'
  <1>1. AsIsTypes /\ NumbersOK /\ MetasOK /\ CopyOK /\ AsIsReadable
    BY DEF AsIsInv
  <1>2. wmutex = "writer" /\ wmutex' = "free" /\ wtxn' = None /\ UNCHANGED <<disk, copierVars>>
    BY DEF EndTxn
  <1>3. PICK w \in MetaPage : w = wtxn
    BY <1>1 DEF AsIsTypes
  <1>4. /\ w.id \in Nat /\ w.id = Newest.id + 1 /\ Tidy(w) /\ OnDisk(w)
        /\ Newest \in MetaPage /\ Newest.id \in Nat /\ at # "metas"
    BY <1>1, <1>2, <1>3, NewestIs DEF MetaPage, NumbersOK, MetasOK
  <1>5. CASE UNCHANGED metas
    <2>1. AsIsTypes' /\ NumbersOK'
      BY <1>1, <1>2, <1>4, <1>5, NoneIs DEF AsIsTypes, NumbersOK, copierVars, Newest
    <2>2. MetasOK'
      BY <1>1, <1>2, <1>5 DEF MetasOK, Tidy, Kept, OnDisk, Follows, Newest, Pages
    <2>3. \A m \in MetaPage : Kept(m) => Kept(m)'
      BY <1>2, <1>5 DEF Kept, OnDisk, Follows, Newest, Pages
    <2>4. CopyOK' /\ AsIsReadable'
      BY <1>1, <1>2, <1>5, <2>3, CopyStays
    <2> QED
      BY <2>1, <2>2, <2>4 DEF AsIsInv
  <1>6. CASE metas' = [metas EXCEPT ![wtxn.id % 2] = wtxn]
    <2>1. PICK k \in {0, 1} : k = w.id % 2
      BY <1>4
    <2>2. /\ metas' \in [{0, 1} -> MetaPage] /\ metas'[k] = w
          /\ metas'[1 - k] = metas[1 - k] /\ 1 - k \in {0, 1}
          /\ \A i \in {0, 1} : i = k \/ i = 1 - k
      <3>1. metas' = [metas EXCEPT ![k] = w] /\ metas \in [{0, 1} -> MetaPage]
        BY <1>1, <1>3, <1>6, <2>1 DEF AsIsTypes
      <3>2. 1 - k \in {0, 1} /\ 1 - k # k /\ \A i \in {0, 1} : i = k \/ i = 1 - k
        OBVIOUS
      <3> QED
        BY <3>1, <3>2
    <2>3. metas[1 - k] = Newest /\ Newest' = w
      <3>1. metas[0].id \in Nat /\ metas[1].id \in Nat
        BY <1>1, NewestIs
      <3>2. metas[0].id % 2 = 0 /\ metas[1].id % 2 = 1 /\ w.id % 2 = k
        BY <1>1, <2>1 DEF NumbersOK
      <3>3. CASE metas[0].id > metas[1].id
        <4>1. Newest = metas[0] /\ k = 1
          BY <1>4, <2>1, <3>1, <3>2, <3>3 DEF Newest
        <4> QED
          BY <1>4, <2>2, <3>1, <4>1 DEF Newest
      <3>4. CASE ~(metas[0].id > metas[1].id)
        <4>1. Newest = metas[1]
          BY <3>4 DEF Newest
        <4>2. k = 0
          BY <1>4, <2>1, <3>1, <3>2, <4>1
        <4> QED
          BY <1>4, <2>2, <3>1, <4>1, <4>2 DEF Newest
      <3> QED
        BY <3>3, <3>4
    <2>4. AsIsTypes'
      BY <1>1, <1>2, <2>2, NoneIs DEF AsIsTypes, copierVars
    <2>5. NumbersOK'
      <3>1. metas'[0].id % 2 = 0 /\ metas'[1].id % 2 = 1
        BY <1>1, <2>1, <2>2 DEF NumbersOK
      <3>2. metas'[0].id = metas'[1].id + 1 \/ metas'[1].id = metas'[0].id + 1
        <4>1. k = 0 \/ k = 1
          OBVIOUS
        <4> QED
          BY <1>4, <2>2, <2>3, <4>1
      <3>3. reader' <= Newest'.id
        <4>1. reader' = reader /\ reader <= Newest.id /\ reader \in Nat
          BY <1>1, <1>2 DEF NumbersOK, AsIsTypes, copierVars
        <4> QED
          BY <1>4, <2>3, <4>1
      <3> QED
        BY <1>1, <1>2, <1>4, <3>1, <3>2, <3>3 DEF NumbersOK, copierVars
    <2>6. ASSUME NEW m \in MetaPage, Kept(m) PROVE Kept(m)'
      BY <1>2, <1>3, <2>3, <2>6 DEF Kept, OnDisk, Follows, Pages
    <2>7. MetasOK'
      <3>1. PICK n \in MetaPage : n = Newest
        BY <1>4
      <3>2. Tidy(n) /\ Kept(n) /\ metas'[1 - k] = n
        BY <1>1, <2>2, <2>3, <3>1 DEF MetasOK
      <3>3. Kept(n)'
        BY <2>6, <3>2
      <3>4. Follows(w, w) /\ OnDisk(w)'
        <4>1. w.id <= w.id /\ w.next <= w.next
          <5>1. w.id \in Nat /\ w.next \in Nat
            BY MetaIs
          <5> QED
            BY <5>1
        <4> QED
          BY <1>2, <1>4, <4>1 DEF Follows, OnDisk, Pages
      <3>5. Kept(w)'
        BY <1>2, <2>3, <3>4 DEF Kept, Follows, Pages
      <3>6. (Tidy(metas[k]) /\ Kept(metas[k]))'
        BY <1>4, <2>2, <3>5 DEF Tidy, Kept, OnDisk, Follows, Pages
      <3>7. (Tidy(metas[1 - k]) /\ Kept(metas[1 - k]))'
        BY <3>2, <3>3 DEF Tidy, Kept, OnDisk, Follows, Pages
      <3> QED
        BY <1>2, <2>2, <3>6, <3>7 DEF MetasOK
    <2>8. CopyOK' /\ AsIsReadable'
      BY <1>1, <1>2, <1>4, <2>6, CopyStays
    <2> QED
      BY <2>4, <2>5, <2>7, <2>8 DEF AsIsInv
  <1> QED
    BY <1>5, <1>6 DEF EndTxn

-----------------------------------------------------------------------------
(* The copier. *)

(* Every set of pages that is not empty has a last. *)
LEMMA LastExists ==
    ASSUME NEW T \in SUBSET Pgnos, T # {}
    PROVE  \E p \in T : \A q \in T : q <= p
  <1> DEFINE R == {MaxPg - p : p \in T}
  <1>1. MaxPg \in Nat /\ \A p \in T : p \in Nat /\ MaxPg - p \in Nat
    BY AsIsAssumption DEF Pgnos, NUM_METAS
  <1>2. R \subseteq Nat /\ R # {}
    BY <1>1
  <1> HIDE DEF R
  <1>3. PICK x \in R : \A y \in R : ~(<<y, x>> \in OpToRel(<, Nat))
    BY <1>2, WFMin, NatLessThanWellFounded, Zenon
  <1>4. \A y \in R : <<y, x>> \in OpToRel(<, Nat) <=> y < x
    BY <1>2 DEF OpToRel
  <1>5. PICK p \in T : x = MaxPg - p
    BY DEF R
  <1>6. ASSUME NEW q \in T PROVE q <= p
    <2>1. MaxPg - q \in R
      BY DEF R
    <2>2. ~(MaxPg - q < MaxPg - p)
      BY <1>3, <1>4, <1>5, <2>1
    <2> QED
      BY <1>1, <2>2
  <1> QED
    BY <1>6

(* The end of the file is after its last page. *)
LEMMA FileEndIs ==
    ASSUME AsIsTypes, NEW q \in DOMAIN disk
    PROVE  FileEnd \in Nat /\ q < FileEnd
  <1>1. DOMAIN disk \in SUBSET Pgnos
    BY MapIs DEF AsIsTypes
  <1>2. \E p \in DOMAIN disk : \A x \in DOMAIN disk : x <= p
    BY <1>1, LastExists
  <1>3. PICK last \in DOMAIN disk :
           FileEnd = 1 + last /\ \A x \in DOMAIN disk : x <= last
    BY <1>2 DEF FileEnd
  <1>4. last \in Nat /\ q \in Nat /\ q <= last
    BY <1>1, <1>3 DEF Pgnos, NUM_METAS
  <1> QED
    BY <1>3, <1>4

(* Steps of the copier before and after the pages are copied. *)
LEMMA CopierTypes ==
    ASSUME AsIsInv
    PROVE  /\ AsIsTypes /\ NumbersOK /\ MetasOK /\ CopyOK /\ AsIsReadable
           /\ Newest \in MetaPage /\ Newest.id \in Nat /\ Newest.id > 0
           /\ reader \in Nat
  <1>1. AsIsTypes /\ NumbersOK /\ MetasOK /\ CopyOK /\ AsIsReadable
    BY DEF AsIsInv
  <1>2. /\ Newest \in MetaPage /\ Newest.id \in Nat /\ reader \in Nat
        /\ metas[0].id \in Nat /\ metas[1].id \in Nat
        /\ metas[0].id <= Newest.id /\ metas[1].id <= Newest.id
    BY <1>1, NewestIs DEF AsIsTypes
  <1>3. metas[0].id = metas[1].id + 1 \/ metas[1].id = metas[0].id + 1
    BY <1>1 DEF NumbersOK
  <1>4. Newest.id > 0
    BY <1>2, <1>3
  <1> QED
    BY <1>1, <1>2, <1>4

(* What the provers know of numbers only when nothing else is there. *)
LEMMA AtMost == ASSUME NEW x, x \in Nat, NEW y, y = 0 \/ y = x PROVE y <= x
  OBVIOUS
(* Small numbers. *)
LEMMA OneBit == ASSUME NEW x, x \in Nat, x < 2 PROVE x = 0 \/ x = 1
  OBVIOUS
(* The same. *)
LEMMA Positive == ASSUME NEW x, x \in Nat, x > 0 PROVE x # 0
  OBVIOUS

(* The copier's steps leave the writer's numbers alone. *)
LEMMA NumbersStay ==
    ASSUME NumbersOK, UNCHANGED <<metas, wtxn>>,
           Newest.id \in Nat, reader' \in {0, Newest.id},
           wmutex' = "copier" <=> at' = "metas",
           wmutex' = "writer" <=> wmutex = "writer",
           at' = "done" => reader' = 0, res' # "none" => at' = "done"
    PROVE  NumbersOK'
  <1>1. Newest' = Newest
    BY DEF Newest
  <1>2. reader' <= Newest.id
    <2>1. reader' = 0 \/ reader' = Newest.id
      OBVIOUS
    <2> QED
      BY <2>1, AtMost, Zenon
  <1> QED
    BY <1>1, <1>2 DEF NumbersOK

(* mdb_txn_begin. *)
LEMMA StartsInd ==
    ASSUME AsIsInv, Starts
    PROVE  AsIsInv'
  <1>1. /\ at = "off" /\ at' = "lock" /\ reader' = Newest.id /\ rsnap' = Newest
        /\ UNCHANGED <<disk, metas, wmutex, wtxn, out, res>> /\ Newest' = Newest
    BY DEF Starts, envVars, Newest
  <1>2. /\ AsIsTypes /\ NumbersOK /\ MetasOK /\ CopyOK /\ AsIsReadable
        /\ Newest \in MetaPage /\ Newest.id \in Nat
    BY CopierTypes
  <1>3. AsIsTypes' /\ NumbersOK'
    <2>1. /\ wmutex' = "copier" <=> at' = "metas"
          /\ wmutex' = "writer" <=> wmutex = "writer"
          /\ res' # "none" => at' = "done"
      BY <1>1, <1>2 DEF NumbersOK
    <2>2. NumbersOK'
      BY <1>1, <1>2, <2>1, NumbersStay
    <2> QED
      BY <1>1, <1>2, <2>2 DEF AsIsTypes
  <1>4. MetasOK'
    BY <1>1, <1>2, MetasStay
  <1>5. CopyOK' /\ AsIsReadable'
    BY <1>1, <1>2 DEF CopyOK, AsIsReadable, NumbersOK
  <1> QED
    BY <1>3, <1>4, <1>5 DEF AsIsInv

(* The transaction is reset before the writers' mutex is awaited. *)
LEMMA ResetInd ==
    ASSUME AsIsInv, Reset
    PROVE  AsIsInv'
  <1>1. /\ at = "lock" /\ reader' = 0 /\ rsnap' = None
        /\ UNCHANGED <<disk, metas, wmutex, wtxn, out, at, res>> /\ Newest' = Newest
    BY DEF Reset, envVars, Newest
  <1>2. /\ AsIsTypes /\ NumbersOK /\ MetasOK /\ CopyOK /\ AsIsReadable
        /\ Newest \in MetaPage /\ Newest.id \in Nat
    BY CopierTypes
  <1>3. AsIsTypes' /\ NumbersOK'
    <2>1. /\ wmutex' = "copier" <=> at' = "metas"
          /\ wmutex' = "writer" <=> wmutex = "writer"
          /\ res' # "none" => at' = "done"
      BY <1>1, <1>2 DEF NumbersOK
    <2>2. NumbersOK'
      BY <1>1, <1>2, <2>1, NumbersStay
    <2> QED
      BY <1>1, <1>2, <2>2, NoneIs DEF AsIsTypes
  <1>4. MetasOK'
    BY <1>1, <1>2, MetasStay
  <1>5. CopyOK' /\ AsIsReadable'
    BY <1>1, <1>2 DEF CopyOK, AsIsReadable, NumbersOK
  <1> QED
    BY <1>3, <1>4, <1>5 DEF AsIsInv

(* It is renewed with the mutex held: it reads the newest meta page. *)
LEMMA RenewInd ==
    ASSUME AsIsInv, Renew
    PROVE  AsIsInv'
  <1>1. /\ at = "lock" /\ at' = "metas" /\ wmutex = "free" /\ wmutex' = "copier"
        /\ reader' = Newest.id /\ rsnap' = Newest
        /\ UNCHANGED <<disk, metas, wtxn, out, res>> /\ Newest' = Newest
    BY DEF Renew, Newest
  <1>2. /\ AsIsTypes /\ NumbersOK /\ MetasOK /\ CopyOK /\ AsIsReadable
        /\ Newest \in MetaPage /\ Newest.id \in Nat
    BY CopierTypes
  <1>3. AsIsTypes'
    BY <1>1, <1>2 DEF AsIsTypes
  <1>4. NumbersOK'
    <2>1. res' # "none" => at' = "done"
      BY <1>1, <1>2 DEF NumbersOK
    <2> QED
      BY <1>1, <1>2, <2>1, NumbersStay
  <1>5. MetasOK'
    BY <1>1, <1>2, MetasStay
  <1>6. out'.metas = <<>> /\ out'.pages = <<>> /\ res' = "none"
    BY <1>1, <1>2 DEF CopyOK, NumbersOK, AsIsTypes
  <1>7. AsIsReadable'
    BY <1>6 DEF AsIsReadable
  <1>8. CopyOK'
    <2>1. Len(out'.metas) = 0 /\ rsnap' = Newest' /\ reader' = Newest'.id
      BY <1>1, <1>6
    <2>2. 0 < NUM_METAS /\ \A i \in 1..0 : out'.metas[i] = metas'[i - 1]
      BY DEF NUM_METAS
    <2>3. (/\ Len(out.metas) < NUM_METAS
           /\ \A i \in 1..Len(out.metas) : out.metas[i] = metas[i - 1])'
      BY <2>1, <2>2
    <2> QED
      BY <1>1, <1>6, <2>1, <2>3 DEF CopyOK
  <1> QED
    BY <1>3, <1>4, <1>5, <1>7, <1>8 DEF AsIsInv

(* mdb_txn_abort: nothing is asked of the copy any more. *)
LEMMA LeaveInd ==
    ASSUME AsIsInv, NEW r \in {"copied", "failed"}, Leave(r),
           wmutex' = IF at = "metas" THEN "free" ELSE wmutex, AsIsReadable'
    PROVE  AsIsInv'
  <1>1. /\ at' = "done" /\ res' = r /\ reader' = 0 /\ rsnap' = None
        /\ UNCHANGED <<disk, metas, wtxn, out>> /\ Newest' = Newest
    BY DEF Leave, Newest
  <1>2. /\ AsIsTypes /\ NumbersOK /\ MetasOK /\ CopyOK
        /\ Newest \in MetaPage /\ Newest.id \in Nat
    BY CopierTypes
  <1>3. /\ wmutex' \in {"free", "writer"} /\ (wmutex' = "writer" <=> wmutex = "writer")
    BY <1>2 DEF AsIsTypes, NumbersOK
  <1>4. AsIsTypes'
    BY <1>1, <1>2, <1>3, NoneIs DEF AsIsTypes
  <1>5. NumbersOK'
    BY <1>1, <1>2, <1>3, NumbersStay
  <1>6. MetasOK'
    BY <1>1, <1>2, <1>3, MetasStay
  <1>7. CopyOK'
    BY <1>1 DEF CopyOK
  <1> QED
    BY <1>4, <1>5, <1>6, <1>7 DEF AsIsInv

(* A failure leaves neither slot nor mutex. *)
LEMMA CopyFailsInd ==
    ASSUME AsIsInv, CopyFails
    PROVE  AsIsInv'
  <1>1. AsIsTypes /\ NumbersOK
    BY DEF AsIsInv
  <1>2. Leave("failed") /\ wmutex' = IF at = "metas" THEN "free" ELSE wmutex
    BY DEF CopyFails
  <1>3. AsIsReadable'
    BY <1>2 DEF Leave, AsIsReadable
  <1> QED
    BY <1>2, <1>3, LeaveInd

(* At the end every page the copied metas need has been passed. *)
LEMMA CopiedInd ==
    ASSUME AsIsInv, EndOK, Copied
    PROVE  AsIsInv'
  <1>1. /\ AsIsTypes /\ NumbersOK /\ MetasOK /\ CopyOK
        /\ at = "pages" /\ copyEnd # 0 /\ NUM_METAS + Len(out.pages) >= copyEnd
        /\ Leave("copied") /\ out' = out /\ wmutex' = wmutex
    BY DEF AsIsInv, Copied, Leave
  <1>2. Len(out.metas) = NUM_METAS /\ out.metas \in Seq(MetaPage) /\ out.pages \in Seq(Nat)
    BY <1>1 DEF CopyOK, AsIsTypes
  <1>3. ASSUME NEW i \in 1..NUM_METAS, NEW p \in Pages(out.metas[i])
        PROVE  p - 1 \in DOMAIN out.pages /\ out.pages[p - 1] = out.metas[i].tree[p]
    <2>1. PICK m \in MetaPage : m = out.metas[i]
      BY <1>2, ElementOfSeq
    <2>2. \A j \in 1..Len(out.pages) :
                j + 1 \in Pages(m) => out.pages[j] = m.tree[j + 1]
      BY <1>1, <2>1 DEF CopyOK
    <2>3. p \in Pgnos /\ p \in Pages(m)
      BY <1>3, <2>1, MetaIs DEF Pages
    <2>7. p < copyEnd /\ copyEnd \in Nat
      BY <1>1, <1>3 DEF EndOK
    <2>8. p - 1 \in 1..Len(out.pages) /\ (p - 1) + 1 = p
      BY <1>1, <1>2, <2>3, <2>7 DEF Pgnos, NUM_METAS
    <2> QED
      BY <1>2, <2>1, <2>2, <2>3, <2>8
  <1>4. AsIsReadable'
    BY <1>1, <1>2, <1>3 DEF AsIsReadable, Leave, Pages
  <1>5. wmutex' = IF at = "metas" THEN "free" ELSE wmutex
    BY <1>1
  <1> QED
    BY <1>1, <1>4, <1>5, LeaveInd

(* The next page: if a copied meta needs it, it holds what it held then. *)
LEMMA CopyPageInd ==
    ASSUME AsIsInv, CopyPage
    PROVE  AsIsInv'
  <1>1. /\ AsIsTypes /\ NumbersOK /\ MetasOK /\ CopyOK /\ AsIsReadable
    BY DEF AsIsInv
  <1>2. /\ at = "pages"
        /\ out' = [out EXCEPT !.pages = Append(@, Content(NUM_METAS + Len(@)))]
        /\ UNCHANGED <<disk, metas, wmutex, wtxn, reader, rsnap, at, res>>
        /\ Newest' = Newest
    BY DEF CopyPage, envVars, Newest
  <1>3. out.metas \in Seq(MetaPage) /\ out.pages \in Seq(Nat) /\ Len(out.pages) \in Nat
    <2>1. out \in [metas : Seq(MetaPage), pages : Seq(Nat)]
      BY <1>1 DEF AsIsTypes
    <2>2. out.metas \in Seq(MetaPage) /\ out.pages \in Seq(Nat)
      BY <2>1
    <2> QED
      BY <2>2, LenProperties
  <1>4. PICK n \in Nat : n = NUM_METAS + Len(out.pages)
    BY <1>3 DEF NUM_METAS
  <1>5. Content(n) \in Nat
    BY <1>1, MapIs DEF Content, AsIsTypes
  <1>6. /\ out'.pages = Append(out.pages, Content(n)) /\ out'.metas = out.metas
        /\ out' \in [metas : Seq(MetaPage), pages : Seq(Nat)]
    <2>1. PICK o \in [metas : Seq(MetaPage), pages : Seq(Nat)] : o = out
      BY <1>1 DEF AsIsTypes
    <2>2. PICK s : s = Append(o.pages, Content(n))
      OBVIOUS
    <2>3. s \in Seq(Nat)
      BY <1>3, <1>5, <2>1, <2>2, AppendProperties
    <2>4. out' = [o EXCEPT !.pages = s]
      BY <1>2, <1>4, <2>1, <2>2
    <2> QED
      BY <2>1, <2>2, <2>3, <2>4
  <1>7. /\ Len(out'.pages) = Len(out.pages) + 1 /\ out'.pages[Len(out.pages) + 1] = Content(n)
        /\ \A j \in 1..Len(out.pages) : out'.pages[j] = out.pages[j]
    BY <1>3, <1>5, <1>6
  <1>8. AsIsTypes' /\ NumbersOK'
    BY <1>1, <1>2, <1>6 DEF AsIsTypes, NumbersOK
  <1>9. MetasOK'
    BY <1>1, <1>2, MetasStay
  <1>10. ASSUME NEW i \in 1..NUM_METAS, NEW j \in 1..Len(out'.pages),
                j + 1 \in Pages(out.metas[i])
         PROVE  out'.pages[j] = out.metas[i].tree[j + 1]
    <2>1. CASE j \in 1..Len(out.pages)
      BY <1>1, <1>2, <1>7, <1>10, <2>1 DEF CopyOK
    <2>2. CASE j = Len(out.pages) + 1
      <3>1. n = j + 1
        BY <1>3, <1>4, <2>2 DEF NUM_METAS
      <3>2. OnDisk(out.metas[i])
        BY <1>1, <1>2 DEF CopyOK, Kept
      <3> QED
        BY <1>7, <1>10, <2>2, <3>1, <3>2 DEF OnDisk, Content
    <2> QED
      BY <1>3, <1>7, <2>1, <2>2
  <1>11. CopyOK'
    <2>1. ASSUME NEW i \in 1..NUM_METAS
          PROVE  (Tidy(out.metas[i]) /\ Kept(out.metas[i]))'
      BY <1>1, <1>2, <1>6 DEF CopyOK, Tidy, Kept, OnDisk, Follows, Pages
    <2>2. ASSUME NEW i \in 1..NUM_METAS
          PROVE  (/\ out.metas[i].next <= rsnap.next
                  /\ reader <= out.metas[i].id + 1
                  /\ \A j \in 1..Len(out.pages) :
                        j + 1 \in Pages(out.metas[i]) =>
                            out.pages[j] = out.metas[i].tree[j + 1])'
      BY <1>1, <1>2, <1>6, <1>10 DEF CopyOK, Pages
    <2>3. (Len(out.metas) = NUM_METAS /\ reader # 0)'
      BY <1>1, <1>2, <1>6 DEF CopyOK
    <2> QED
      BY <1>2, <2>1, <2>2, <2>3 DEF CopyOK
  <1>12. AsIsReadable'
    BY <1>1, <1>2 DEF AsIsReadable, NumbersOK
  <1> QED
    BY <1>8, <1>9, <1>11, <1>12 DEF AsIsInv

(* The meta pages are copied while no writer can write them. *)
LEMMA CopyMetaInd ==
    ASSUME AsIsInv, CopyMeta
    PROVE  AsIsInv'
  <1>1. /\ AsIsTypes /\ NumbersOK /\ MetasOK /\ CopyOK /\ AsIsReadable
        /\ Newest \in MetaPage /\ Newest.id \in Nat /\ Newest.id > 0 /\ reader \in Nat
    BY CopierTypes
  <1>2. /\ at = "metas"
        /\ out' = [out EXCEPT !.metas = Append(@, metas[Len(@)])]
        /\ IF Len(out'.metas) < NUM_METAS THEN UNCHANGED <<wmutex, at>>
           ELSE wmutex' = "free" /\ at' = "pages"
        /\ UNCHANGED <<disk, metas, wtxn, reader, rsnap, res>> /\ Newest' = Newest
    BY DEF CopyMeta, Newest
  <1>3. /\ out.metas \in Seq(MetaPage) /\ out.pages = <<>> /\ Len(out.metas) \in {0, 1}
        /\ \A i \in 1..Len(out.metas) : out.metas[i] = metas[i - 1]
        /\ rsnap = Newest /\ reader = Newest.id
    <2>1. out \in [metas : Seq(MetaPage), pages : Seq(Nat)]
      BY <1>1 DEF AsIsTypes
    <2>2. out.metas \in Seq(MetaPage) /\ Len(out.metas) \in Nat
      BY <2>1, LenProperties
    <2>3. /\ out.pages = <<>> /\ Len(out.metas) < 2
          /\ \A i \in 1..Len(out.metas) : out.metas[i] = metas[i - 1]
          /\ rsnap = Newest /\ reader = Newest.id
      BY <1>1, <1>2 DEF CopyOK, NUM_METAS
    <2>4. Len(out.metas) = 0 \/ Len(out.metas) = 1
      BY <2>2, <2>3, OneBit, Zenon
    <2> QED
      BY <2>2, <2>3, <2>4
  <1>4. PICK n \in {0, 1} : n = Len(out.metas)
    BY <1>3
  <1>5. metas[n] \in MetaPage
    BY <1>1 DEF AsIsTypes
  <1>6. /\ out'.metas = Append(out.metas, metas[n]) /\ out'.pages = <<>>
        /\ out' \in [metas : Seq(MetaPage), pages : Seq(Nat)]
    <2>1. PICK o \in [metas : Seq(MetaPage), pages : Seq(Nat)] : o = out
      BY <1>1 DEF AsIsTypes
    <2>2. PICK s : s = Append(o.metas, metas[n])
      OBVIOUS
    <2>3. s \in Seq(MetaPage)
      BY <1>3, <1>5, <2>1, <2>2, AppendProperties
    <2>4. out' = [o EXCEPT !.metas = s]
      BY <1>2, <1>4, <2>1, <2>2
    <2> QED
      BY <1>3, <2>1, <2>2, <2>3, <2>4
  <1>7. Len(out'.metas) = n + 1 /\ \A i \in 1..n + 1 : out'.metas[i] = metas[i - 1]
    BY <1>3, <1>4, <1>5, <1>6
  <1>8. /\ wmutex = "copier" /\ wmutex' \in {"copier", "free"} /\ at' \in {"metas", "pages"}
        /\ wmutex' = "copier" <=> at' = "metas"
        /\ at' = "metas" <=> n = 0
    <2>1. wmutex = "copier"
      BY <1>1, <1>2 DEF NumbersOK
    <2>2. CASE n = 0
      <3>1. Len(out'.metas) < NUM_METAS
        BY <1>7, <2>2 DEF NUM_METAS
      <3> QED
        BY <1>2, <2>1, <2>2, <3>1
    <2>3. CASE n # 0
      <3>1. ~(Len(out'.metas) < NUM_METAS)
        BY <1>7, <2>3 DEF NUM_METAS
      <3>2. wmutex' = "free" /\ at' = "pages"
        BY <1>2, <3>1
      <3> QED
        BY <2>1, <2>3, <3>2
    <2> QED
      BY <2>2, <2>3
  <1>9. AsIsTypes'
    BY <1>1, <1>2, <1>6, <1>8 DEF AsIsTypes
  <1>10. res = "none" /\ NumbersOK'
    <2>1. res = "none"
      BY <1>1, <1>2 DEF NumbersOK
    <2> QED
      BY <1>1, <1>2, <1>3, <1>8, <2>1, NumbersStay
  <1>11. MetasOK'
    BY <1>1, <1>2, <1>8, MetasStay
  <1>12. CASE n = 0
    BY <1>2, <1>3, <1>6, <1>7, <1>8, <1>9, <1>10, <1>11, <1>12
    DEF CopyOK, AsIsReadable, AsIsInv, NUM_METAS
  <1>13. CASE n # 0
    <2>1. ASSUME NEW i \in 1..NUM_METAS
          PROVE  \E m \in MetaPage : /\ m = out'.metas[i] /\ Tidy(m) /\ Kept(m)
                                     /\ m.next <= Newest.next /\ Newest.id <= m.id + 1
      <3>1. i - 1 \in {0, 1} /\ out'.metas[i] = metas[i - 1]
        BY <1>7, <1>13 DEF NUM_METAS
      <3>2. PICK m \in MetaPage : m = metas[i - 1]
        BY <1>1, <3>1 DEF AsIsTypes
      <3>3. Tidy(m) /\ Kept(m) /\ m.next <= Newest.next
        BY <1>1, <3>1, <3>2 DEF MetasOK, Kept, Follows
      <3>4. Newest.id <= m.id + 1
        BY <1>1, <3>1, <3>2, NewestIs
      <3> QED
        BY <3>1, <3>2, <3>3, <3>4
    <2>2. ASSUME NEW i \in 1..NUM_METAS
          PROVE  (/\ Tidy(out.metas[i]) /\ Kept(out.metas[i])
                  /\ out.metas[i].next <= rsnap.next
                  /\ reader <= out.metas[i].id + 1)'
      <3>1. PICK m \in MetaPage : /\ m = out'.metas[i] /\ Tidy(m) /\ Kept(m)
                                  /\ m.next <= Newest.next /\ Newest.id <= m.id + 1
        BY <2>1
      <3>2. Kept(m)'
        BY <1>2, <1>8, <3>1, KeptStays
      <3> QED
        BY <1>2, <1>3, <3>1, <3>2 DEF Tidy, Kept, OnDisk, Follows, Pages
    <2>3. /\ at' = "pages" /\ Len(out'.metas) = NUM_METAS /\ Len(out'.pages) = 0
          /\ reader' # 0
      <3>1. at' = "pages"
        <4>1. at' # "metas"
          BY <1>8, <1>13
        <4> QED
          BY <1>8, <4>1
      <3>2. Len(out'.metas) = NUM_METAS /\ Len(out'.pages) = 0
        BY <1>6, <1>7, <1>13 DEF NUM_METAS
      <3>3. reader' # 0
        <4>1. reader' = Newest.id
          BY <1>2, <1>3
        <4> QED
          BY <1>1, <4>1, Positive, Zenon
      <3> QED
        BY <3>1, <3>2, <3>3
    <2>4. CopyOK'
      BY <2>2, <2>3 DEF CopyOK
    <2>5. AsIsReadable'
      BY <1>2, <1>10 DEF AsIsReadable
    <2> QED
      BY <1>9, <1>10, <1>11, <2>4, <2>5 DEF AsIsInv
  <1> QED
    BY <1>12, <1>13

(* The size of the file is read when both meta pages are in the copy, and  *)
(* what they need is in the file by then.                                  *)
LEMMA ReadSizeInd ==
    ASSUME AsIsInv, ReadSize
    PROVE  AsIsInv' /\ EndOK'
  <1>1. /\ AsIsTypes /\ NumbersOK /\ MetasOK /\ CopyOK /\ AsIsReadable
        /\ at = "pages" /\ copyEnd' = Least(rsnap.next, FileEnd)
        /\ UNCHANGED <<disk, metas, wmutex, wtxn, reader, rsnap, out, at, res>>
    BY DEF AsIsInv, ReadSize, envVars
  <1>2. AsIsTypes' /\ NumbersOK' /\ AsIsReadable'
    BY <1>1 DEF AsIsTypes, NumbersOK, AsIsReadable, Newest, Pages
  <1>3. MetasOK'
    BY <1>1, MetasStay
  <1>4. CopyOK'
    BY <1>1 DEF CopyOK, Tidy, Kept, OnDisk, Follows, Newest, Pages
  <1>5. \A p \in DOMAIN disk : FileEnd \in Nat /\ p < FileEnd
    BY <1>1, FileEndIs
  <1>6. rsnap.next \in Nat
    <2>1. rsnap \in MetaPage
      BY <1>1 DEF AsIsTypes
    <2> QED
      BY <2>1, MetaIs, Zenon
  <1>7. Len(out.metas) = NUM_METAS /\ out.metas \in Seq(MetaPage)
    BY <1>1 DEF CopyOK, AsIsTypes
  <1>8. ASSUME NEW i \in 1..NUM_METAS, NEW p \in Pages(out.metas[i])
        PROVE  copyEnd' \in Nat /\ p < copyEnd'
    <2>1. PICK m \in MetaPage : m = out.metas[i]
      BY <1>7, ElementOfSeq
    <2>2. Tidy(m) /\ OnDisk(m) /\ m.next <= rsnap.next
      BY <1>1, <2>1 DEF CopyOK, Kept
    <2>3. p \in Pgnos /\ p \in Pages(m) /\ m.next \in Nat
      BY <1>8, <2>1, MetaIs DEF Pages
    <2>4. FileEnd \in Nat /\ p < FileEnd /\ p < m.next
      BY <1>5, <2>2, <2>3 DEF OnDisk, Tidy
    <2> QED
      BY <1>1, <1>6, <2>2, <2>3, <2>4 DEF Least, Pgnos, NUM_METAS
  <1>9. EndOK'
    BY <1>1, <1>8 DEF EndOK, Pages
  <1> QED
    BY <1>2, <1>3, <1>4, <1>9 DEF AsIsInv

(* No other step moves the end of the copy. *)
LEMMA EndStays ==
    ASSUME AsIsInv, EndOK, AsIsNext, ~ReadSize
    PROVE  EndOK'
  <1>1. CASE WriterNext
    <2>1. UNCHANGED copierVars
      BY <1>1 DEF WriterNext, Lock, WritePage, SkipPage, EndTxn
    <2> QED
      BY <2>1 DEF EndOK, copierVars, Pages
  <1>2. CASE Starts \/ Reset \/ Renew
    BY <1>2 DEF Starts, Reset, Renew, EndOK
  <1>3. CASE CopyMeta
    BY <1>3 DEF CopyMeta, EndOK
  <1>4. CASE CopyPage
    <2>1. out \in [metas : Seq(MetaPage), pages : Seq(Nat)]
      BY DEF AsIsInv, AsIsTypes
    <2>2. out'.metas = out.metas
      BY <1>4, <2>1 DEF CopyPage
    <2> QED
      BY <1>4, <2>2 DEF CopyPage, EndOK, Pages
  <1>5. CASE Copied \/ CopyFails
    BY <1>5 DEF Copied, CopyFails, Leave, EndOK
  <1> QED
    BY <1>1, <1>2, <1>3, <1>4, <1>5 DEF AsIsNext, CopierNext

-----------------------------------------------------------------------------
(* The whole call. *)

(* Steps of the other copy. *)
LEMMA AsIsStutter ==
    ASSUME AsIsInv, UNCHANGED asisVars
    PROVE  AsIsInv'
  <1>1. /\ UNCHANGED <<disk, metas, wmutex, wtxn, reader, rsnap, out, at, res>>
        /\ AsIsTypes /\ NumbersOK /\ MetasOK /\ CopyOK /\ AsIsReadable
    BY DEF asisVars, envVars, copierVars, AsIsInv
  <1>2. AsIsTypes' /\ NumbersOK' /\ AsIsReadable'
    BY <1>1 DEF AsIsTypes, NumbersOK, AsIsReadable, Newest, Pages
  <1>3. MetasOK'
    BY <1>1, MetasStay
  <1>4. CopyOK'
    BY <1>1 DEF CopyOK, Tidy, Kept, OnDisk, Follows, Newest, Pages
  <1> QED
    BY <1>2, <1>3, <1>4 DEF AsIsInv

(* Every step keeps the invariant. *)
LEMMA AsIsInd ==
    ASSUME AsIsInv, EndOK, [Next]_vars
    PROVE  AsIsInv' /\ EndOK'
  <1>1. CASE AsIsNext
    <2>1. WriterNext => AsIsInv'
      BY LockInd, WritePageInd, SkipPageInd, EndTxnInd DEF WriterNext
    <2>2. CopierNext => AsIsInv'
      BY StartsInd, ResetInd, RenewInd, CopyMetaInd, ReadSizeInd, CopyPageInd,
         CopiedInd, CopyFailsInd DEF CopierNext
    <2>3. EndOK'
      BY <1>1, ReadSizeInd, EndStays
    <2> QED
      BY <1>1, <2>1, <2>2, <2>3 DEF AsIsNext
  <1>2. CASE UNCHANGED asisVars
    <2>1. EndOK'
      BY <1>2 DEF EndOK, asisVars, copierVars, Pages
    <2> QED
      BY <1>2, <2>1, AsIsStutter
  <1> QED
    BY <1>1, <1>2 DEF Next, Open, Compacts, AsIs, Close, vars

(* A copy of the environment as it is can be opened at either of its meta  *)
(* pages: each page their trees need is in the copy with what the          *)
(* transaction has left in it, whatever a writer has committed while the   *)
(* pages were being copied (mdb_env_copyfd0).                              *)
THEOREM CopiesAreReadable == Spec => []AsIsReadable
  <1>1. Init => AsIsInv /\ EndOK
    BY AsIsInitInd DEF Init, EndOK, AsIsInit
  <1>2. AsIsInv /\ EndOK /\ [Next]_vars => AsIsInv' /\ EndOK'
    BY AsIsInd
  <1>3. AsIsInv => AsIsReadable
    BY DEF AsIsInv
  <1> QED
    BY <1>1, <1>2, <1>3, PTL DEF Spec

-----------------------------------------------------------------------------
(***************************************************************************)
(* The compacting copy.  The numbers of the two threads fit together: a    *)
(* buffer is given only when one is free, MDB_EOF comes last, and the      *)
(* toggles agree with mc_new.                                              *)
(***************************************************************************)
Waiting  == {"await", "released", "asleep", "woken"}
WalkerAt == {"off", "begin", "walk", "finish", "give", "given", "join", "done"}
            \cup Waiting
WriterAt == {"off", "write", "exit"} \cup Waiting

HeldBy ==
    /\ DOMAIN pc = Threads
    /\ pc["walker"] \in WalkerAt /\ pc["writer"] \in WriterAt
    /\ mutex \in {"walker", "writer", "free"} /\ event \in BOOLEAN
    /\ mutex = "walker" <=> pc["walker"] = "await"
    /\ mutex = "writer" <=> pc["writer"] \in {"await", "write"}
    /\ event => pc["walker"] # "asleep" /\ pc["writer"] # "asleep"

Counted ==
    /\ pc["walker"] \in {"off", "begin"} => new = 0
    /\ pc["walker"] \in {"off", "begin", "walk", "finish", "give"} => new \in {0, 1}
    /\ pc["walker"] = "give" => adjust \in {1, 17}
    /\ pc["walker"] = "given" =>
          \/ adjust = 1 /\ new \in {0, 1}
          \/ adjust = 17 /\ new \in {16, 17}
    /\ pc["walker"] \in Waiting =>
          \/ adjust = 1 /\ new \in {0, 1, 2}
          \/ adjust = 17 /\ new \in {16, 17, 18}
    /\ pc["walker"] = "join" => new \in {16, 17}
    /\ new \in {0, 1, 2, 16, 17, 18} /\ adjust \in {0, 1, 17}
    /\ pc["writer"] = "write" => new \in {1, 2, 17, 18}
    /\ pc["writer"] = "exit" => new = 16
    /\ pc["walker"] = "done" => pc["writer"] \in {"off", "exit"}
    /\ pc["walker"] = "off" => pc["writer"] = "off"
    /\ pc["writer"] = "off" => pc["walker"] \in {"off", "done"}

Toggles ==
    /\ hand \in {0, 1} /\ turn \in {0, 1}
    /\ pc["walker"] \in {"off", "begin"} => hand = 0
    /\ turn = hand <=> (new \in {1, 17} <=> pc["walker"] \in Waiting \cup {"given"})

SyncInv == HeldBy /\ Counted /\ Toggles

(***************************************************************************)
(* The buffers.                                                            *)
(***************************************************************************)
Refs     == Int \cup {NoPage}
AnyImage == [of : Nat, part : Nat, pgno : Refs, to : Seq(Refs)]

BuffersOK ==
    /\ DOMAIN buf = {0, 1} /\ DOMAIN over = {0, 1}
    /\ \A b \in {0, 1} : buf[b] \in Seq(AnyImage) /\ over[b] \in Seq(AnyImage)
    /\ left \in Seq(AnyImage) /\ file \in Seq(AnyImage)
    /\ \A b \in {0, 1} : Len(buf[b]) <= BufPages
    /\ \A b \in {0, 1} : over[b] # <<>> =>
          \/ new \in {1, 17} /\ b = turn
          \/ new \in {2, 18}
          \/ pc["walker"] = "give" /\ b = hand

(* The transaction, and what is there without one. *)
TxnOK ==
    /\ txn \in BOOLEAN
    /\ pc["walker"] = "walk" => txn
    /\ pc["walker"] \in {"off", "begin", "done"} => ~txn
    /\ ~txn /\ pc["walker"] = "finish" => rc # "ok"
    /\ ~txn /\ pc["walker"] \in {"give", "given", "join"} \cup Waiting => error # "ok"
    /\ ~txn /\ pc["walker"] # "done" =>
          /\ \A b \in {0, 1} : buf[b] = <<>> /\ over[b] = <<>>
          /\ left = <<>> /\ file = <<>>

(***************************************************************************)
(* The walk: each page on it is led to by the item its parent is at, and   *)
(* from there on has only the numbers that the snapshot has.               *)
(***************************************************************************)
Entries == [at : Nat, i : Nat \ {0}, to : Seq(Refs)]
EntryOK(s, e) ==
    /\ e.at \in DOMAIN s.pages /\ e.i \in Nat \ {0} /\ e.to \in Seq(Refs)
    /\ Len(e.to) = Len(s.pages[e.at]) /\ e.i <= Len(e.to) + 1
    /\ \A j \in e.i..Len(e.to) : e.to[j] = s.pages[e.at][j].to
LeadsTo(s, e, p) ==
    /\ e.i \in DOMAIN s.pages[e.at]
    /\ s.pages[e.at][e.i].kind # "big" /\ s.pages[e.at][e.i].to = p
WalkIn(s, w) ==
    /\ w \in Seq(Entries)
    /\ \A d \in 1..Len(w) : EntryOK(s, w[d])
    /\ \A d \in 1..Len(w) - 1 : LeadsTo(s, w[d], w[d + 1].at)
    /\ w # <<>> => w[1].at = s.root
    /\ \A d, e \in 1..Len(w) : w[d].at = w[e].at => d = e
WalkOK ==
    /\ nextPgno \in Nat /\ (pc["walker"] \in {"off", "begin"} => nextPgno = 2)
    /\ txn => snap \in Snapshots /\ WalkIn(snap, walk)
    /\ pc["walker"] = "walk" => walk # <<>>
    /\ pc["walker"] \in {"give", "given"} \cup Waiting /\ adjust = 1 => walk # <<>>

(***************************************************************************)
(* What has been written and is waiting to be, in the order of the copy:   *)
(* every page is there once and whole, and was led to by a page that is    *)
(* there as well or that the walk is at.                                   *)
(***************************************************************************)
All == file \o Pending

HoldsIn(o, k, p) == k \in 1..Len(o) /\ o[k].of = p /\ o[k].part = 0
ItemIn(o, item, to) ==
    IF item.to = NoPage THEN to = NoPage
    ELSE /\ to \in Nat /\ HoldsIn(o, to + 1, item.to)
         /\ item.kind = "big" =>
              \A j \in 1..item.n - 1 :
                 /\ to + 1 + j \in 1..Len(o)
                 /\ o[to + 1 + j] = Image(item.to, j, NoPage, <<>>)
PageIn(s, o, k, p) ==
    /\ HoldsIn(o, k, p) /\ Len(o[k].to) = Len(s.pages[p])
    /\ \A i \in 1..Len(s.pages[p]) : ItemIn(o, s.pages[p][i], o[k].to[i])
Visited(w, o, p, i) ==
    \/ \E k \in 1..Len(o) : o[k].of = p
    \/ \E d \in 1..Len(w) : w[d].at = p /\ i < w[d].i

Begun(s, n, o) ==
    /\ o \in Seq(AnyImage) /\ Len(o) = n /\ n >= 2
    /\ o[1] = Metas(s)[1] /\ o[2] = Metas(s)[2]
Ordered(o) ==
    \A k \in 1..Len(o) :
        IF o[k].part = 0 THEN o[k].pgno = k - 1
        ELSE k > 1 /\ o[k - 1].of = o[k].of /\ o[k - 1].part = o[k].part - 1
AllWhole(s, o) ==
    \A k \in 1..Len(o) : o[k].of \in DOMAIN s.pages => PageIn(s, o, k, o[k].of)
NoMetas(o) == \A k \in 1..Len(o) : o[k].of < 2 => k <= 2
Once(o) == \A j, k \in 1..Len(o) :
    o[j].of = o[k].of /\ o[j].part = o[k].part => j = k
Ahead(w, o) == \A d \in 1..Len(w), k \in 1..Len(o) : o[k].of # w[d].at
Behind(s, w, o) ==
    \A d \in 1..Len(w) : \A i \in 1..w[d].i - 1 :
        ItemIn(o, s.pages[w[d].at][i], w[d].to[i])
Led(s, w, o) ==
    \A k \in 1..Len(o), p \in DOMAIN s.pages : \A i \in 1..Len(s.pages[p]) :
        o[k].of = s.pages[p][i].to => Visited(w, o, p, i)

OutputOK(s, w, n, o) ==
    /\ Begun(s, n, o) /\ Ordered(o) /\ AllWhole(s, o) /\ NoMetas(o) /\ Once(o)
    /\ Ahead(w, o) /\ Behind(s, w, o) /\ Led(s, w, o)

(* The walk is over, and the root has come last. *)
WholeIn(s, o) ==
    IF s.root = NoPage THEN Len(o) = 2
    ELSE HoldsIn(o, Len(o), s.root) /\ NewRoot(s) = Len(o) - 1

Over == \/ pc["walker"] = "finish" /\ rc = "ok"
        \/ pc["walker"] \in {"give", "given", "join"} \cup Waiting /\ adjust = 17

CopiedOK ==
    error = "ok" =>
        /\ ~txn /\ pc["walker"] # "done" => All = <<>>
        /\ txn => OutputOK(snap, walk, nextPgno, All)
        /\ txn /\ Over => WholeIn(snap, All)
        /\ pc["walker"] = "done" /\ rc = "ok" =>
             /\ snap \in Snapshots /\ All = file
             /\ OutputOK(snap, walk, nextPgno, All) /\ WholeIn(snap, All)
        /\ Ordered(All)
Returns ==
    /\ pc["walker"] = "done" => rc = "thread" \/ rc = error
    /\ pc["walker"] = "join" => adjust = 17
    /\ pc["walker"] \in {"off", "begin", "walk"} => rc = "ok"
    /\ ret = "success" /\ mode = "compact" => pc["walker"] = "done" /\ rc = "ok"
    /\ fd => ret = "none"
    /\ mode = "none" => pc["walker"] = "off" /\ ret = "none" /\ fd = FALSE
CompactInv == SyncInv /\ BuffersOK /\ TxnOK /\ WalkOK /\ CopiedOK /\ Returns

(* The two low bits of mc_new count the buffers that wait, the others are *)
(* the mark of the end.                                                   *)
LEMMA InUse ==
    ASSUME NEW m \in {0, 1, 2, 16, 17, 18}
    PROVE  BothInUse(m) <=> m \in {2, 18}
  BY DEF BothInUse

(* Every step of either thread keeps the mutex, the event, mc_new and the *)
(* toggles in line with where the two threads are.                        *)
LEMMA SyncInd ==
    ASSUME SyncInv, CopyNext
    PROVE  SyncInv'
  <1>0. HeldBy /\ Counted /\ Toggles
    BY DEF SyncInv
  <1> USE DEF Waiting, WalkerAt, WriterAt, Threads, Goes, EOF
  <1>1. CASE Start
    <2>1. HeldBy'
      BY <1>0, <1>1 DEF Start, shared, writer, HeldBy, Counted
    <2>2. Counted'
      BY <1>0, <1>1 DEF Start, shared, writer, HeldBy, Counted
    <2>3. Toggles'
      BY <1>0, <1>1 DEF Start, shared, writer, HeldBy, Counted, Toggles
    <2> QED
      BY <2>1, <2>2, <2>3 DEF SyncInv
  <1>2. CASE Begin
    <2>1. HeldBy'
      BY <1>0, <1>2 DEF Begin, writer, HeldBy, Counted
    <2>2. Counted'
      BY <1>0, <1>2 DEF Begin, writer, HeldBy, Counted
    <2>3. Toggles'
      BY <1>0, <1>2 DEF Begin, writer, HeldBy, Counted, Toggles
    <2> QED
      BY <2>1, <2>2, <2>3 DEF SyncInv
  <1>3. CASE Fail
    <2>1. HeldBy'
      BY <1>0, <1>3 DEF Fail, shared, writer, HeldBy, Counted
    <2>2. Counted'
      BY <1>0, <1>3 DEF Fail, shared, writer, HeldBy, Counted
    <2>3. Toggles'
      BY <1>0, <1>3 DEF Fail, shared, writer, HeldBy, Counted, Toggles
    <2> QED
      BY <2>1, <2>2, <2>3 DEF SyncInv
  <1>4. CASE Descend
    <2>1. HeldBy'
      BY <1>0, <1>4 DEF Descend, shared, writer, HeldBy, Counted
    <2>2. Counted'
      BY <1>0, <1>4 DEF Descend, shared, writer, HeldBy, Counted
    <2>3. Toggles'
      BY <1>0, <1>4 DEF Descend, shared, writer, HeldBy, Counted, Toggles
    <2> QED
      BY <2>1, <2>2, <2>3 DEF SyncInv
  <1>5. CASE CopyBig
    <2>1. HeldBy'
      BY <1>0, <1>5 DEF CopyBig, HandOverTail, writer, HeldBy, Counted
    <2>2. Counted'
      BY <1>0, <1>5 DEF CopyBig, HandOverTail, writer, HeldBy, Counted
    <2>3. Toggles'
      BY <1>0, <1>5 DEF CopyBig, HandOverTail, writer, HeldBy, Counted, Toggles
    <2> QED
      BY <2>1, <2>2, <2>3 DEF SyncInv
  <1>6. CASE Emit
    <2>1. HeldBy'
      BY <1>0, <1>6 DEF Emit, writer, HeldBy, Counted
    <2>2. Counted'
      BY <1>0, <1>6 DEF Emit, writer, HeldBy, Counted
    <2>3. Toggles'
      BY <1>0, <1>6 DEF Emit, writer, HeldBy, Counted, Toggles
    <2> QED
      BY <2>1, <2>2, <2>3 DEF SyncInv
  <1>7. CASE FullBuffer
    <2>1. HeldBy'
      BY <1>0, <1>7 DEF FullBuffer, shared, writer, HeldBy, Counted
    <2>2. Counted'
      BY <1>0, <1>7 DEF FullBuffer, shared, writer, HeldBy, Counted
    <2>3. Toggles'
      BY <1>0, <1>7 DEF FullBuffer, shared, writer, HeldBy, Counted, Toggles
    <2> QED
      BY <2>1, <2>2, <2>3 DEF SyncInv
  <1>8. CASE Finish
    <2>1. /\ pc["walker"] = "finish" /\ pc' = [pc EXCEPT !["walker"] = "give"]
          /\ adjust' = 17
          /\ UNCHANGED <<new, mutex, event, hand, turn>>
      BY <1>8 DEF Finish, writer
    <2>2. HeldBy'
      BY <1>0, <2>1 DEF HeldBy
    <2>3. Counted'
      BY <1>0, <2>1 DEF HeldBy, Counted
    <2>4. Toggles'
      BY <1>0, <2>1 DEF HeldBy, Counted, Toggles
    <2> QED
      BY <2>2, <2>3, <2>4 DEF SyncInv
  <1>9. CASE Give
    <2>1. /\ pc["walker"] = "give" /\ new \in {0, 1} /\ adjust \in {1, 17}
          /\ mutex = "free" /\ new' = new + adjust
          /\ UNCHANGED <<adjust, hand, turn>>
      BY <1>0, <1>9 DEF Give, walker, writer, Counted
    <2>2. \/ adjust = 1 /\ new = 0 /\ new' = 1
          \/ adjust = 1 /\ new = 1 /\ new' = 2
          \/ adjust = 17 /\ new = 0 /\ new' = 17
          \/ adjust = 17 /\ new = 1 /\ new' = 18
      BY <2>1
    <2>3. BothInUse(new') <=> new' \in {2, 18}
      BY <2>2, InUse
    <2>4. /\ mutex' = IF new' \in {2, 18} THEN "walker" ELSE "free"
          /\ pc'["walker"] = IF new' \in {2, 18} THEN "await" ELSE "given"
          /\ pc'["writer"] = IF pc["writer"] = "asleep" THEN "woken"
                             ELSE pc["writer"]
          /\ DOMAIN pc' = Threads
          /\ event' = (event \/ pc["writer"] # "asleep")
      <3>1. DOMAIN pc = Threads
        BY <1>0 DEF HeldBy
      <3> QED
        BY <1>0, <1>9, <2>1, <2>3, <3>1 DEF Give, SignalAndGo, Other, HeldBy
    <2>5. HeldBy'
      <3>1. event' \in BOOLEAN
        BY <1>0, <2>4 DEF HeldBy
      <3>2. pc["writer"] \notin {"await", "write"}
        BY <1>0, <2>1 DEF HeldBy
      <3> QED
        BY <1>0, <2>1, <2>4, <3>1, <3>2 DEF HeldBy
    <2>6. Counted' /\ Toggles'
      <3>1. CASE new' = 1
        BY <1>0, <2>1, <2>2, <2>4, <3>1 DEF HeldBy, Counted, Toggles
      <3>2. CASE new' = 2
        BY <1>0, <2>1, <2>2, <2>4, <3>2 DEF HeldBy, Counted, Toggles
      <3>3. CASE new' = 17
        BY <1>0, <2>1, <2>2, <2>4, <3>3 DEF HeldBy, Counted, Toggles
      <3>4. CASE new' = 18
        BY <1>0, <2>1, <2>2, <2>4, <3>4 DEF HeldBy, Counted, Toggles
      <3> QED
        BY <2>2, <3>1, <3>2, <3>3, <3>4
    <2> QED
      BY <2>5, <2>6 DEF SyncInv
  <1>10. CASE Given
    <2>1. BothInUse(new) <=> new \in {2, 18}
      BY <1>0, InUse DEF Counted
    <2>2. /\ pc["walker"] = "woken" /\ mutex = "free"
          /\ mutex' = IF new \in {2, 18} THEN "walker" ELSE "free"
          /\ pc' = [pc EXCEPT !["walker"] =
                       IF new \in {2, 18} THEN "await" ELSE "given"]
          /\ UNCHANGED <<new, adjust, event, hand, turn>>
      BY <1>10, <2>1 DEF Given, walker, writer
    <2>3. HeldBy'
      BY <1>0, <2>2 DEF HeldBy
    <2>4. Counted'
      BY <1>0, <2>2 DEF HeldBy, Counted
    <2>5. Toggles'
      BY <1>0, <2>2 DEF HeldBy, Counted, Toggles
    <2> QED
      BY <2>3, <2>4, <2>5 DEF SyncInv
  <1>11. CASE Turn
    <2>1. /\ pc["walker"] = "given"
          /\ \/ adjust = 17 /\ pc' = [pc EXCEPT !["walker"] = "join"]
             \/ adjust = 1 /\ pc' = [pc EXCEPT !["walker"] = "walk"]
             \/ adjust = 1 /\ pc' = [pc EXCEPT !["walker"] = "finish"]
          /\ hand' = 1 - hand
          /\ UNCHANGED <<new, adjust, event, mutex, turn>>
      <3>1. pc["walker"] = "given" /\ adjust \in {1, 17} /\ hand \in {0, 1}
        BY <1>0, <1>11 DEF Turn, Counted, Toggles
      <3>2. (hand + adjust) % 2 = 1 - hand
        BY <3>1
      <3>3. adjust > 1 <=> adjust = 17
        BY <3>1
      <3>4. \/ adjust = 17 /\ pc' = [pc EXCEPT !["walker"] = "join"]
            \/ adjust = 1 /\ pc' = [pc EXCEPT !["walker"] = "walk"]
            \/ adjust = 1 /\ pc' = [pc EXCEPT !["walker"] = "finish"]
        <4>1. CASE adjust = 17
          BY <1>11, <3>3, <4>1 DEF Turn
        <4>2. CASE adjust = 1 /\ error = "ok"
          BY <1>11, <3>3, <4>2 DEF Turn
        <4>3. CASE adjust = 1 /\ error # "ok"
          BY <1>11, <3>3, <4>3 DEF Turn
        <4> QED
          BY <3>1, <4>1, <4>2, <4>3
      <3>5. hand' = 1 - hand /\ UNCHANGED <<new, adjust, event, mutex, turn>>
        BY <1>11, <3>2 DEF Turn, writer
      <3> QED
        BY <3>1, <3>4, <3>5
    <2>2. HeldBy'
      BY <1>0, <2>1 DEF HeldBy
    <2>3. Counted' /\ Toggles'
      <3>1. CASE adjust = 17
        BY <1>0, <2>1, <3>1 DEF HeldBy, Counted, Toggles
      <3>2. CASE adjust = 1
        BY <1>0, <2>1, <3>2 DEF HeldBy, Counted, Toggles
      <3> QED
        BY <2>1, <3>1, <3>2
    <2> QED
      BY <2>2, <2>3 DEF SyncInv
  <1>12. CASE Join
    <2>1. HeldBy'
      BY <1>0, <1>12 DEF Join, WriterEnded, shared, writer, HeldBy, Counted
    <2>2. Counted'
      BY <1>0, <1>12 DEF Join, WriterEnded, shared, writer, HeldBy, Counted
    <2>3. Toggles'
      BY <1>0, <1>12
      DEF Join, WriterEnded, shared, writer, HeldBy, Counted, Toggles
    <2> QED
      BY <2>1, <2>2, <2>3 DEF SyncInv
  <1>13. CASE Release("walker")
    <2>1. HeldBy'
      BY <1>0, <1>13 DEF Release, Blocks, walker, writer, HeldBy, Counted
    <2>2. Counted'
      BY <1>0, <1>13 DEF Release, Blocks, walker, writer, HeldBy, Counted
    <2>3. Toggles'
      BY <1>0, <1>13
      DEF Release, Blocks, walker, writer, HeldBy, Counted, Toggles
    <2> QED
      BY <2>1, <2>2, <2>3 DEF SyncInv
  <1>14. CASE Block("walker")
    <2>1. HeldBy'
      BY <1>0, <1>14 DEF Block, Blocks, walker, writer, HeldBy, Counted
    <2>2. Counted'
      BY <1>0, <1>14 DEF Block, Blocks, walker, writer, HeldBy, Counted
    <2>3. Toggles'
      BY <1>0, <1>14 DEF Block, Blocks, walker, writer, HeldBy, Counted, Toggles
    <2> QED
      BY <2>1, <2>2, <2>3 DEF SyncInv
  <1>15. CASE Take
    <2>1. /\ pc["writer"] = "woken" /\ mutex = "free"
          /\ mutex' = IF new = 16 THEN "free" ELSE "writer"
          /\ UNCHANGED <<new, adjust, event, hand, turn>>
      BY <1>15 DEF Take, walker
    <2>2. \/ new = 0 /\ pc' = [pc EXCEPT !["writer"] = "await"]
          \/ new = 16 /\ pc' = [pc EXCEPT !["writer"] = "exit"]
          \/ new \notin {0, 16} /\ pc' = [pc EXCEPT !["writer"] = "write"]
      <3>1. pc' = [pc EXCEPT !["writer"] = LoopHead(new)]
        BY <1>15 DEF Take
      <3>2. \/ new = 0 /\ LoopHead(new) = "await"
            \/ new = 16 /\ LoopHead(new) = "exit"
            \/ new \notin {0, 16} /\ LoopHead(new) = "write"
        BY DEF LoopHead
      <3> QED
        BY <3>1, <3>2
    <2>3. HeldBy'
      BY <1>0, <2>1, <2>2 DEF HeldBy
    <2>4. Counted'
      BY <1>0, <2>1, <2>2 DEF HeldBy, Counted
    <2>5. Toggles'
      BY <1>0, <2>1, <2>2 DEF HeldBy, Counted, Toggles
    <2> QED
      BY <2>3, <2>4, <2>5 DEF SyncInv
  <1>16. CASE Write
    <2>1. HeldBy'
      BY <1>0, <1>16 DEF Write, walker, HeldBy, Counted
    <2>2. Counted'
      BY <1>0, <1>16 DEF Write, walker, HeldBy, Counted
    <2>3. Toggles'
      BY <1>0, <1>16 DEF Write, walker, HeldBy, Counted, Toggles
    <2> QED
      BY <2>1, <2>2, <2>3 DEF SyncInv
  <1>17. CASE WriteTail
    <2>1. HeldBy'
      BY <1>0, <1>17 DEF WriteTail, walker, HeldBy, Counted
    <2>2. Counted'
      BY <1>0, <1>17 DEF WriteTail, walker, HeldBy, Counted
    <2>3. Toggles'
      BY <1>0, <1>17 DEF WriteTail, walker, HeldBy, Counted, Toggles
    <2> QED
      BY <2>1, <2>2, <2>3 DEF SyncInv
  <1>18. CASE Written
    <2>1. /\ pc["writer"] = "write" /\ new \in {1, 2, 17, 18}
          /\ new' = new - 1 /\ turn' = 1 - turn
          /\ mutex' = IF new' = 16 THEN "free" ELSE "writer"
          /\ UNCHANGED <<adjust, hand>>
      BY <1>0, <1>18 DEF Written, walker, Counted
    <2>2. \/ new = 1 /\ new' = 0
          \/ new = 2 /\ new' = 1
          \/ new = 17 /\ new' = 16
          \/ new = 18 /\ new' = 17
      BY <2>1
    <2>3. /\ pc'["walker"] = IF pc["walker"] = "asleep" THEN "woken"
                             ELSE pc["walker"]
          /\ pc'["writer"] = IF new' = 0 THEN "await"
                             ELSE IF new' = 16 THEN "exit" ELSE "write"
          /\ DOMAIN pc' = Threads
          /\ event' = (event \/ pc["walker"] # "asleep")
      <3>1. DOMAIN pc = Threads
        BY <1>0 DEF HeldBy
      <3>2. LoopHead(new') = IF new' = 0 THEN "await"
                             ELSE IF new' = 16 THEN "exit" ELSE "write"
        BY <2>2 DEF LoopHead
      <3> QED
        BY <1>0, <1>18, <2>1, <3>1, <3>2 DEF Written, SignalAndGo, Other, HeldBy
    <2>4. HeldBy'
      <3>1. event' \in BOOLEAN
        BY <1>0, <2>3 DEF HeldBy
      <3>2. pc["walker"] # "await"
        BY <1>0, <2>1 DEF HeldBy
      <3> QED
        BY <1>0, <2>1, <2>2, <2>3, <3>1, <3>2 DEF HeldBy
    <2>5. Counted' /\ Toggles'
      <3>1. CASE new' = 0
        BY <1>0, <2>1, <2>2, <2>3, <3>1 DEF HeldBy, Counted, Toggles
      <3>2. CASE new' = 1
        BY <1>0, <2>1, <2>2, <2>3, <3>2 DEF HeldBy, Counted, Toggles
      <3>3. CASE new' = 16
        BY <1>0, <2>1, <2>2, <2>3, <3>3 DEF HeldBy, Counted, Toggles
      <3>4. CASE new' = 17
        BY <1>0, <2>1, <2>2, <2>3, <3>4 DEF HeldBy, Counted, Toggles
      <3> QED
        BY <2>2, <3>1, <3>2, <3>3, <3>4
    <2> QED
      BY <2>4, <2>5 DEF SyncInv
  <1>19. CASE Release("writer")
    <2>1. HeldBy'
      BY <1>0, <1>19 DEF Release, Blocks, walker, writer, HeldBy, Counted
    <2>2. Counted'
      BY <1>0, <1>19 DEF Release, Blocks, walker, writer, HeldBy, Counted
    <2>3. Toggles'
      BY <1>0, <1>19
      DEF Release, Blocks, walker, writer, HeldBy, Counted, Toggles
    <2> QED
      BY <2>1, <2>2, <2>3 DEF SyncInv
  <1>20. CASE Block("writer")
    <2>1. HeldBy'
      BY <1>0, <1>20 DEF Block, Blocks, walker, writer, HeldBy, Counted
    <2>2. Counted'
      BY <1>0, <1>20 DEF Block, Blocks, walker, writer, HeldBy, Counted
    <2>3. Toggles'
      BY <1>0, <1>20 DEF Block, Blocks, walker, writer, HeldBy, Counted, Toggles
    <2> QED
      BY <2>1, <2>2, <2>3 DEF SyncInv
  <1> QED
    BY <1>1, <1>2, <1>3, <1>4, <1>5, <1>6, <1>7, <1>8, <1>9, <1>10, <1>11,
       <1>12, <1>13, <1>14, <1>15, <1>16, <1>17, <1>18, <1>19, <1>20 DEF CopyNext, WalkerStep, WriterStep

(* The transaction is open while pages are copied, and without it nothing *)
(* is in the buffers.                                                     *)
LEMMA TxnInd ==
    ASSUME SyncInv, BuffersOK, TxnOK, CopyNext
    PROVE  TxnOK'
  <1>0. HeldBy /\ Counted /\ Toggles /\ BuffersOK /\ TxnOK
    BY DEF SyncInv
  <1> USE DEF Waiting, WalkerAt, WriterAt, Threads, Goes, EOF
  <1>1. CASE Start
    BY <1>0, <1>1 DEF Start, shared, writer, HeldBy, Counted, TxnOK
  <1>2. CASE Begin
    BY <1>0, <1>2 DEF Begin, writer, HeldBy, Counted, TxnOK
  <1>3. CASE Fail
    BY <1>0, <1>3 DEF Fail, shared, writer, HeldBy, Counted, TxnOK
  <1>4. CASE Descend
    BY <1>0, <1>4 DEF Descend, shared, writer, HeldBy, Counted, TxnOK
  <1>5. CASE CopyBig
    BY <1>0, <1>5 DEF CopyBig, HandOverTail, writer, HeldBy, Counted, TxnOK
  <1>6. CASE Emit
    BY <1>0, <1>6 DEF Emit, writer, HeldBy, Counted, TxnOK
  <1>7. CASE FullBuffer
    BY <1>0, <1>7 DEF FullBuffer, shared, writer, HeldBy, Counted, TxnOK
  <1>8. CASE Finish
    BY <1>0, <1>8 DEF Finish, writer, HeldBy, Counted, TxnOK
  <1>9. CASE Give
    BY <1>0, <1>9
    DEF Give, SignalAndGo, Other, walker, writer, HeldBy, Counted, TxnOK
  <1>10. CASE Given
    BY <1>0, <1>10 DEF Given, walker, writer, HeldBy, Counted, TxnOK
  <1>11. CASE Turn
    BY <1>0, <1>11 DEF Turn, writer, HeldBy, Counted, TxnOK
  <1>12. CASE Join
    BY <1>0, <1>12
    DEF Join, WriterEnded, Result, shared, writer, HeldBy, Counted, TxnOK
  <1>13. CASE Release("walker")
    BY <1>0, <1>13 DEF Release, Blocks, walker, writer, HeldBy, Counted, TxnOK
  <1>14. CASE Block("walker")
    BY <1>0, <1>14 DEF Block, Blocks, walker, writer, HeldBy, Counted, TxnOK
  <1>15. CASE Take
    BY <1>0, <1>15
    DEF Take, LoopHead, walker, HeldBy, Counted, TxnOK, Toggles, BuffersOK
  <1>16. CASE Write
    BY <1>0, <1>16 DEF Write, walker, HeldBy, Counted, TxnOK, Toggles, BuffersOK
  <1>17. CASE WriteTail
    BY <1>0, <1>17
    DEF WriteTail, walker, HeldBy, Counted, TxnOK, Toggles, BuffersOK
  <1>18. CASE Written
    BY <1>0, <1>18
    DEF Written, SignalAndGo, LoopHead, Other, walker, HeldBy, Counted, TxnOK,
        Toggles, BuffersOK
  <1>19. CASE Release("writer")
    BY <1>0, <1>19 DEF Release, Blocks, walker, writer, HeldBy, Counted, TxnOK
  <1>20. CASE Block("writer")
    BY <1>0, <1>20 DEF Block, Blocks, walker, writer, HeldBy, Counted, TxnOK
  <1> QED
    BY <1>1, <1>2, <1>3, <1>4, <1>5, <1>6, <1>7, <1>8, <1>9, <1>10, <1>11,
       <1>12, <1>13, <1>14, <1>15, <1>16, <1>17, <1>18, <1>19, <1>20
    DEF CopyNext, WalkerStep, WriterStep

(* The result of the call is that of the two threads.                     *)
LEMMA ReturnsInd ==
    ASSUME SyncInv, TxnOK, Returns, UNCHANGED <<mode, fd, ret>>, mode = "compact", fd, CopyNext
    PROVE  Returns'
  <1>0. /\ HeldBy /\ Counted /\ Returns
        /\ UNCHANGED <<mode, fd, ret>> /\ mode = "compact" /\ fd
    BY DEF SyncInv
  <1> USE DEF Waiting, WalkerAt, WriterAt, Threads, Goes, EOF
  <1>1. CASE Start
    BY <1>0, <1>1 DEF Start, shared, writer, HeldBy, Counted, Returns
  <1>2. CASE Begin
    BY <1>0, <1>2 DEF Begin, writer, HeldBy, Counted, Returns
  <1>3. CASE Fail
    BY <1>0, <1>3 DEF Fail, shared, writer, HeldBy, Counted, Returns
  <1>4. CASE Descend
    BY <1>0, <1>4 DEF Descend, shared, writer, HeldBy, Counted, Returns
  <1>5. CASE CopyBig
    BY <1>0, <1>5 DEF CopyBig, HandOverTail, writer, HeldBy, Counted, Returns
  <1>6. CASE Emit
    BY <1>0, <1>6 DEF Emit, writer, HeldBy, Counted, Returns
  <1>7. CASE FullBuffer
    BY <1>0, <1>7 DEF FullBuffer, shared, writer, HeldBy, Counted, Returns
  <1>8. CASE Finish
    BY <1>0, <1>8 DEF Finish, writer, HeldBy, Counted, Returns
  <1>9. CASE Give
    BY <1>0, <1>9
    DEF Give, SignalAndGo, Other, walker, writer, HeldBy, Counted, Returns
  <1>10. CASE Given
    BY <1>0, <1>10 DEF Given, walker, writer, HeldBy, Counted, Returns
  <1>11. CASE Turn
    BY <1>0, <1>11 DEF Turn, writer, HeldBy, Counted, Returns
  <1>12. CASE Join
    BY <1>0, <1>12
    DEF Join, WriterEnded, Result, shared, writer, HeldBy, Counted, Returns
  <1>13. CASE Release("walker")
    BY <1>0, <1>13 DEF Release, Blocks, walker, writer, HeldBy, Counted, Returns
  <1>14. CASE Block("walker")
    BY <1>0, <1>14 DEF Block, Blocks, walker, writer, HeldBy, Counted, Returns
  <1>15. CASE Take
    BY <1>0, <1>15 DEF Take, LoopHead, walker, HeldBy, Counted, Returns
  <1>16. CASE Write
    BY <1>0, <1>16 DEF Write, walker, HeldBy, Counted, Returns
  <1>17. CASE WriteTail
    BY <1>0, <1>17 DEF WriteTail, walker, HeldBy, Counted, Returns
  <1>18. CASE Written
    BY <1>0, <1>18
    DEF Written, SignalAndGo, LoopHead, Other, walker, HeldBy, Counted, Returns
  <1>19. CASE Release("writer")
    BY <1>0, <1>19 DEF Release, Blocks, walker, writer, HeldBy, Counted, Returns
  <1>20. CASE Block("writer")
    BY <1>0, <1>20 DEF Block, Blocks, walker, writer, HeldBy, Counted, Returns
  <1> QED
    BY <1>1, <1>2, <1>3, <1>4, <1>5, <1>6, <1>7, <1>8, <1>9, <1>10, <1>11,
       <1>12, <1>13, <1>14, <1>15, <1>16, <1>17, <1>18, <1>19, <1>20
    DEF CopyNext, WalkerStep, WriterStep

(***************************************************************************)
(* The page the walk is at, and its next item.                             *)
(***************************************************************************)
LEMMA ImageIs ==
    ASSUME NEW p \in Nat, NEW part \in Nat, NEW pgno \in Refs,
           NEW to \in Seq(Refs)
    PROVE  /\ Image(p, part, pgno, to) \in AnyImage
           /\ Image(p, part, pgno, to).of = p
           /\ Image(p, part, pgno, to).part = part
           /\ Image(p, part, pgno, to).pgno = pgno
           /\ Image(p, part, pgno, to).to = to
  BY DEF Image, AnyImage

(* The walker is at a page of the snapshot, and so is what it leads to.   *)
LEMMA TopIs ==
    ASSUME TxnOK, WalkOK, pc["walker"] = "walk"
    PROVE  /\ snap \in Snapshots /\ IsTree(snap) /\ txn
           /\ Len(walk) \in Nat \ {0} /\ walk # <<>> /\ EntryOK(snap, Top)
           /\ Top.at \in DOMAIN snap.pages /\ Top.at \in Nat
           /\ snap.pages[Top.at] \in Seq(Items)
           /\ Top.to \in Seq(Refs) /\ Top.i \in Nat \ {0}
           /\ Len(Top.to) = Len(snap.pages[Top.at])
  <1>1. snap \in Snapshots /\ walk # <<>> /\ txn
    BY DEF TxnOK, WalkOK
  <1>2. IsTree(snap)
    BY <1>1, CopyAssumption
  <1>3. walk \in Seq(Entries)
    BY <1>1 DEF WalkOK, WalkIn
  <1>4. Len(walk) \in Nat \ {0}
    BY <1>1, <1>3, EmptySeq, LenProperties
  <1>5. EntryOK(snap, Top)
    BY <1>1, <1>4 DEF WalkOK, WalkIn, Top
  <1>6. Top.at \in DOMAIN snap.pages /\ Top.to \in Seq(Refs) /\ Top.i \in Nat \ {0}
    BY <1>5 DEF EntryOK
  <1>7. Top.at \in Nat /\ snap.pages[Top.at] \in Seq(Items)
    BY <1>2, <1>6 DEF IsTree
  <1> QED
    BY <1>1, <1>2, <1>4, <1>5, <1>6, <1>7 DEF EntryOK

(* The item the walk is at. *)
LEMMA ItemIs ==
    ASSUME TxnOK, WalkOK, pc["walker"] = "walk", ~Finished
    PROVE  /\ Top.i \in DOMAIN snap.pages[Top.at] /\ Top.i \in 1..Len(Top.to)
           /\ Item = snap.pages[Top.at][Top.i]
           /\ Item.kind \in {"child", "sub", "big"}
           /\ Item.to \in Nat \cup {NoPage} /\ Item.n \in Nat \ {0}
           /\ Item.kind = "big" => /\ Item.to \in Nat /\ Item.to >= 2
                                   /\ Item.to \notin DOMAIN snap.pages
           /\ Item.kind # "big" => \/ Item.to = NoPage
                                   \/ Item.to \in DOMAIN snap.pages /\ Item.to # snap.root
           /\ Top.to[Top.i] = Item.to
  <1>1. /\ IsTree(snap) /\ EntryOK(snap, Top) /\ Top.at \in DOMAIN snap.pages
        /\ snap.pages[Top.at] \in Seq(Items)
        /\ Top.to \in Seq(Refs) /\ Top.i \in Nat \ {0}
        /\ Len(Top.to) = Len(snap.pages[Top.at])
    BY TopIs
  <1>2. Top.i \in 1..Len(Top.to) /\ Top.i \in DOMAIN snap.pages[Top.at]
    BY <1>1, LenProperties DEF Finished
  <1>3. Item = snap.pages[Top.at][Top.i] /\ Item \in Items
    BY <1>1, <1>2, ElementOfSeq DEF Item
  <1>4. /\ Item.kind \in {"child", "sub", "big"} /\ Item.n \in Nat \ {0}
        /\ Item.to \in Nat \cup {NoPage}
    BY <1>3 DEF Items
  <1>5. /\ Item.kind = "big" => Item.to \notin DOMAIN snap.pages \cup {NoPage}
                                /\ Item.to >= 2
        /\ Item.kind # "big" => Item.to \in (DOMAIN snap.pages \ {snap.root}) \cup {NoPage}
    BY <1>1, <1>2, <1>3 DEF IsTree
  <1>6. Top.to[Top.i] = Item.to
    BY <1>1, <1>2, <1>3 DEF EntryOK
  <1> QED
    BY <1>2, <1>3, <1>4, <1>5, <1>6

(* The meta pages of the copy. *)
LEMMA MetasAre ==
    ASSUME NEW s \in Snapshots
    PROVE  /\ Metas(s) \in Seq(AnyImage) /\ Len(Metas(s)) = 2
           /\ Metas(s)[1] = Image(0, 0, 0, <<>>)
           /\ Metas(s)[2] = Image(1, 0, 1, <<NewRoot(s)>>)
  <1>1. s.next \in Nat /\ s.free \in Nat
    BY CopyAssumption DEF IsTree
  <1>2. NewRoot(s) \in Refs
    BY <1>1 DEF NewRoot, Refs
  <1>3. <<>> \in Seq(Refs) /\ <<NewRoot(s)>> \in Seq(Refs) /\ 0 \in Refs /\ 1 \in Refs
    BY <1>2 DEF Refs
  <1>4. Image(0, 0, 0, <<>>) \in AnyImage /\ Image(1, 0, 1, <<NewRoot(s)>>) \in AnyImage
    BY <1>3, ImageIs
  <1> QED
    BY <1>4 DEF Metas

(* The pages of an item after its first, as HandOverTail leaves them.     *)
RestOf(p, n) == [k \in 1..n - 1 |-> Image(p, k, NoPage, <<>>)]
(* They are pages, one fewer than the item has. *)
LEMMA RestIs ==
    ASSUME NEW p \in Nat, NEW n \in Nat \ {0}
    PROVE  /\ RestOf(p, n) \in Seq(AnyImage) /\ Len(RestOf(p, n)) = n - 1
           /\ \A k \in 1..n - 1 : RestOf(p, n)[k] = Image(p, k, NoPage, <<>>)
  <1>1. NoPage \in Refs /\ <<>> \in Seq(Refs)
    BY DEF Refs
  <1>2. \A k \in 1..n - 1 : Image(p, k, NoPage, <<>>) \in AnyImage
    <2> TAKE k \in 1..n - 1
    <2>1. k \in Nat
      OBVIOUS
    <2> QED
      BY <1>1, <2>1, ImageIs, Zenon
  <1> QED
    BY <1>2 DEF RestOf

(* The buffers stay within their size, and only a buffer that waits, or   *)
(* that is being given, has overflow pages to be written behind it.       *)
LEMMA BuffersInd ==
    ASSUME SyncInv, BuffersOK, TxnOK, WalkOK, CopyNext
    PROVE  BuffersOK'
  <1>0. HeldBy /\ Counted /\ Toggles /\ BuffersOK /\ TxnOK /\ WalkOK
    BY DEF SyncInv
  <1> USE DEF Waiting, WalkerAt, WriterAt, Threads, Goes, EOF
  <1>1. CASE Start
    BY <1>0, <1>1 DEF Start, shared, writer, HeldBy, Counted, Toggles, BuffersOK
  <1>2. CASE Begin
    <2>1. PICK s \in Snapshots : buf' = [buf EXCEPT ![0] = Metas(s)]
      BY <1>2 DEF Begin
    <2>2. Metas(s) \in Seq(AnyImage) /\ Len(Metas(s)) = 2 /\ BufPages >= 2
      BY MetasAre, CopyAssumption
    <2>3. pc["walker"] = "begin" /\ UNCHANGED <<over, new, turn, hand, left, file>>
      BY <1>2 DEF Begin, writer
    <2>4. DOMAIN buf' = {0, 1} /\ buf'[0] = Metas(s) /\ buf'[1] = buf[1]
      BY <1>0, <2>1 DEF BuffersOK
    <2> QED
      BY <1>0, <2>2, <2>3, <2>4 DEF BuffersOK
  <1>3. CASE Fail
    BY <1>0, <1>3 DEF Fail, shared, writer, HeldBy, Counted, Toggles, BuffersOK
  <1>4. CASE Descend
    BY <1>0, <1>4
    DEF Descend, shared, writer, HeldBy, Counted, Toggles, BuffersOK
  <1>5. CASE CopyBig
    <2>1. pc["walker"] = "walk" /\ ~Finished /\ Item.kind = "big" /\ ~Full
      BY <1>5 DEF CopyBig
    <2>2. Item.to \in Nat /\ Item.n \in Nat \ {0} /\ nextPgno \in Refs
      <3>1. nextPgno \in Refs
        BY <1>0 DEF WalkOK, Refs
      <3> QED
        BY <1>0, <2>1, <3>1, ItemIs
    <2> DEFINE im == Image(Item.to, 0, nextPgno, <<>>)
    <2>3. im \in AnyImage
      <3>1. <<>> \in Seq(Refs)
        OBVIOUS
      <3> QED
        BY <2>2, <3>1, ImageIs
    <2>4. RestOf(Item.to, Item.n) \in Seq(AnyImage)
      BY <2>2, RestIs
    <2> HIDE DEF im
    <2>5. /\ hand \in {0, 1} /\ buf[hand] \in Seq(AnyImage)
          /\ Len(buf[hand]) < BufPages /\ Len(buf[hand]) \in Nat /\ BufPages \in Nat
      BY <1>0, <2>1, CopyAssumption, LenProperties DEF Full, BuffersOK, Toggles
    <2>6. buf' = [buf EXCEPT ![hand] = Append(buf[hand], im)]
      BY <1>5 DEF CopyBig, im
    <2>7. /\ Append(buf[hand], im) \in Seq(AnyImage)
          /\ Len(Append(buf[hand], im)) <= BufPages
      BY <2>3, <2>5, AppendProperties
    <2>8. \/ over' = over /\ pc' = pc
          \/ /\ over' = [over EXCEPT ![hand] = RestOf(Item.to, Item.n)]
             /\ pc'["walker"] = "give"
      BY <1>0, <1>5 DEF CopyBig, HandOverTail, RestOf, HeldBy
    <2>9. UNCHANGED <<new, turn, hand, left, file>>
      BY <1>5 DEF CopyBig, writer
    <2>10. /\ DOMAIN buf' = {0, 1} /\ DOMAIN over' = {0, 1}
           /\ \A b \in {0, 1} : /\ buf'[b] \in Seq(AnyImage) /\ Len(buf'[b]) <= BufPages
                                /\ over'[b] \in Seq(AnyImage)
      BY <1>0, <2>4, <2>5, <2>6, <2>7, <2>8 DEF BuffersOK
    <2> QED
      BY <1>0, <2>1, <2>5, <2>8, <2>9, <2>10 DEF BuffersOK
  <1>6. CASE Emit
    <2>1. pc["walker"] = "walk" /\ ~Full
      BY <1>6 DEF Emit
    <2>2. Top.at \in Nat /\ Top.to \in Seq(Refs) /\ nextPgno \in Refs
      BY <1>0, <2>1, TopIs DEF WalkOK, Refs
    <2> DEFINE im == Image(Top.at, 0, nextPgno, Top.to)
    <2>3. im \in AnyImage
      BY <2>2, ImageIs
    <2> HIDE DEF im
    <2>5. /\ hand \in {0, 1} /\ buf[hand] \in Seq(AnyImage)
          /\ Len(buf[hand]) < BufPages /\ Len(buf[hand]) \in Nat /\ BufPages \in Nat
      BY <1>0, <2>1, CopyAssumption, LenProperties DEF Full, BuffersOK, Toggles
    <2>6. buf' = [buf EXCEPT ![hand] = Append(buf[hand], im)]
      BY <1>6 DEF Emit, im
    <2>7. /\ Append(buf[hand], im) \in Seq(AnyImage)
          /\ Len(Append(buf[hand], im)) <= BufPages
      BY <2>3, <2>5, AppendProperties
    <2>9. UNCHANGED <<new, turn, hand, left, file, over>>
      BY <1>6 DEF Emit, writer
    <2>10. /\ DOMAIN buf' = {0, 1}
           /\ \A b \in {0, 1} : /\ buf'[b] \in Seq(AnyImage) /\ Len(buf'[b]) <= BufPages
      BY <1>0, <2>5, <2>6, <2>7 DEF BuffersOK
    <2> QED
      BY <1>0, <2>1, <2>9, <2>10 DEF BuffersOK
  <1>7. CASE FullBuffer
    BY <1>0, <1>7
    DEF FullBuffer, shared, writer, HeldBy, Counted, Toggles, BuffersOK
  <1>8. CASE Finish
    BY <1>0, <1>8 DEF Finish, writer, HeldBy, Counted, Toggles, BuffersOK
  <1>9. CASE Give
    BY <1>0, <1>9
    DEF Give, SignalAndGo, Other, walker, writer, HeldBy, Counted, Toggles,
        BuffersOK
  <1>10. CASE Given
    BY <1>0, <1>10
    DEF Given, walker, writer, HeldBy, Counted, Toggles, BuffersOK
  <1>11. CASE Turn
    <2>1. /\ pc["walker"] = "given" /\ hand' = 1 - hand /\ hand' \in {0, 1}
          /\ buf' = [buf EXCEPT ![hand'] = <<>>]
          /\ UNCHANGED <<over, new, turn, left, file>>
      BY <1>0, <1>11 DEF Turn, writer, Counted, Toggles
    <2>2. <<>> \in Seq(AnyImage) /\ Len(<<>>) = 0 /\ 0 <= BufPages
      BY CopyAssumption
    <2>3. /\ DOMAIN buf' = {0, 1}
          /\ \A b \in {0, 1} : buf'[b] \in Seq(AnyImage) /\ Len(buf'[b]) <= BufPages
      BY <1>0, <2>1, <2>2 DEF BuffersOK
    <2> QED
      BY <1>0, <2>1, <2>3 DEF BuffersOK
  <1>12. CASE Join
    BY <1>0, <1>12
    DEF Join, WriterEnded, Result, shared, writer, HeldBy, Counted, Toggles,
        BuffersOK
  <1>13. CASE Release("walker")
    BY <1>0, <1>13
    DEF Release, Blocks, walker, writer, HeldBy, Counted, Toggles, BuffersOK
  <1>14. CASE Block("walker")
    BY <1>0, <1>14
    DEF Block, Blocks, walker, writer, HeldBy, Counted, Toggles, BuffersOK
  <1>15. CASE Take
    BY <1>0, <1>15
    DEF Take, LoopHead, walker, HeldBy, Counted, Toggles, BuffersOK
  <1>16. CASE Write
    <2>1. left \in Seq(AnyImage) /\ file \in Seq(AnyImage)
      BY <1>0 DEF BuffersOK
    <2>2. left' \in Seq(AnyImage) /\ file' \in Seq(AnyImage)
      <3>1. CASE UNCHANGED <<file, left>>
        BY <2>1, <3>1
      <3>2. ASSUME NEW n \in {1, Len(left)}, left # <<>>,
                   file' = file \o SubSeq(left, 1, n),
                   left' = SubSeq(left, n + 1, Len(left))
            PROVE  left' \in Seq(AnyImage) /\ file' \in Seq(AnyImage)
        <4>1. Len(left) \in Nat /\ n \in Nat
          BY <2>1, LenProperties
        <4>2. SubSeq(left, 1, n) \in Seq(AnyImage)
          <5>1. \A i \in 1..n : left[i] \in AnyImage
            BY <2>1, <3>2, <4>1, EmptySeq, LenProperties, ElementOfSeq
          <5> QED
            BY <2>1, <4>1, <5>1
        <4>3. SubSeq(left, n + 1, Len(left)) \in Seq(AnyImage)
          BY <2>1, <4>1
        <4> QED
          BY <2>1, <3>2, <4>2, <4>3, ConcatProperties
      <3> QED
        BY <1>16, <3>1, <3>2 DEF Write
    <2>3. UNCHANGED <<buf, over, new, turn, hand, pc>>
      BY <1>16 DEF Write, walker
    <2> QED
      BY <1>0, <2>2, <2>3 DEF BuffersOK
  <1>17. CASE WriteTail
    BY <1>0, <1>17 DEF WriteTail, walker, HeldBy, Counted, Toggles, BuffersOK
  <1>18. CASE Written
    <2>1. /\ pc["writer"] = "write" /\ new \in {1, 2, 17, 18} /\ turn' = 1 - turn
          /\ new' = new - 1 /\ buf' = [buf EXCEPT ![turn] = <<>>]
          /\ over[turn] = <<>> /\ UNCHANGED <<over, hand, file>>
          /\ left' \in {<<>>, buf[1 - turn]} /\ turn \in {0, 1}
      BY <1>0, <1>18 DEF Written, walker, Counted, Toggles
    <2>2. <<>> \in Seq(AnyImage) /\ Len(<<>>) = 0 /\ 0 <= BufPages
      BY CopyAssumption
    <2>3. /\ DOMAIN buf' = {0, 1} /\ left' \in Seq(AnyImage)
          /\ \A b \in {0, 1} : buf'[b] \in Seq(AnyImage) /\ Len(buf'[b]) <= BufPages
      BY <1>0, <2>1, <2>2 DEF BuffersOK
    <2>4. pc["walker"] = "give" => pc'["walker"] = "give"
      BY <1>0, <1>18 DEF Written, SignalAndGo, Other, HeldBy
    <2>5. \A b \in {0, 1} : over[b] # <<>> =>
             \/ new \in {2, 18} /\ b = 1 - turn
             \/ pc["walker"] = "give" /\ b = hand
      BY <1>0, <2>1 DEF BuffersOK
    <2> QED
      BY <1>0, <2>1, <2>3, <2>4, <2>5 DEF BuffersOK
  <1>19. CASE Release("writer")
    BY <1>0, <1>19
    DEF Release, Blocks, walker, writer, HeldBy, Counted, Toggles, BuffersOK
  <1>20. CASE Block("writer")
    BY <1>0, <1>20
    DEF Block, Blocks, walker, writer, HeldBy, Counted, Toggles, BuffersOK
  <1> QED
    BY <1>1, <1>2, <1>3, <1>4, <1>5, <1>6, <1>7, <1>8, <1>9, <1>10, <1>11,
       <1>12, <1>13, <1>14, <1>15, <1>16, <1>17, <1>18, <1>19, <1>20
    DEF CopyNext, WalkerStep, WriterStep

(***************************************************************************)
(* What waits to be written: what the writer is at, the other buffer, and  *)
(* what the walker collects.  Only a page that is copied adds to it; the   *)
(* two threads hand the buffers to and fro without changing it.            *)
(***************************************************************************)
Front == IF new \in {0, 16} THEN <<>>
         ELSE IF pc["writer"] = "write" THEN left \o over[turn] ELSE Queued(turn)
Back  == IF new \in {2, 18} THEN Queued(1 - turn) ELSE <<>>
Mine  == IF pc["walker"] \in {"walk", "finish", "give"} THEN Queued(hand) ELSE <<>>
Parts == /\ file \in Seq(AnyImage) /\ Front \in Seq(AnyImage)
         /\ Back \in Seq(AnyImage) /\ Mine \in Seq(AnyImage)
         /\ All = file \o ((Front \o Back) \o Mine)

(* The two low bits of mc_new. *)
LEMMA LowBits ==
    ASSUME NEW n \in {0, 1, 2, 16, 17, 18}
    PROVE  (n % 4 = 0 <=> n \in {0, 16}) /\ (n % 4 = 2 <=> n \in {2, 18})
  OBVIOUS

(* A sequence whose first part has moved to the one before it.            *)
Moved(f, a, b, c, d) ==
    f \o (((a \o b) \o c) \o d) = (f \o a) \o ((b \o c) \o d)
(* It has only moved. *)
LEMMA MoveOver ==
    ASSUME NEW S, NEW f \in Seq(S), NEW a \in Seq(S), NEW b \in Seq(S),
           NEW c \in Seq(S), NEW d \in Seq(S)
    PROVE  Moved(f, a, b, c, d)
  <1>1. (a \o b) \o c = a \o (b \o c)
    BY SMTT(30)
  <1>2. b \o c \in Seq(S)
    BY ConcatProperties
  <1>3. (a \o (b \o c)) \o d = a \o ((b \o c) \o d)
    BY <1>2, SMTT(30)
  <1> DEFINE e == (b \o c) \o d
  <1>4. e \in Seq(S)
    BY <1>2, ConcatProperties
  <1> HIDE DEF e
  <1>5. (f \o a) \o e = f \o (a \o e)
    BY <1>4
  <1> QED
    BY <1>1, <1>3, <1>5 DEF e, Moved

(* What is written and waits, put together from its parts. *)
LEMMA PartsAre ==
    ASSUME SyncInv, BuffersOK
    PROVE  Parts
  <1>1. /\ new \in {0, 1, 2, 16, 17, 18} /\ turn \in {0, 1} /\ 1 - turn \in {0, 1}
        /\ hand \in {0, 1}
    BY DEF SyncInv, Counted, Toggles
  <1>2. \A b \in {0, 1} : Queued(b) \in Seq(AnyImage)
    BY ConcatProperties DEF BuffersOK, Queued
  <1>3. left \o over[turn] \in Seq(AnyImage) /\ file \in Seq(AnyImage)
    BY <1>1, ConcatProperties DEF BuffersOK
  <1>4. /\ Front \in Seq(AnyImage) /\ Back \in Seq(AnyImage)
        /\ Mine \in Seq(AnyImage)
    BY <1>1, <1>2, <1>3 DEF Front, Back, Mine
  <1>5. (new % 4 = 0 <=> new \in {0, 16}) /\ (new % 4 = 2 <=> new \in {2, 18})
    BY <1>1, LowBits
  <1>6. Pending = (Front \o Back) \o Mine
    BY <1>5 DEF Pending, Front, Back, Mine
  <1> QED
    BY <1>3, <1>4, <1>6 DEF Parts, All

(* The same after a step. *)
LEMMA PartsAreNext == SyncInv' /\ BuffersOK' => Parts'
  <1>1. SyncInv /\ BuffersOK => Parts
    BY PartsAre
  <1> QED
    BY <1>1, PTL

(* No step but these loses, repeats or reorders what is to be written.    *)
LEMMA HandsOn ==
    ASSUME SyncInv, SyncInv', BuffersOK, BuffersOK', TxnOK, error' = "ok", CopyNext
    PROVE  Begin \/ CopyBig \/ Emit \/ All' = All
  <1>0. /\ HeldBy /\ Counted /\ Toggles /\ BuffersOK /\ TxnOK
        /\ BuffersOK' /\ Parts /\ Parts' /\ error' = "ok"
    BY PartsAre, PartsAreNext DEF SyncInv
  <1> USE DEF Waiting, WalkerAt, WriterAt, Threads, Goes, EOF
  <1>1. CASE Start
    <2>1. UNCHANGED <<file, Front, Back, Mine>>
      BY <1>0, <1>1
      DEF Start, shared, writer, Front, Back, Mine, Queued, HeldBy, Counted,
          Toggles
    <2> QED
      BY <1>0, <2>1 DEF Parts
  <1>2. CASE Begin
    BY <1>2
  <1>3. CASE Fail
    <2>1. <<>> \o <<>> = <<>>
      OBVIOUS
    <2>2. ~txn => buf[hand] = <<>> /\ over[hand] = <<>>
      BY <1>0, <1>3 DEF Fail, TxnOK, Toggles
    <2>3. Mine' = Mine
      BY <1>0, <1>3, <2>1, <2>2 DEF Fail, shared, Mine, Queued, HeldBy, TxnOK
    <2>4. UNCHANGED <<file, Front, Back>>
      BY <1>0, <1>3 DEF Fail, shared, writer, Front, Back, Queued, HeldBy
    <2> QED
      BY <1>0, <2>3, <2>4 DEF Parts
  <1>4. CASE Descend
    <2>1. UNCHANGED <<file, Front, Back, Mine>>
      BY <1>0, <1>4
      DEF Descend, shared, writer, Front, Back, Mine, Queued, HeldBy, Counted,
          Toggles
    <2> QED
      BY <1>0, <2>1 DEF Parts
  <1>5. CASE CopyBig
    BY <1>5
  <1>6. CASE Emit
    BY <1>6
  <1>7. CASE FullBuffer
    <2>1. UNCHANGED <<file, Front, Back, Mine>>
      BY <1>0, <1>7
      DEF FullBuffer, shared, writer, Front, Back, Mine, Queued, HeldBy,
          Counted, Toggles
    <2> QED
      BY <1>0, <2>1 DEF Parts
  <1>8. CASE Finish
    <2>1. UNCHANGED <<file, Front, Back, Mine>>
      BY <1>0, <1>8
      DEF Finish, writer, Front, Back, Mine, Queued, HeldBy, Counted, Toggles
    <2> QED
      BY <1>0, <2>1 DEF Parts
  <1>9. CASE Give
    <2>1. /\ pc["walker"] = "give" /\ mutex = "free" /\ new' = new + adjust
          /\ new \in {0, 1} /\ new' \in {1, 2, 17, 18}
          /\ new = 0 => new' \in {1, 17}
          /\ new = 1 => new' \in {2, 18}
          /\ UNCHANGED <<buf, over, left, file, hand, turn>>
      BY <1>0, <1>9 DEF Give, walker, writer, Counted
    <2>2. /\ new = 0 => turn = hand
          /\ new = 1 => hand = 1 - turn
      BY <1>0, <2>1 DEF Toggles
    <2>3. pc["writer"] # "write" /\ pc'["writer"] # "write"
      BY <1>0, <1>9, <2>1 DEF Give, SignalAndGo, Other, HeldBy
    <2>4. pc'["walker"] \in {"await", "given"}
      BY <1>0, <1>9 DEF Give, SignalAndGo, Other, HeldBy
    <2>5. Mine' = <<>> /\ Mine = Queued(hand) /\ Back = <<>> /\ file' = file
      BY <2>1, <2>4 DEF Mine, Back
    <2>6. CASE new = 0
      <3>1. Front = <<>> /\ Back' = <<>>
        BY <2>1, <2>6 DEF Front, Back
      <3>2. Front' = Queued(turn)'
        BY <2>1, <2>3, <2>6 DEF Front
      <3>3. Front' = Mine
        BY <2>1, <2>2, <2>5, <2>6, <3>2 DEF Queued
      <3> QED
        BY <1>0, <2>5, <3>1, <3>3, ConcatEmptySeq DEF Parts
    <2>7. CASE new = 1
      <3>1. Front' = Front /\ Back' = Mine
        <4>1. Front = Queued(turn) /\ Front' = Queued(turn)'
          BY <2>1, <2>3, <2>7 DEF Front
        <4>2. Back' = Queued(1 - turn)'
          BY <2>1, <2>7 DEF Back
        <4> QED
          BY <2>1, <2>2, <2>5, <2>7, <4>1, <4>2 DEF Queued
      <3>2. (Front \o Back) \o Mine = Front \o Mine
        BY <1>0, <2>5, ConcatEmptySeq DEF Parts
      <3>3. (Front' \o Back') \o Mine' = Front \o Mine
        BY <1>0, <2>5, <3>1, ConcatProperties, ConcatEmptySeq DEF Parts
      <3> QED
        BY <1>0, <2>5, <3>2, <3>3 DEF Parts
    <2> QED
      BY <2>1, <2>6, <2>7
  <1>10. CASE Given
    <2>1. UNCHANGED <<file, Front, Back, Mine>>
      BY <1>0, <1>10
      DEF Given, walker, writer, Front, Back, Mine, Queued, HeldBy, Counted,
          Toggles
    <2> QED
      BY <1>0, <2>1 DEF Parts
  <1>11. CASE Turn
    <2>1. /\ pc["walker"] = "given" /\ hand' = 1 - hand /\ hand' \in {0, 1}
          /\ buf' = [buf EXCEPT ![hand'] = <<>>]
          /\ pc'["walker"] \in {"walk", "finish", "join"} /\ pc'["writer"] = pc["writer"]
          /\ UNCHANGED <<over, new, turn, left, file>>
      BY <1>0, <1>11 DEF Turn, writer, HeldBy, Counted, Toggles
    <2>2. /\ new \in {0, 1, 16, 17} /\ (new \in {1, 17} <=> turn = hand)
      BY <1>0, <2>1 DEF Counted, Toggles
    <2>3. over[hand'] = <<>>
      BY <1>0, <2>1, <2>2 DEF BuffersOK
    <2>4. buf'[hand'] = <<>> /\ (new \in {1, 17} => buf'[turn] = buf[turn])
      BY <1>0, <2>1, <2>2 DEF BuffersOK, Toggles
    <2>5. Mine = <<>>
      BY <2>1 DEF Mine
    <2>6. Mine' = <<>>
      BY <2>1, <2>3, <2>4 DEF Mine, Queued
    <2>7. UNCHANGED <<file, Front, Back>>
      BY <2>1, <2>2, <2>4 DEF Front, Back, Queued
    <2> QED
      BY <1>0, <2>5, <2>6, <2>7 DEF Parts
  <1>12. CASE Join
    <2>1. UNCHANGED <<file, Front, Back, Mine>>
      BY <1>0, <1>12
      DEF Join, WriterEnded, Result, shared, writer, Front, Back, Mine,
          Queued, HeldBy, Counted, Toggles
    <2> QED
      BY <1>0, <2>1 DEF Parts
  <1>13. CASE Release("walker")
    <2>1. UNCHANGED <<file, Front, Back, Mine>>
      BY <1>0, <1>13
      DEF Release, Blocks, walker, writer, Front, Back, Mine, Queued, HeldBy,
          Counted, Toggles
    <2> QED
      BY <1>0, <2>1 DEF Parts
  <1>14. CASE Block("walker")
    <2>1. UNCHANGED <<file, Front, Back, Mine>>
      BY <1>0, <1>14
      DEF Block, Blocks, walker, writer, Front, Back, Mine, Queued, HeldBy,
          Counted, Toggles
    <2> QED
      BY <1>0, <2>1 DEF Parts
  <1>15. CASE Take
    <2>1. /\ pc["writer"] = "woken" /\ pc'["walker"] = pc["walker"]
          /\ pc'["writer"] = LoopHead(new)
          /\ left' = IF new \in {0, 16} THEN <<>> ELSE buf[turn]
          /\ UNCHANGED <<buf, over, new, turn, hand, file>>
      BY <1>0, <1>15 DEF Take, walker, HeldBy
    <2>2. new \notin {0, 16} => pc'["writer"] = "write"
      BY <2>1 DEF LoopHead
    <2>3. UNCHANGED <<file, Front, Back, Mine>>
      BY <2>1, <2>2 DEF Front, Back, Mine, Queued
    <2> QED
      BY <1>0, <2>3 DEF Parts
  <1>16. CASE Write
    <2>1. CASE UNCHANGED <<file, left>>
      <3>1. UNCHANGED <<file, Front, Back, Mine>>
        BY <1>0, <1>16, <2>1 DEF Write, walker, Front, Back, Mine, Queued
      <3> QED
        BY <1>0, <3>1 DEF Parts
    <2>2. ASSUME NEW n \in {1, Len(left)}, left # <<>>,
                 file' = file \o SubSeq(left, 1, n),
                 left' = SubSeq(left, n + 1, Len(left))
          PROVE  All' = All
      <3> DEFINE a == SubSeq(left, 1, n)
                 o == over[turn]
      <3>1. /\ pc["writer"] = "write" /\ new \notin {0, 16} /\ turn \in {0, 1}
            /\ UNCHANGED <<buf, over, new, turn, hand, pc>>
        BY <1>0, <1>16 DEF Write, walker, Counted, Toggles
      <3>2. left \in Seq(AnyImage) /\ Len(left) \in Nat /\ Len(left) >= 1
        BY <1>0, <2>2, LenProperties, EmptySeq DEF BuffersOK
      <3>3. n \in 1..Len(left)
        BY <3>2
      <3>4. (a \in Seq(AnyImage) /\ left' \in Seq(AnyImage)) /\ a \o left' = left
        <4>1. SubSeq(left, 1, n) \in Seq(AnyImage)
          <5>1. \A i \in 1..n : left[i] \in AnyImage
            BY <3>2, <3>3, LenProperties, ElementOfSeq
          <5> QED
            BY <3>2, <3>3, <5>1, SubSeqProperties
        <4>2. SubSeq(left, 1, n) \o SubSeq(left, n + 1, Len(left))
                = SubSeq(left, 1, Len(left))
          BY <3>2, <3>3, ConcatAdjacentSubSeq
        <4>3. SubSeq(left, 1, Len(left)) = left
          BY <3>2, SubSeqFull
        <4> QED
          BY <1>0, <2>2, <4>1, <4>2, <4>3 DEF BuffersOK
      <3>5. o \in Seq(AnyImage)
        BY <1>0, <3>1 DEF BuffersOK
      <3>6. /\ Front = left \o o /\ Front' = left' \o o
            /\ UNCHANGED <<Back, Mine>>
        BY <3>1 DEF Front, Back, Mine, Queued
      <3>7. file' = file \o a
        BY <2>2
      <3> HIDE DEF a, o
      <3>8. Front = a \o Front'
        <4>0. a \in Seq(AnyImage) /\ left' \in Seq(AnyImage)
          BY <3>4
        <4>1. (a \o left') \o o = a \o (left' \o o)
          BY <3>5, <4>0
        <4> QED
          BY <3>4, <3>6, <4>1
      <3>9. file \o (((a \o Front') \o Back) \o Mine)
              = (file \o a) \o ((Front' \o Back) \o Mine)
        <4>1. /\ file \in Seq(AnyImage) /\ Front' \in Seq(AnyImage)
              /\ Back \in Seq(AnyImage) /\ Mine \in Seq(AnyImage)
              /\ a \in Seq(AnyImage)
          BY <1>0, <3>4, <3>6 DEF Parts
        <4>2. Moved(file, a, Front', Back, Mine)
          BY <4>1, MoveOver
        <4> QED
          BY <4>2, Zenon DEF Moved
      <3> QED
        BY <1>0, <3>6, <3>7, <3>8, <3>9 DEF Parts
    <2> QED
      BY <1>16, <2>1, <2>2 DEF Write
  <1>17. CASE WriteTail
    <2>1. /\ pc["writer"] = "write" /\ left = <<>> /\ new \notin {0, 16}
          /\ turn \in {0, 1} /\ left' = over[turn] /\ over' = [over EXCEPT ![turn] = <<>>]
          /\ UNCHANGED <<buf, new, hand, turn, file, pc>>
      BY <1>0, <1>17 DEF WriteTail, walker, Counted, Toggles
    <2>2. over'[turn] = <<>> /\ over'[1 - turn] = over[1 - turn]
      BY <1>0, <2>1 DEF BuffersOK
    <2>3. over[turn] \in Seq(AnyImage)
      BY <1>0, <2>1 DEF BuffersOK
    <2>4. Front = over[turn] /\ Front' = over[turn]
      BY <2>1, <2>2, <2>3, ConcatEmptySeq DEF Front
    <2>5. UNCHANGED <<file, Back>>
      BY <2>1, <2>2 DEF Back, Queued
    <2>6. UNCHANGED Mine
      <3>1. pc["walker"] \in {"walk", "finish", "give"} => hand = 1 - turn
        BY <1>0, <2>1 DEF Counted, Toggles
      <3> QED
        BY <2>1, <2>2, <3>1 DEF Mine, Queued
    <2> QED
      BY <1>0, <2>4, <2>5, <2>6 DEF Parts
  <1>18. CASE Written
    <2>1. /\ pc["writer"] = "write" /\ left = <<>> /\ over[turn] = <<>>
          /\ new \in {1, 2, 17, 18} /\ turn \in {0, 1} /\ turn' = 1 - turn
          /\ new' = new - 1 /\ buf' = [buf EXCEPT ![turn] = <<>>]
          /\ left' = IF new - 1 \in {0, 16} THEN <<>> ELSE buf[1 - turn]
          /\ UNCHANGED <<over, hand, file>>
      BY <1>0, <1>18 DEF Written, walker, Counted, Toggles
    <2>2. Front = <<>>
      BY <2>1 DEF Front
    <2>3. Mine' = Mine
      <3>1. pc["walker"] \in {"walk", "finish", "give"} => hand = 1 - turn
        BY <1>0, <2>1 DEF Counted, Toggles
      <3>2. pc'["walker"] = IF pc["walker"] = "asleep" THEN "woken" ELSE pc["walker"]
        BY <1>0, <1>18 DEF Written, SignalAndGo, Other, HeldBy
      <3>3. buf'[1 - turn] = buf[1 - turn]
        BY <1>0, <2>1 DEF BuffersOK
      <3> QED
        BY <2>1, <3>1, <3>2, <3>3 DEF Mine, Queued
    <2>4. CASE new \in {1, 17}
      <3>1. Back = <<>> /\ Front' = <<>> /\ Back' = <<>>
        BY <2>1, <2>4 DEF Front, Back
      <3> QED
        BY <1>0, <2>1, <2>2, <2>3, <3>1 DEF Parts
    <2>5. CASE new \in {2, 18}
      <3>1. new' \in {1, 17} /\ new' \notin {0, 16}
        BY <2>1, <2>5
      <3>2. pc'["writer"] = "write"
        <4>1. pc'["writer"] = LoopHead(new')
          BY <1>0, <1>18, <2>1 DEF Written, SignalAndGo, Other, HeldBy
        <4> QED
          BY <3>1, <4>1 DEF LoopHead
      <3>3. left' = buf[1 - turn]
        BY <2>1, <3>1
      <3>4. Back' = <<>> /\ Front' = left' \o over'[turn'] /\ Back = Queued(1 - turn)
        BY <2>5, <3>1, <3>2 DEF Front, Back
      <3>5. Front' = Back
        BY <2>1, <3>3, <3>4 DEF Queued
      <3> QED
        BY <1>0, <2>1, <2>2, <2>3, <3>4, <3>5, ConcatEmptySeq DEF Parts
    <2> QED
      BY <2>1, <2>4, <2>5
  <1>19. CASE Release("writer")
    <2>1. UNCHANGED <<file, Front, Back, Mine>>
      BY <1>0, <1>19
      DEF Release, Blocks, walker, writer, Front, Back, Mine, Queued, HeldBy,
          Counted, Toggles
    <2> QED
      BY <1>0, <2>1 DEF Parts
  <1>20. CASE Block("writer")
    <2>1. UNCHANGED <<file, Front, Back, Mine>>
      BY <1>0, <1>20
      DEF Block, Blocks, walker, writer, Front, Back, Mine, Queued, HeldBy,
          Counted, Toggles
    <2> QED
      BY <1>0, <2>1 DEF Parts
  <1> QED
    BY <1>1, <1>2, <1>3, <1>4, <1>5, <1>6, <1>7, <1>8, <1>9, <1>10, <1>11,
       <1>12, <1>13, <1>14, <1>15, <1>16, <1>17, <1>18, <1>19, <1>20
    DEF CopyNext, WalkerStep, WriterStep

(***************************************************************************)
(* What a copied page adds to the end of what is written and waits.        *)
(***************************************************************************)
Added(s, t, c) == t = s \o c
(* What is put behind the last part is put behind all of it. *)
LEMMA AddedBehind ==
    ASSUME NEW S, NEW f \in Seq(S), NEW g \in Seq(S), NEW m \in Seq(S),
           NEW c \in Seq(S)
    PROVE  Added(f \o (g \o m), f \o (g \o (m \o c)), c)
  <1> DEFINE mc == m \o c
             gm == g \o m
  <1>1. mc \in Seq(S) /\ gm \in Seq(S)
    BY ConcatProperties
  <1>2. gm \o c = g \o mc
    OBVIOUS
  <1> HIDE DEF mc, gm
  <1>3. (f \o gm) \o c = f \o (gm \o c)
    BY <1>1
  <1> QED
    BY <1>2, <1>3 DEF mc, gm, Added

Continued(m, e, r) == Append(m, e) \o r = m \o (<<e>> \o r)
(* A page and its overflow pages, put behind a buffer. *)
LEMMA ContinuedIs ==
    ASSUME NEW S, NEW m \in Seq(S), NEW e \in S, NEW r \in Seq(S)
    PROVE  Continued(m, e, r)
  <1>1. Append(m, e) = m \o <<e>>
    OBVIOUS
  <1> DEFINE f == <<e>>
  <1>2. f \in Seq(S)
    OBVIOUS
  <1> HIDE DEF f
  <1>3. (m \o f) \o r = m \o (f \o r)
    BY <1>2
  <1> QED
    BY <1>1, <1>3 DEF f, Continued

Chunk(p, n, pgno) == <<Image(p, 0, pgno, <<>>)>> \o RestOf(p, n)
(* An overflow item's pages: the first with its number, then the others. *)
LEMMA ChunkIs ==
    ASSUME NEW p \in Nat, NEW n \in Nat \ {0}, NEW pgno \in Nat
    PROVE  /\ Chunk(p, n, pgno) \in Seq(AnyImage) /\ Len(Chunk(p, n, pgno)) = n
           /\ Chunk(p, n, pgno)[1] = Image(p, 0, pgno, <<>>)
           /\ \A k \in 1..n - 1 : Chunk(p, n, pgno)[k + 1] = Image(p, k, NoPage, <<>>)
  <1> DEFINE im == Image(p, 0, pgno, <<>>)
             r == RestOf(p, n)
  <1>1. im \in AnyImage
    <2>1. pgno \in Refs /\ <<>> \in Seq(Refs) /\ 0 \in Nat
      BY DEF Refs
    <2> QED
      BY <2>1, ImageIs
  <1>2. /\ r \in Seq(AnyImage) /\ Len(r) = n - 1
        /\ \A k \in 1..n - 1 : r[k] = Image(p, k, NoPage, <<>>)
    BY RestIs
  <1> HIDE DEF im, r
  <1>3. /\ <<im>> \o r \in Seq(AnyImage) /\ Len(<<im>> \o r) = n
        /\ (<<im>> \o r)[1] = im
        /\ \A k \in 1..n - 1 : (<<im>> \o r)[k + 1] = r[k]
    BY <1>1, <1>2
  <1> QED
    BY <1>2, <1>3 DEF Chunk, im, r

(* The copy begins with the two meta pages. *)
LEMMA BeginIs ==
    ASSUME SyncInv, SyncInv', BuffersOK, BuffersOK', TxnOK, Begin
    PROVE  All' = Metas(snap')
  <1>0. /\ HeldBy /\ Counted /\ Toggles /\ BuffersOK /\ TxnOK /\ Parts'
    BY PartsAreNext DEF SyncInv
  <1>1. /\ pc["walker"] = "begin" /\ UNCHANGED <<over, new, hand, file, turn>>
        /\ pc'["walker"] \in {"walk", "finish"}
    BY <1>0 DEF Begin, writer, Goes, HeldBy, Threads
  <1>2. snap' \in Snapshots /\ buf'[0] = Metas(snap')
    BY <1>0 DEF Begin, BuffersOK
  <1>3. new' = 0 /\ hand' = 0 /\ over'[0] = <<>> /\ file' = <<>>
    BY <1>0, <1>1 DEF TxnOK, Counted, Toggles
  <1>4. Front' = <<>> /\ Back' = <<>>
    BY <1>3 DEF Front, Back
  <1>5. Mine' = buf'[0] \o <<>>
    BY <1>1, <1>3 DEF Mine, Queued
  <1>6. Metas(snap') \in Seq(AnyImage)
    BY <1>2, MetasAre
  <1> QED
    BY <1>0, <1>2, <1>3, <1>4, <1>5, <1>6, ConcatEmptySeq DEF Parts

(* Nothing follows the buffer that the walker is collecting. *)
LEMMA NoTail ==
    ASSUME SyncInv, BuffersOK, pc["walker"] = "walk"
    PROVE  /\ over[hand] = <<>> /\ Mine = buf[hand] /\ buf[hand] \in Seq(AnyImage)
           /\ hand \in {0, 1}
  <1>1. hand \in {0, 1} /\ new \in {0, 1} /\ (turn = hand <=> new \notin {1, 17})
    BY DEF SyncInv, Counted, Toggles, Waiting
  <1>2. over[hand] = <<>>
    BY <1>1 DEF BuffersOK
  <1>3. buf[hand] \in Seq(AnyImage)
    BY <1>1 DEF BuffersOK
  <1> QED
    BY <1>1, <1>2, <1>3, ConcatEmptySeq DEF Mine, Queued

(* CopyBig adds an overflow item's pages and nothing else. *)
LEMMA CopyBigIs ==
    ASSUME SyncInv, SyncInv', BuffersOK, BuffersOK', TxnOK, WalkOK, CopyBig
    PROVE  Added(All, All', Chunk(Item.to, Item.n, nextPgno))
  <1>0. /\ HeldBy /\ Counted /\ Toggles /\ BuffersOK /\ TxnOK /\ Parts /\ Parts'
    BY PartsAre, PartsAreNext DEF SyncInv
  <1>1. pc["walker"] = "walk" /\ ~Finished /\ Item.kind = "big"
    BY DEF CopyBig
  <1>2. Item.to \in Nat /\ Item.n \in Nat \ {0} /\ nextPgno \in Nat
    BY <1>1, ItemIs DEF WalkOK
  <1> DEFINE im == Image(Item.to, 0, nextPgno, <<>>)
             r == RestOf(Item.to, Item.n)
  <1>3. im \in AnyImage
    <2>1. nextPgno \in Refs /\ <<>> \in Seq(Refs) /\ 0 \in Nat
      BY <1>2 DEF Refs
    <2> QED
      BY <1>2, <2>1, ImageIs
  <1>4. r \in Seq(AnyImage) /\ Len(r) = Item.n - 1
    BY <1>2, RestIs
  <1>5. /\ over[hand] = <<>> /\ Mine = buf[hand] /\ buf[hand] \in Seq(AnyImage)
        /\ hand \in {0, 1}
    BY <1>1, NoTail
  <1>6. /\ pc'["walker"] \in {"walk", "give"} /\ UNCHANGED <<new, hand, turn, left, file>>
        /\ pc'["writer"] = pc["writer"]
    BY <1>0, <1>1 DEF CopyBig, HandOverTail, writer, Goes, HeldBy, Threads
  <1>7. buf' = [buf EXCEPT ![hand] = Append(buf[hand], im)]
    BY DEF CopyBig
  <1>8. IF Item.n > 1 THEN over' = [over EXCEPT ![hand] = r] ELSE over' = over
    BY DEF CopyBig, HandOverTail, RestOf
  <1> HIDE DEF im, r
  <1>9. buf'[hand] = Append(buf[hand], im) /\ (hand # turn => buf'[turn] = buf[turn])
    BY <1>0, <1>5, <1>7 DEF BuffersOK, Toggles
  <1>10. over'[hand] = r /\ (hand # turn => over'[turn] = over[turn])
    <2>1. CASE Item.n > 1
      BY <1>0, <1>5, <1>8, <2>1 DEF BuffersOK, Toggles
    <2>2. CASE Item.n = 1
      <3>1. r = <<>>
        BY <1>4, <2>2, EmptySeq
      <3> QED
        BY <1>5, <1>8, <2>2, <3>1
    <2> QED
      BY <1>2, <2>1, <2>2
  <1>11. Mine' = Append(buf[hand], im) \o r
    BY <1>6, <1>9, <1>10 DEF Mine, Queued
  <1>12. Append(buf[hand], im) \o r = buf[hand] \o (<<im>> \o r)
    <2>1. Continued(buf[hand], im, r)
      BY <1>3, <1>4, <1>5, ContinuedIs
    <2> QED
      BY <2>1, Zenon DEF Continued
  <1>13. /\ new \in {0, 1} /\ (new = 1 => hand # turn)
    BY <1>0, <1>1 DEF Counted, Toggles, Waiting
  <1>14. UNCHANGED <<Front, Back>>
    BY <1>6, <1>9, <1>10, <1>13 DEF Front, Back, Queued
  <1>15. <<im>> \o r \in Seq(AnyImage)
    BY <1>3, <1>4, ConcatProperties
  <1>16. Front \o Back \in Seq(AnyImage)
    BY <1>0, ConcatProperties DEF Parts
  <1> DEFINE c == <<im>> \o r
             g == Front \o Back
             m == buf[hand]
  <1>17. All = file \o (g \o m) /\ All' = file \o (g \o (m \o c))
    BY <1>0, <1>5, <1>6, <1>11, <1>12, <1>14 DEF Parts
  <1>18. c \in Seq(AnyImage) /\ g \in Seq(AnyImage) /\ m \in Seq(AnyImage)
         /\ file \in Seq(AnyImage)
    BY <1>0, <1>5, <1>15, <1>16 DEF Parts
  <1> HIDE DEF c, g, m
  <1>19. Added(file \o (g \o m), file \o (g \o (m \o c)), c)
    BY <1>18, AddedBehind
  <1>20. c = Chunk(Item.to, Item.n, nextPgno)
    BY DEF c, Chunk, im, r
  <1> QED
    BY <1>17, <1>19, <1>20

(* Emit adds the page the walk was at and nothing else. *)
LEMMA EmitIs ==
    ASSUME SyncInv, SyncInv', BuffersOK, BuffersOK', TxnOK, WalkOK, Emit
    PROVE  Added(All, All', <<Image(Top.at, 0, nextPgno, Top.to)>>)
  <1>0. /\ HeldBy /\ Counted /\ Toggles /\ BuffersOK /\ TxnOK /\ Parts /\ Parts'
    BY PartsAre, PartsAreNext DEF SyncInv
  <1>1. pc["walker"] = "walk"
    BY DEF Emit
  <1> DEFINE im == Image(Top.at, 0, nextPgno, Top.to)
  <1>3. im \in AnyImage
    <2>1. nextPgno \in Refs /\ 0 \in Nat
      BY DEF WalkOK, Refs
    <2>2. Top.at \in Nat /\ Top.to \in Seq(Refs)
      BY <1>1, TopIs
    <2> QED
      BY <2>1, <2>2, ImageIs
  <1>5. /\ over[hand] = <<>> /\ Mine = buf[hand] /\ buf[hand] \in Seq(AnyImage)
        /\ hand \in {0, 1}
    BY <1>1, NoTail
  <1>6. /\ pc'["walker"] \in {"walk", "finish"}
        /\ UNCHANGED <<new, hand, turn, left, file, over>>
        /\ pc'["writer"] = pc["writer"]
    BY <1>0, <1>1 DEF Emit, writer, Goes, HeldBy, Threads
  <1>7. buf' = [buf EXCEPT ![hand] = Append(buf[hand], im)]
    BY DEF Emit
  <1> HIDE DEF im
  <1>9. buf'[hand] = Append(buf[hand], im) /\ (hand # turn => buf'[turn] = buf[turn])
    BY <1>0, <1>5, <1>7 DEF BuffersOK, Toggles
  <1>11. Mine' = Append(buf[hand], im) \o <<>>
    BY <1>5, <1>6, <1>9 DEF Mine, Queued
  <1>12. Append(buf[hand], im) \o <<>> = buf[hand] \o <<im>>
    BY <1>3, <1>5
  <1>13. /\ new \in {0, 1} /\ (new = 1 => hand # turn)
    BY <1>0, <1>1 DEF Counted, Toggles, Waiting
  <1>14. UNCHANGED <<Front, Back>>
    BY <1>6, <1>9, <1>13 DEF Front, Back, Queued
  <1>16. Front \o Back \in Seq(AnyImage)
    BY <1>0, ConcatProperties DEF Parts
  <1> DEFINE c == <<im>>
             g == Front \o Back
             m == buf[hand]
  <1>17. All = file \o (g \o m) /\ All' = file \o (g \o (m \o c))
    BY <1>0, <1>5, <1>6, <1>11, <1>12, <1>14 DEF Parts
  <1>18. c \in Seq(AnyImage) /\ g \in Seq(AnyImage) /\ m \in Seq(AnyImage)
         /\ file \in Seq(AnyImage)
    BY <1>0, <1>3, <1>5, <1>16 DEF Parts
  <1> HIDE DEF c, g, m
  <1>19. Added(file \o (g \o m), file \o (g \o (m \o c)), c)
    BY <1>18, AddedBehind
  <1> QED
    BY <1>17, <1>19 DEF c, im

(***************************************************************************)
(* The tree of a snapshot, and the steps of the walk through it.           *)
(***************************************************************************)
LEMMA OneParent ==
    ASSUME NEW s, IsTree(s),
           NEW p \in DOMAIN s.pages, NEW i \in 1..Len(s.pages[p]),
           NEW r \in DOMAIN s.pages, NEW j \in 1..Len(s.pages[r]),
           s.pages[p][i].to = s.pages[r][j].to, s.pages[p][i].to # NoPage
    PROVE  p = r /\ i = j
  <1>1. s.pages[p] \in Seq(Items) /\ s.pages[r] \in Seq(Items)
    BY DEF IsTree
  <1>2. i \in DOMAIN s.pages[p] /\ j \in DOMAIN s.pages[r]
    BY <1>1, LenProperties
  <1> QED
    BY <1>2, SMTT(30) DEF IsTree

(* What an item leads to is a page of its own: never a meta page or the root. *)
LEMMA LeadsBelow ==
    ASSUME NEW s, IsTree(s), NEW p \in DOMAIN s.pages, NEW i \in 1..Len(s.pages[p]),
           s.pages[p][i].to # NoPage
    PROVE  /\ s.pages[p][i].to \in Nat /\ s.pages[p][i].to >= 2
           /\ s.pages[p][i].to # s.root
           /\ s.pages[p][i].kind = "big" <=> s.pages[p][i].to \notin DOMAIN s.pages
  <1>1. s.pages[p] \in Seq(Items) /\ s.root \in DOMAIN s.pages \cup {NoPage}
        /\ \A q \in DOMAIN s.pages : q \in Nat /\ q >= 2
    BY DEF IsTree
  <1>2. i \in DOMAIN s.pages[p]
    BY <1>1, LenProperties
  <1>3. LET q == s.pages[p][i] IN
          /\ q.kind = "big" => q.to \notin DOMAIN s.pages \cup {NoPage} /\ q.to >= 2
          /\ q.kind # "big" => q.to \in (DOMAIN s.pages \ {s.root}) \cup {NoPage}
    BY <1>2 DEF IsTree
  <1>4. s.pages[p][i] \in Items
    BY <1>1, <1>2, ElementOfSeq, LenProperties
  <1>5. s.pages[p][i].to \in Nat
    BY <1>4 DEF Items
  <1> QED
    BY <1>1, <1>3, <1>5

(* The item that an entry is at is done: its number is n. *)
Stepped(e, f, n) ==
    /\ f.at = e.at /\ f.i = e.i + 1 /\ f.to \in Seq(Refs) /\ Len(f.to) = Len(e.to)
    /\ \A j \in 1..Len(e.to) : f.to[j] = IF j = e.i THEN n ELSE e.to[j]
Advanced(w, v, d, n) ==
    /\ d \in 1..Len(w) /\ v \in Seq(Entries) /\ Len(v) = d
    /\ \A c \in 1..d - 1 : v[c] = w[c]
    /\ Stepped(w[d], v[d], n) /\ w[d].i \in 1..Len(w[d].to)
Pushed(s, w, v, p) ==
    /\ v \in Seq(Entries) /\ Len(v) = Len(w) + 1
    /\ \A d \in 1..Len(w) : v[d] = w[d]
    /\ v[Len(w) + 1].at = p /\ v[Len(w) + 1].i = 1 /\ EntryOK(s, v[Len(w) + 1])

(* What Numbered does. *)
LEMMA NumberedIs ==
    ASSUME NEW e \in Entries, NEW n \in Refs, e.i \in 1..Len(e.to)
    PROVE  Numbered(e, n) \in Entries /\ Stepped(e, Numbered(e, n), n)
  <1>1. e.at \in Nat /\ e.i \in Nat \ {0} /\ e.to \in Seq(Refs) /\ Len(e.to) \in Nat
    BY LenProperties DEF Entries
  <1> DEFINE to == [e.to EXCEPT ![e.i] = n]
  <1>2. to \in Seq(Refs) /\ Len(to) = Len(e.to)
    BY <1>1, ExceptSeq
  <1>3. \A j \in 1..Len(e.to) : to[j] = IF j = e.i THEN n ELSE e.to[j]
    BY <1>1, LenProperties
  <1>4. Numbered(e, n) = [at |-> e.at, i |-> e.i + 1, to |-> to]
    BY DEF Numbered
  <1> HIDE DEF to
  <1> QED
    BY <1>1, <1>2, <1>3, <1>4 DEF Entries, Stepped

(* An item done, with what hung below it: still a way down. *)
LEMMA AdvanceWalk ==
    ASSUME NEW s, NEW w, NEW v, NEW d, NEW n \in Refs, WalkIn(s, w),
           Advanced(w, v, d, n)
    PROVE  WalkIn(s, v)
  <1>1. /\ w \in Seq(Entries) /\ v \in Seq(Entries) /\ Len(w) \in Nat /\ Len(v) = d
        /\ d \in 1..Len(w)
    BY LenProperties DEF WalkIn, Advanced
  <1>2. \A c \in 1..d : v[c].at = w[c].at
    BY <1>1 DEF Advanced, Stepped
  <1>3. \A c \in 1..d : EntryOK(s, v[c])
    <2>1. EntryOK(s, w[d])
      BY <1>1 DEF WalkIn
    <2>2. Len(w[d].to) \in Nat
      BY <2>1, LenProperties DEF EntryOK
    <2>3. EntryOK(s, v[d])
      BY <2>1, <2>2, SMTT(30) DEF EntryOK, Advanced, Stepped
    <2>4. \A c \in 1..d - 1 : EntryOK(s, v[c])
      BY <1>1 DEF WalkIn, Advanced
    <2> QED
      BY <1>1, <2>3, <2>4
  <1>4. \A c \in 1..d - 1 : LeadsTo(s, v[c], v[c + 1].at)
    <2>1. \A c \in 1..d - 1 : LeadsTo(s, w[c], w[c + 1].at)
      BY <1>1 DEF WalkIn
    <2>2. \A c \in 1..d - 1 : v[c] = w[c] /\ v[c + 1].at = w[c + 1].at
      BY <1>1, <1>2 DEF Advanced
    <2> QED
      BY <2>1, <2>2
  <1>5. v[1].at = s.root
    BY <1>1, <1>2, EmptySeq DEF WalkIn
  <1>6. \A b, c \in 1..d : v[b].at = v[c].at => b = c
    BY <1>1, <1>2 DEF WalkIn
  <1> QED
    BY <1>1, <1>3, <1>4, <1>5, <1>6 DEF WalkIn

(* A page further down: still a way down, for no page is met twice. *)
LEMMA PushWalk ==
    ASSUME NEW s, NEW w, NEW v, NEW p, IsTree(s), WalkIn(s, w), w # <<>>,
           p \in DOMAIN s.pages, p # s.root,
           LeadsTo(s, w[Len(w)], p), Pushed(s, w, v, p)
    PROVE  WalkIn(s, v)
  <1>1. /\ w \in Seq(Entries) /\ v \in Seq(Entries) /\ Len(w) \in Nat \ {0}
        /\ Len(v) = Len(w) + 1
    BY LenProperties, EmptySeq DEF WalkIn, Pushed
  <1>2. \A d \in 1..Len(w) : w[d].at # p
    <2> SUFFICES ASSUME NEW d \in 1..Len(w), w[d].at = p
                 PROVE  FALSE
      OBVIOUS
    <2>1. d # 1
      BY <1>1 DEF WalkIn
    <2> DEFINE c == d - 1
    <2>2. c \in 1..Len(w) - 1 /\ c \in 1..Len(w) /\ c # Len(w) /\ c + 1 = d
      BY <1>1, <2>1
    <2>3. LeadsTo(s, w[c], p)
      BY <2>2 DEF WalkIn
    <2>4. EntryOK(s, w[c]) /\ EntryOK(s, w[Len(w)])
      BY <1>1, <2>2 DEF WalkIn
    <2>5. /\ w[c].at \in DOMAIN s.pages /\ w[Len(w)].at \in DOMAIN s.pages
          /\ w[c].i \in 1..Len(s.pages[w[c].at])
          /\ w[Len(w)].i \in 1..Len(s.pages[w[Len(w)].at])
      <3>1. w[c].at \in DOMAIN s.pages /\ w[Len(w)].at \in DOMAIN s.pages
        BY <2>4 DEF EntryOK
      <3>2. /\ s.pages[w[c].at] \in Seq(Items)
            /\ s.pages[w[Len(w)].at] \in Seq(Items)
        BY <3>1 DEF IsTree
      <3> QED
        BY <2>3, <3>1, <3>2, LenProperties DEF LeadsTo
    <2>6. p # NoPage
      BY CopyAssumption DEF IsTree
    <2>7. w[c].at = w[Len(w)].at
      BY <2>3, <2>5, <2>6, OneParent DEF LeadsTo
    <2> QED
      BY <1>1, <2>2, <2>7 DEF WalkIn
  <1>3. \A d \in 1..Len(v) : EntryOK(s, v[d])
    BY <1>1 DEF WalkIn, Pushed
  <1>4. \A d \in 1..Len(v) - 1 : LeadsTo(s, v[d], v[d + 1].at)
    <2> TAKE d \in 1..Len(v) - 1
    <2>1. CASE d = Len(w)
      BY <1>1, <2>1 DEF Pushed
    <2>2. CASE d # Len(w)
      <3>1. d \in 1..Len(w) - 1 /\ d \in 1..Len(w) /\ d + 1 \in 1..Len(w)
        BY <1>1, <2>2
      <3> QED
        BY <3>1 DEF Pushed, WalkIn
    <2> QED
      BY <2>1, <2>2
  <1>5. v[1].at = s.root
    BY <1>1 DEF WalkIn, Pushed
  <1>6. \A d, e \in 1..Len(v) : v[d].at = v[e].at => d = e
    BY <1>1, <1>2 DEF WalkIn, Pushed
  <1> QED
    BY <1>1, <1>3, <1>4, <1>5, <1>6 DEF WalkIn

(***************************************************************************)
(* The output grows at its end, so what is in it stays where it is.        *)
(***************************************************************************)
Grown(o, t) ==
    /\ o \in Seq(AnyImage) /\ t \in Seq(AnyImage) /\ Len(o) <= Len(t)
    /\ \A k \in 1..Len(o) : t[k] = o[k]

(* An item whose pages are in the output keeps them. *)
LEMMA GrownItem ==
    ASSUME NEW o, NEW t, Grown(o, t), NEW item, NEW to, ItemIn(o, item, to)
    PROVE  ItemIn(t, item, to)
  <1>1. Len(o) \in Nat /\ Len(t) \in Nat
    BY LenProperties DEF Grown
  <1>2. CASE item.to = NoPage
    BY <1>2 DEF ItemIn
  <1>3. CASE item.to # NoPage
    <2>1. to \in Nat /\ HoldsIn(t, to + 1, item.to)
      BY <1>1, <1>3 DEF ItemIn, HoldsIn, Grown
    <2>2. ASSUME item.kind = "big", NEW j \in 1..item.n - 1
          PROVE  /\ to + 1 + j \in 1..Len(t)
                 /\ t[to + 1 + j] = Image(item.to, j, NoPage, <<>>)
      <3>1. /\ to + 1 + j \in 1..Len(o)
            /\ o[to + 1 + j] = Image(item.to, j, NoPage, <<>>)
        BY <1>3, <2>2 DEF ItemIn
      <3> DEFINE k == to + 1 + j
      <3>2. k \in 1..Len(o) /\ o[k] = Image(item.to, j, NoPage, <<>>)
        BY <3>1
      <3> HIDE DEF k
      <3>3. k \in 1..Len(t) /\ t[k] = Image(item.to, j, NoPage, <<>>)
        BY <1>1, <3>2 DEF Grown
      <3> QED
        BY <3>3 DEF k
    <2> QED
      BY <1>3, <2>1, <2>2 DEF ItemIn
  <1> QED
    BY <1>2, <1>3

(* So does a page. *)
LEMMA GrownPage ==
    ASSUME NEW s, NEW o, NEW t, Grown(o, t), NEW k, NEW p, PageIn(s, o, k, p)
    PROVE  PageIn(s, t, k, p)
  <1>1. Len(o) \in Nat /\ Len(t) \in Nat
    BY LenProperties DEF Grown
  <1>2. HoldsIn(t, k, p) /\ t[k] = o[k]
    BY <1>1 DEF PageIn, HoldsIn, Grown
  <1>3. \A i \in 1..Len(s.pages[p]) : ItemIn(t, s.pages[p][i], t[k].to[i])
    BY <1>2, GrownItem DEF PageIn
  <1> QED
    BY <1>2, <1>3 DEF PageIn

(* What an entry's step leaves of what is behind the walk, or was visited. *)
Seen(s, w, v, d, o, t) ==
    /\ Behind(s, v, t)
    /\ \A p : \A i \in Nat : Visited(w, o, p, i) => Visited(v, t, p, i)
    /\ Visited(v, t, w[d].at, w[d].i)
    /\ \A c \in 1..d : v[c].at = w[c].at
(* The item that is done has been visited, and nothing visited before is lost. *)
LEMMA AdvanceSeen ==
    ASSUME NEW s, NEW w, NEW v, NEW d, NEW n, NEW o, NEW t,
           Grown(o, t), WalkIn(s, w), Advanced(w, v, d, n), Behind(s, w, o),
           ItemIn(t, s.pages[w[d].at][w[d].i], n),
           \A c \in d + 1..Len(w) : \E k \in 1..Len(t) : t[k].of = w[c].at
    PROVE  Seen(s, w, v, d, o, t)
  <1>1. /\ w \in Seq(Entries) /\ Len(w) \in Nat /\ Len(v) = d /\ d \in 1..Len(w)
        /\ Len(o) \in Nat /\ Len(t) \in Nat
    BY LenProperties DEF WalkIn, Advanced, Grown
  <1>2. /\ \A c \in 1..d - 1 : v[c] = w[c]
        /\ v[d].at = w[d].at /\ v[d].i = w[d].i + 1 /\ w[d].i \in 1..Len(w[d].to)
        /\ \A j \in 1..Len(w[d].to) : v[d].to[j] = IF j = w[d].i THEN n ELSE w[d].to[j]
    BY DEF Advanced, Stepped
  <1>3. \A c \in 1..d : v[c].at = w[c].at
    BY <1>1, <1>2
  <1>4. EntryOK(s, w[d])
    BY <1>1 DEF WalkIn
  <1>5. Len(w[d].to) \in Nat /\ w[d].i \in Nat
    BY <1>2, <1>4, LenProperties DEF EntryOK
  <1>6. Behind(s, v, t)
    <2> SUFFICES ASSUME NEW c \in 1..d, NEW i \in 1..v[c].i - 1
                 PROVE  ItemIn(t, s.pages[v[c].at][i], v[c].to[i])
      BY <1>1 DEF Behind
    <2>1. CASE c # d
      <3>1. v[c] = w[c] /\ c \in 1..Len(w)
        BY <1>1, <1>2, <2>1
      <3>2. ItemIn(o, s.pages[v[c].at][i], v[c].to[i])
        BY <3>1 DEF Behind
      <3> QED
        BY <3>2, GrownItem
    <2>2. CASE c = d /\ i # w[d].i
      <3>1. i \in 1..w[d].i - 1 /\ i \in 1..Len(w[d].to)
        BY <1>2, <1>5, <2>2
      <3>2. v[c].to[i] = w[d].to[i] /\ v[c].at = w[d].at
        BY <1>2, <2>2, <3>1
      <3>3. ItemIn(o, s.pages[w[d].at][i], w[d].to[i])
        BY <1>1, <3>1 DEF Behind
      <3> QED
        BY <3>2, <3>3, GrownItem
    <2>3. CASE c = d /\ i = w[d].i
      BY <1>2, <2>3
    <2> QED
      BY <2>1, <2>2, <2>3
  <1>7. ASSUME NEW p, NEW i \in Nat, Visited(w, o, p, i)
        PROVE  Visited(v, t, p, i)
    <2>1. ASSUME NEW k \in 1..Len(o), o[k].of = p
          PROVE  Visited(v, t, p, i)
      <3>1. k \in 1..Len(t) /\ t[k].of = p
        BY <1>1, <2>1 DEF Grown
      <3> QED
        BY <3>1 DEF Visited
    <2>2. ASSUME NEW c \in 1..Len(w), w[c].at = p, i < w[c].i
          PROVE  Visited(v, t, p, i)
      <3>1. CASE c \in 1..d - 1
        BY <1>1, <1>2, <2>2, <3>1 DEF Visited
      <3>2. CASE c = d
        <4>1. v[d].at = p /\ i < v[d].i /\ d \in 1..Len(v)
          BY <1>1, <1>2, <1>5, <2>2, <3>2
        <4> QED
          BY <4>1 DEF Visited
      <3>3. CASE c \in d + 1..Len(w)
        BY <2>2, <3>3 DEF Visited
      <3> QED
        BY <1>1, <3>1, <3>2, <3>3
    <2> QED
      BY <1>7, <2>1, <2>2 DEF Visited
  <1>8. Visited(v, t, w[d].at, w[d].i)
    <2>1. d \in 1..Len(v) /\ v[d].at = w[d].at /\ w[d].i < v[d].i
      BY <1>1, <1>2, <1>5
    <2> QED
      BY <2>1 DEF Visited
  <1> QED
    BY <1>3, <1>6, <1>7, <1>8 DEF Seen

(***************************************************************************)
(* Each step of the walk keeps the output whole.                           *)
(***************************************************************************)
(* The snapshot's metas open the output. *)
LEMMA OutBegins ==
    ASSUME NEW s \in Snapshots, NEW w, w = <<>> \/ Pushed(s, <<>>, w, s.root),
           w # <<>> => s.root \in DOMAIN s.pages
    PROVE  OutputOK(s, w, 2, Metas(s)) /\ WalkIn(s, w)
  <1> DEFINE o == Metas(s)
  <1>1. IsTree(s)
    BY CopyAssumption
  <1>2. /\ o \in Seq(AnyImage) /\ Len(o) = 2 /\ o[1] = Image(0, 0, 0, <<>>)
        /\ o[2] = Image(1, 0, 1, <<NewRoot(s)>>)
    BY MetasAre
  <1>3. /\ o[1].of = 0 /\ o[1].part = 0 /\ o[1].pgno = 0
        /\ o[2].of = 1 /\ o[2].part = 0 /\ o[2].pgno = 1
    BY <1>2 DEF Image
  <1> HIDE DEF o
  <1>4. \A k \in 1..2 : k = 1 \/ k = 2
    OBVIOUS
  <1>5. Begun(s, 2, o) /\ Ordered(o) /\ NoMetas(o) /\ Once(o)
    BY <1>2, <1>3, <1>4 DEF Begun, Ordered, NoMetas, Once, o
  <1>6. \A p \in DOMAIN s.pages : p \in Nat /\ p >= 2
    BY <1>1 DEF IsTree
  <1>7. AllWhole(s, o)
    BY <1>2, <1>3, <1>4, <1>6 DEF AllWhole
  <1>8. Len(w) \in {0, 1} /\ \A d \in 1..Len(w) : EntryOK(s, w[d]) /\ w[d].i = 1
    BY DEF Pushed
  <1>9. \A d \in 1..Len(w) : w[d].at \in DOMAIN s.pages
    BY <1>8 DEF EntryOK
  <1>10. Ahead(w, o) /\ Behind(s, w, o)
    BY <1>2, <1>3, <1>4, <1>6, <1>8, <1>9 DEF Ahead, Behind
  <1>11. Led(s, w, o)
    <2> SUFFICES ASSUME NEW k \in 1..Len(o), NEW p \in DOMAIN s.pages,
                        NEW i \in 1..Len(s.pages[p]), o[k].of = s.pages[p][i].to
                 PROVE  FALSE
      BY DEF Led
    <2>1. o[k].of \in {0, 1}
      BY <1>2, <1>3, <1>4
    <2>2. s.pages[p][i].to # NoPage
      BY <2>1, CopyAssumption
    <2>3. s.pages[p][i].to >= 2
      BY <1>1, <2>2, LeadsBelow
    <2> QED
      BY <2>1, <2>3
  <1>12. WalkIn(s, w)
    <2>1. CASE w = <<>>
      BY <2>1 DEF WalkIn
    <2>2. CASE Pushed(s, <<>>, w, s.root)
      BY <1>8, <2>2 DEF WalkIn, Pushed
    <2> QED
      BY <2>1, <2>2
  <1> QED
    BY <1>5, <1>7, <1>10, <1>11, <1>12 DEF OutputOK, o

(* An item without a page is passed over. *)
LEMMA SkipOut ==
    ASSUME NEW s, NEW w, NEW v, NEW n, NEW o, IsTree(s), WalkIn(s, w), w # <<>>,
           Advanced(w, v, Len(w), NoPage),
           s.pages[w[Len(w)].at][w[Len(w)].i].to = NoPage, OutputOK(s, w, n, o)
    PROVE  OutputOK(s, v, n, o)
  <1>1. o \in Seq(AnyImage) /\ Len(o) \in Nat /\ Len(w) \in Nat /\ Len(v) = Len(w)
    BY LenProperties DEF OutputOK, Begun, WalkIn, Advanced
  <1>2. Grown(o, o)
    BY <1>1 DEF Grown
  <1>3. ItemIn(o, s.pages[w[Len(w)].at][w[Len(w)].i], NoPage)
    BY DEF ItemIn
  <1>4. \A c \in Len(w) + 1..Len(w) : \E k \in 1..Len(o) : o[k].of = w[c].at
    BY <1>1
  <1>5. Behind(s, w, o) /\ Ahead(w, o) /\ Led(s, w, o)
    BY DEF OutputOK
  <1>6. /\ Behind(s, v, o)
        /\ \A p : \A i \in Nat : Visited(w, o, p, i) => Visited(v, o, p, i)
        /\ \A c \in 1..Len(w) : v[c].at = w[c].at
    <2>1. Seen(s, w, v, Len(w), o, o)
      BY <1>2, <1>3, <1>4, <1>5, AdvanceSeen
    <2> QED
      BY <2>1 DEF Seen
  <1>7. Ahead(v, o)
    BY <1>1, <1>5, <1>6 DEF Ahead
  <1>8. Led(s, v, o)
    <2> SUFFICES ASSUME NEW k \in 1..Len(o), NEW p \in DOMAIN s.pages,
                        NEW i \in 1..Len(s.pages[p]), o[k].of = s.pages[p][i].to
                 PROVE  Visited(v, o, p, i)
      BY DEF Led
    <2>1. Visited(w, o, p, i) /\ i \in Nat
      BY <1>5 DEF Led
    <2> QED
      BY <1>6, <2>1
  <1> QED
    BY <1>6, <1>7, <1>8 DEF OutputOK

(* The page an item leads to is not in the output yet, nor on the walk.   *)
LEMMA NotYet ==
    ASSUME NEW s, NEW w, NEW n, NEW o, IsTree(s), WalkIn(s, w), w # <<>>,
           OutputOK(s, w, n, o), w[Len(w)].i \in 1..Len(w[Len(w)].to),
           s.pages[w[Len(w)].at][w[Len(w)].i].to # NoPage
    PROVE  \A k \in 1..Len(o) : o[k].of # s.pages[w[Len(w)].at][w[Len(w)].i].to
  <1> SUFFICES ASSUME NEW k \in 1..Len(o),
                      o[k].of = s.pages[w[Len(w)].at][w[Len(w)].i].to
               PROVE  FALSE
    OBVIOUS
  <1> DEFINE l == Len(w)
             p == w[l].at
             i == w[l].i
  <1>1. l \in 1..Len(w) /\ l \in Nat
    BY LenProperties, EmptySeq DEF WalkIn
  <1>2. EntryOK(s, w[l])
    BY <1>1 DEF WalkIn
  <1>3. p \in DOMAIN s.pages /\ i \in 1..Len(s.pages[p]) /\ i \in Nat
    BY <1>2 DEF EntryOK
  <1>4. Visited(w, o, p, i)
    BY <1>3 DEF OutputOK, Led
  <1>5. \A j \in 1..Len(o) : o[j].of # p
    BY <1>1 DEF OutputOK, Ahead
  <1>6. PICK d \in 1..Len(w) : w[d].at = p /\ i < w[d].i
    BY <1>4, <1>5 DEF Visited
  <1>7. d = l
    BY <1>1, <1>6 DEF WalkIn
  <1> QED
    BY <1>3, <1>6, <1>7

(* A walk with one page more on it. *)
LEMMA OneMore ==
    ASSUME NEW n \in Nat, NEW w, NEW v, Len(v) = n + 1, \A d \in 1..n : v[d] = w[d]
    PROVE  /\ \A d \in 1..Len(v) : d = n + 1 \/ (d \in 1..n /\ v[d] = w[d])
           /\ \A d \in 1..n : d \in 1..Len(v) /\ v[d] = w[d]
  OBVIOUS

(* A page further down is not in the output yet. *)
LEMMA PushOut ==
    ASSUME NEW s, NEW w, NEW v, NEW n, NEW o, IsTree(s), WalkIn(s, w), w # <<>>,
           w[Len(w)].i \in 1..Len(w[Len(w)].to),
           s.pages[w[Len(w)].at][w[Len(w)].i].to # NoPage,
           Pushed(s, w, v, s.pages[w[Len(w)].at][w[Len(w)].i].to), OutputOK(s, w, n, o)
    PROVE  OutputOK(s, v, n, o)
  <1> DEFINE p == s.pages[w[Len(w)].at][w[Len(w)].i].to
  <1>1. Len(o) \in Nat /\ Len(w) \in Nat /\ Len(v) = Len(w) + 1
    BY LenProperties DEF OutputOK, Begun, WalkIn, Pushed
  <1>2. \A k \in 1..Len(o) : o[k].of # p
    BY NotYet
  <1>3. /\ v[Len(w) + 1].at = p /\ v[Len(w) + 1].i = 1
        /\ \A d \in 1..Len(w) : v[d] = w[d]
    BY DEF Pushed
  <1> HIDE DEF p
  <1>4. Behind(s, w, o) /\ Ahead(w, o) /\ Led(s, w, o)
    BY DEF OutputOK
  <1>5. /\ \A d \in 1..Len(v) : d = Len(w) + 1 \/ (d \in 1..Len(w) /\ v[d] = w[d])
        /\ \A d \in 1..Len(w) : d \in 1..Len(v) /\ v[d] = w[d]
    BY <1>1, <1>3, OneMore
  <1>6. Ahead(v, o)
    <2>1. ASSUME NEW d \in 1..Len(v), NEW k \in 1..Len(o)
          PROVE  o[k].of # v[d].at
      <3>1. CASE d = Len(w) + 1
        BY <1>2, <1>3, <3>1
      <3>2. CASE d \in 1..Len(w) /\ v[d] = w[d]
        BY <1>4, <3>2 DEF Ahead
      <3> QED
        BY <1>5, <3>1, <3>2
    <2> QED
      BY <2>1 DEF Ahead
  <1>7. Behind(s, v, o)
    <2>1. ASSUME NEW d \in 1..Len(v), NEW i \in 1..(v[d].i - 1)
          PROVE  ItemIn(o, s.pages[v[d].at][i], v[d].to[i])
      <3>1. d # Len(w) + 1
        BY <1>3
      <3>2. d \in 1..Len(w) /\ v[d] = w[d]
        BY <1>5, <3>1
      <3> QED
        BY <1>4, <3>2 DEF Behind
    <2> QED
      BY <2>1 DEF Behind
  <1>9. \A q, i : Visited(w, o, q, i) => Visited(v, o, q, i)
    <2>1. ASSUME NEW q, NEW i, NEW d \in 1..Len(w), w[d].at = q /\ i < w[d].i
          PROVE  d \in 1..Len(v) /\ v[d].at = q /\ i < v[d].i
      BY <1>5, <2>1
    <2> QED
      BY <2>1, Zenon DEF Visited
  <1>8. Led(s, v, o)
    BY <1>4, <1>9 DEF Led
  <1> QED
    BY <1>6, <1>7, <1>8 DEF OutputOK

(***************************************************************************)
(* A page, or an item's overflow pages, added to the output.               *)
(***************************************************************************)
AddedPages(o, t, p, m, n) ==
    /\ Grown(o, t) /\ Len(o) = n /\ Len(t) = n + m
    /\ t[n + 1].pgno = n
    /\ \A k \in n + 1..n + m : t[k].of = p /\ t[k].part = k - n - 1

(* The output goes on with the next numbers, and nothing is in it twice. *)
LEMMA PagesKeep ==
    ASSUME NEW s, NEW n \in Nat, NEW o, NEW t, NEW p \in Nat, NEW m \in Nat,
           m >= 1, p >= 2, AddedPages(o, t, p, m, n),
           Begun(s, n, o), Ordered(o), NoMetas(o), Once(o),
           \A k \in 1..Len(o) : o[k].of # p
    PROVE  Begun(s, n + m, t) /\ Ordered(t) /\ NoMetas(t) /\ Once(t)
  <1>1. /\ o \in Seq(AnyImage) /\ t \in Seq(AnyImage) /\ Len(o) = n /\ Len(t) = n + m
        /\ \A k \in 1..n : t[k] = o[k]
        /\ t[n + 1].pgno = n
        /\ \A k \in n + 1..n + m : t[k].of = p /\ t[k].part = k - n - 1
        /\ n >= 2
    BY DEF AddedPages, Grown, Begun
  <1>2. n \in Nat /\ m \in Nat /\ m >= 1
    OBVIOUS
  <1>3. \A k \in 1..n + m : k \in 1..n \/ k \in n + 1..n + m
    BY <1>2
  <1>4. Begun(s, n + m, t)
    BY <1>1, <1>2 DEF Begun
  <1>5. Ordered(t)
    <2> SUFFICES ASSUME NEW k \in 1..n + m
                 PROVE  IF t[k].part = 0 THEN t[k].pgno = k - 1
                        ELSE /\ k > 1 /\ t[k - 1].of = t[k].of
                             /\ t[k - 1].part = t[k].part - 1
      BY <1>1 DEF Ordered
    <2>0. k \in Nat /\ k >= 1 /\ k <= n + m
      BY <1>2
    <2>1. CASE k \in 1..n
      <3>1. t[k] = o[k] /\ (k > 1 => t[k - 1] = o[k - 1])
        BY <1>1, <1>2, <2>1
      <3> QED
        BY <1>1, <2>1, <3>1 DEF Ordered
    <2>2. CASE k = n + 1
      <3>1. n + 1 \in n + 1..n + m
        BY <1>2
      <3>2. t[k].part = 0 /\ t[k].pgno = k - 1
        BY <1>1, <1>2, <2>2, <3>1
      <3> QED
        BY <3>2
    <2>3. CASE k \in n + 2..n + m
      <3>1. k \in n + 1..n + m /\ k - 1 \in n + 1..n + m
        BY <1>2, <2>0, <2>3
      <3>2. /\ t[k].of = p /\ t[k].part = k - n - 1
            /\ t[k - 1].of = p /\ t[k - 1].part = (k - 1) - n - 1
        BY <1>1, <3>1
      <3>3. k - n - 1 # 0 /\ k > 1 /\ (k - 1) - n - 1 = (k - n - 1) - 1
        BY <1>2, <2>0, <2>3
      <3> QED
        BY <3>2, <3>3
    <2>4. k \in 1..n \/ k = n + 1 \/ k \in n + 2..n + m
      BY <1>2, <2>0
    <2> QED
      BY <2>1, <2>2, <2>3, <2>4
  <1>6. NoMetas(t)
    <2> SUFFICES ASSUME NEW k \in 1..n + m, t[k].of < 2
                 PROVE  k <= 2
      BY <1>1 DEF NoMetas
    <2>1. k \notin n + 1..n + m
      BY <1>1
    <2>2. k \in 1..n /\ o[k].of < 2
      BY <1>1, <1>3, <2>1
    <2> QED
      BY <1>1, <2>2 DEF NoMetas
  <1>7. Once(t)
    <2> SUFFICES ASSUME NEW j \in 1..n + m, NEW k \in 1..n + m,
                        t[j].of = t[k].of, t[j].part = t[k].part
                 PROVE  j = k
      BY <1>1 DEF Once
    <2>0. j \in Nat /\ k \in Nat
      BY <1>2
    <2>1. CASE j \in 1..n /\ k \in 1..n
      BY <1>1, <2>1 DEF Once
    <2>2. CASE j \in n + 1..n + m /\ k \in n + 1..n + m
      <3>1. j - n - 1 = k - n - 1
        BY <1>1, <2>2
      <3> QED
        BY <1>2, <2>0, <3>1
    <2>3. CASE j \in 1..n /\ k \in n + 1..n + m
      <3>1. t[j].of # p /\ t[k].of = p
        BY <1>1, <2>3
      <3> QED
        BY <3>1
    <2>4. CASE j \in n + 1..n + m /\ k \in 1..n
      <3>1. t[k].of # p /\ t[j].of = p
        BY <1>1, <2>4
      <3> QED
        BY <3>1
    <2> QED
      BY <1>3, <2>1, <2>2, <2>3, <2>4
  <1> QED
    BY <1>4, <1>5, <1>6, <1>7

(* An overflow item's pages. *)
ChunkAt(t, p, m, n) ==
    \A j \in 1..m - 1 : t[n + 1 + j] = Image(p, j, NoPage, <<>>)
(* They are added with the next number. *)
LEMMA ChunkAdded ==
    ASSUME NEW o \in Seq(AnyImage), NEW t, NEW p \in Nat, NEW m \in Nat \ {0},
           NEW n \in Nat, Len(o) = n, Added(o, t, Chunk(p, m, n))
    PROVE  AddedPages(o, t, p, m, n) /\ ChunkAt(t, p, m, n)
  <1> DEFINE c == Chunk(p, m, n)
  <1>1. /\ c \in Seq(AnyImage) /\ Len(c) = m /\ c[1] = Image(p, 0, n, <<>>)
        /\ \A k \in 1..m - 1 : c[k + 1] = Image(p, k, NoPage, <<>>)
    BY ChunkIs
  <1> HIDE DEF c
  <1>2. t = o \o c
    BY DEF Added, c
  <1>3. /\ t \in Seq(AnyImage) /\ Len(t) = n + m
        /\ \A k \in 1..n : t[k] = o[k]
    <2>1. t \in Seq(AnyImage) /\ Len(t) = Len(o) + Len(c)
      BY <1>1, <1>2, ConcatProperties
    <2>2. \A k \in 1..n : t[k] = o[k]
      BY <1>1, <1>2
    <2> QED
      BY <1>1, <2>1, <2>2
  <1>4. \A k \in 1..m : t[n + k] = c[k]
    BY <1>1, <1>2
  <1>5. n \in Nat /\ m \in Nat /\ m >= 1
    OBVIOUS
  <1>6. t[n + 1] = Image(p, 0, n, <<>>)
    <2>1. 1 \in 1..m
      BY <1>5
    <2> QED
      BY <1>1, <1>4, <2>1
  <1>7. ASSUME NEW j \in 1..m - 1
        PROVE  t[n + 1 + j] = Image(p, j, NoPage, <<>>)
    <2>1. j + 1 \in 1..m /\ n + (j + 1) = n + 1 + j
      BY <1>5
    <2>2. t[n + (j + 1)] = c[j + 1]
      BY <1>4, <2>1
    <2> QED
      BY <1>1, <2>1, <2>2
  <1>8. ASSUME NEW k \in n + 1..n + m
        PROVE  t[k].of = p /\ t[k].part = k - n - 1
    <2>1. CASE k = n + 1
      <3>1. t[k].of = p /\ t[k].part = 0 /\ k - n - 1 = 0
        BY <1>5, <1>6, <2>1 DEF Image
      <3> QED
        BY <3>1
    <2>2. CASE k # n + 1
      <3> DEFINE j == k - n - 1
      <3>1. j \in 1..m - 1 /\ n + 1 + j = k
        BY <1>5, <2>2
      <3>2. t[k] = Image(p, j, NoPage, <<>>)
        BY <1>7, <3>1
      <3> QED
        BY <3>2 DEF Image
    <2> QED
      BY <2>1, <2>2
  <1>9. Grown(o, t)
    BY <1>3, <1>5 DEF Grown
  <1>10. t[n + 1].pgno = n
    BY <1>6 DEF Image
  <1> QED
    BY <1>3, <1>7, <1>8, <1>9, <1>10 DEF AddedPages, ChunkAt

(* The walk after the page or item it is at has been copied. *)
LEMMA WalkKeeps ==
    ASSUME NEW s, NEW w, NEW v, NEW n \in Nat, NEW o, NEW t, NEW p, NEW m \in Nat,
           IsTree(s), WalkIn(s, w), WalkIn(s, v), AddedPages(o, t, p, m, n),
           Ahead(w, o), Led(s, w, o), Len(v) \in Nat, Len(v) <= Len(w),
           \A d \in 1..Len(v) : v[d].at = w[d].at /\ w[d].at # p,
           \A q : \A i \in Nat : Visited(w, o, q, i) => Visited(v, t, q, i),
           \A q \in DOMAIN s.pages : \A i \in 1..Len(s.pages[q]) :
               s.pages[q][i].to = p => Visited(v, t, q, i)
    PROVE  Ahead(v, t) /\ Led(s, v, t)
  <1>1. /\ Len(o) = n /\ Len(t) = n + m
        /\ \A k \in 1..n : t[k] = o[k]
        /\ \A k \in n + 1..n + m : t[k].of = p
        /\ Len(w) \in Nat
    BY LenProperties DEF AddedPages, Grown, WalkIn
  <1>2. \A k \in 1..n + m : k \in 1..n \/ k \in n + 1..n + m
    OBVIOUS
  <1>3. \A d \in 1..Len(v) : d \in 1..Len(w)
    BY <1>1
  <1>4. Ahead(v, t)
    BY <1>1, <1>2, <1>3 DEF Ahead
  <1>5. Led(s, v, t)
    <2> SUFFICES ASSUME NEW k \in 1..n + m, NEW q \in DOMAIN s.pages,
                        NEW i \in 1..Len(s.pages[q]), t[k].of = s.pages[q][i].to
                 PROVE  Visited(v, t, q, i)
      BY <1>1 DEF Led
    <2>0. i \in Nat
      OBVIOUS
    <2>1. CASE k \in 1..n
      <3>1. Visited(w, o, q, i)
        BY <1>1, <2>1 DEF Led
      <3> QED
        BY <2>0, <3>1
    <2>2. CASE k \in n + 1..n + m
      BY <1>1, <2>2
    <2> QED
      BY <1>2, <2>1, <2>2
  <1> QED
    BY <1>4, <1>5

(* CopyBig: the overflow pages are in the output, and their item knows where. *)
LEMMA BigOut ==
    ASSUME NEW s, NEW w, NEW v, NEW n \in Nat, NEW o, NEW t, NEW item,
           NEW p \in Nat, NEW m \in Nat \ {0},
           IsTree(s), WalkIn(s, w), w # <<>>, OutputOK(s, w, n, o),
           w[Len(w)].i \in 1..Len(w[Len(w)].to),
           item = s.pages[w[Len(w)].at][w[Len(w)].i],
           item.kind = "big", item.to = p, item.n = m,
           Added(o, t, Chunk(p, m, n)), Advanced(w, v, Len(w), n)
    PROVE  OutputOK(s, v, n + m, t)
  <1> DEFINE l == Len(w)
             q == w[l].at
             i == w[l].i
  <1>1. /\ o \in Seq(AnyImage) /\ Len(o) = n /\ n >= 2 /\ l \in 1..Len(w) /\ l \in Nat
        /\ Len(v) = l /\ m >= 1 /\ p # NoPage /\ n \in Refs
    BY LenProperties, EmptySeq, CopyAssumption
       DEF OutputOK, Begun, WalkIn, Advanced, Refs
  <1>2. EntryOK(s, w[l])
    BY <1>1 DEF WalkIn
  <1>3. q \in DOMAIN s.pages /\ i \in 1..Len(s.pages[q])
    BY <1>2 DEF EntryOK
  <1>4. s.pages[q][i].to = p /\ s.pages[q][i].kind = "big"
    OBVIOUS
  <1>5. p >= 2 /\ p \notin DOMAIN s.pages
    BY <1>1, <1>3, <1>4, LeadsBelow
  <1>6. AddedPages(o, t, p, m, n) /\ ChunkAt(t, p, m, n)
    BY <1>1, ChunkAdded
  <1>7. \A k \in 1..Len(o) : o[k].of # p
    BY <1>1, NotYet
  <1>8. /\ Begun(s, n, o) /\ Ordered(o) /\ AllWhole(s, o) /\ NoMetas(o) /\ Once(o)
        /\ Ahead(w, o) /\ Behind(s, w, o) /\ Led(s, w, o)
    BY DEF OutputOK
  <1>9. Begun(s, n + m, t) /\ Ordered(t) /\ NoMetas(t) /\ Once(t)
    BY <1>1, <1>5, <1>6, <1>7, <1>8, PagesKeep, ZenonT(60)
  <1>10. /\ Grown(o, t) /\ Len(t) = n + m
         /\ \A k \in 1..n : t[k] = o[k]
         /\ \A k \in n + 1..n + m : t[k].of = p /\ t[k].part = k - n - 1
    BY <1>1, <1>6 DEF AddedPages, Grown
  <1>11. ItemIn(t, item, n)
    <2>1. \A j \in 1..m - 1 : n + 1 + j \in 1..Len(t)
      BY <1>1, <1>10
    <2>2. n + 1 \in 1..Len(t) /\ n + 1 \in n + 1..n + m
      BY <1>1, <1>10
    <2>3. t[n + 1].of = p /\ t[n + 1].part = 0
      BY <1>1, <1>10, <2>2
    <2> QED
      BY <1>1, <1>6, <2>1, <2>2, <2>3 DEF ItemIn, HoldsIn, ChunkAt
  <1>12. AllWhole(s, t)
    <2> SUFFICES ASSUME NEW k \in 1..n + m, t[k].of \in DOMAIN s.pages
                 PROVE  PageIn(s, t, k, t[k].of)
      BY <1>10 DEF AllWhole
    <2>1. k \notin n + 1..n + m
      BY <1>5, <1>10
    <2>2. k \in 1..n
      BY <1>1, <2>1
    <2>3. PageIn(s, o, k, t[k].of)
      BY <1>1, <1>8, <1>10, <2>2 DEF AllWhole
    <2> QED
      BY <1>10, <2>3, GrownPage
  <1>13. Behind(s, v, t) /\ Visited(v, t, q, i)
         /\ (\A r : \A j \in Nat : Visited(w, o, r, j) => Visited(v, t, r, j))
         /\ \A c \in 1..l : v[c].at = w[c].at
    <2>1. \A c \in Len(w) + 1..Len(w) : \E k \in 1..Len(t) : t[k].of = w[c].at
      BY <1>1
    <2>2. Seen(s, w, v, Len(w), o, t)
      BY <1>8, <1>10, <1>11, <2>1, AdvanceSeen
    <2> QED
      BY <2>2 DEF Seen
  <1>14. WalkIn(s, v)
    BY <1>1, AdvanceWalk
  <1>15. \A d \in 1..l : w[d].at # p
    BY <1>5 DEF WalkIn, EntryOK
  <1>16. ASSUME NEW r \in DOMAIN s.pages, NEW j \in 1..Len(s.pages[r]),
                s.pages[r][j].to = p
         PROVE  Visited(v, t, r, j)
    <2>1. s.pages[r][j].to = s.pages[q][i].to /\ s.pages[r][j].to # NoPage
      BY <1>1, <1>4, <1>16
    <2> HIDE DEF q, i
    <2>2. r = q /\ j = i
      BY <1>3, <2>1, OneParent
    <2> QED
      BY <1>13, <2>2
  <1>17. Ahead(v, t) /\ Led(s, v, t)
    <2>1. /\ Len(v) \in Nat /\ Len(v) <= Len(w)
          /\ \A d \in 1..Len(v) : v[d].at = w[d].at /\ w[d].at # p
      BY <1>1, <1>13, <1>15
    <2>2. m \in Nat
      OBVIOUS
    <2> QED
      BY <1>6, <1>8, <1>13, <1>14, <1>16, <2>1, <2>2, WalkKeeps
  <1> QED
    BY <1>9, <1>12, <1>13, <1>17 DEF OutputOK

(* Emit: the page is in the output with all it leads to, and its parent knows where. *)
LEMMA EmitOut ==
    ASSUME NEW s, NEW w, NEW v, NEW n \in Nat, NEW o, NEW t, NEW p, NEW to,
           IsTree(s), WalkIn(s, w), w # <<>>, OutputOK(s, w, n, o),
           w[Len(w)].i = Len(w[Len(w)].to) + 1,
           p = w[Len(w)].at, to = w[Len(w)].to,
           Added(o, t, <<Image(p, 0, n, to)>>),
           IF Len(w) = 1 THEN v = <<>> ELSE Advanced(w, v, Len(w) - 1, n)
    PROVE  /\ WalkIn(s, v) /\ OutputOK(s, v, n + 1, t)
           /\ HoldsIn(t, n + 1, p)
  <1> DEFINE l == Len(w)
  <1>1. /\ o \in Seq(AnyImage) /\ Len(o) = n /\ n >= 2 /\ l \in 1..Len(w)
        /\ l \in Nat \ {0} /\ n \in Refs
    BY LenProperties, EmptySeq DEF OutputOK, Begun, WalkIn, Refs
  <1>2. /\ p \in DOMAIN s.pages /\ to \in Seq(Refs) /\ Len(to) = Len(s.pages[p])
        /\ p \in Nat /\ p >= 2 /\ p # NoPage /\ Len(to) \in Nat
    <2>1. EntryOK(s, w[l])
      BY <1>1 DEF WalkIn
    <2>2. p \in DOMAIN s.pages /\ to \in Seq(Refs) /\ Len(to) = Len(s.pages[p])
      BY <2>1 DEF EntryOK
    <2>3. p \in Nat /\ p >= 2
      BY <2>2, Zenon DEF IsTree
    <2>4. p # NoPage
      BY <2>3, CopyAssumption, Zenon
    <2>5. Len(to) \in Nat
      BY <2>2, LenProperties
    <2> QED
      BY <2>2, <2>3, <2>4, <2>5
  <1> DEFINE im == Image(p, 0, n, to)
  <1>3. im \in AnyImage
    BY <1>1, <1>2, ImageIs
  <1>4. im.of = p /\ im.part = 0 /\ im.pgno = n /\ im.to = to
    BY DEF Image
  <1> HIDE DEF im
  <1>5. t \in Seq(AnyImage) /\ Len(t) = n + 1
    <2>1. <<im>> \in Seq(AnyImage) /\ Len(<<im>>) = 1
      BY <1>3
    <2>2. t = o \o <<im>>
      BY DEF Added, im
    <2> QED
      BY <1>1, <2>1, <2>2, ConcatProperties
  <1>6. (\A k \in 1..n : t[k] = o[k]) /\ t[n + 1] = im
    <2>1. t = o \o <<im>>
      BY DEF Added, im
    <2> QED
      BY <1>1, <1>3, <2>1
  <1>7. Grown(o, t)
    BY <1>1, <1>5, <1>6 DEF Grown
  <1>8. AddedPages(o, t, p, 1, n)
    <2>1. \A k \in n + 1..n + 1 : k = n + 1 /\ k - n - 1 = 0
      OBVIOUS
    <2> QED
      BY <1>1, <1>4, <1>5, <1>6, <1>7, <2>1 DEF AddedPages
  <1>9. \A k \in 1..Len(o) : o[k].of # p
    BY <1>1 DEF OutputOK, Ahead
  <1>10. /\ Begun(s, n, o) /\ Ordered(o) /\ AllWhole(s, o) /\ NoMetas(o) /\ Once(o)
         /\ Ahead(w, o) /\ Behind(s, w, o) /\ Led(s, w, o)
    BY DEF OutputOK
  <1>11. Begun(s, n + 1, t) /\ Ordered(t) /\ NoMetas(t) /\ Once(t)
    <2>1. PICK m \in Nat : m = 1
      OBVIOUS
    <2>2. m >= 1 /\ AddedPages(o, t, p, m, n)
      BY <1>8, <2>1
    <2>3. Begun(s, n + m, t) /\ Ordered(t) /\ NoMetas(t) /\ Once(t)
      <3>1. /\ n \in Nat /\ p \in Nat /\ p >= 2
            /\ \A k \in 1..Len(o) : o[k].of # p
            /\ Begun(s, n, o) /\ Ordered(o) /\ NoMetas(o) /\ Once(o)
        BY <1>2, <1>9, <1>10
      <3> QED
        BY <2>2, <3>1, PagesKeep, ZenonT(60)
    <2> QED
      BY <2>1, <2>3
  <1>12. HoldsIn(t, n + 1, p)
    BY <1>4, <1>5, <1>6 DEF HoldsIn
  <1>13. PageIn(s, t, n + 1, p)
    <2> SUFFICES ASSUME NEW i \in 1..Len(s.pages[p])
                 PROVE  ItemIn(t, s.pages[p][i], to[i])
      BY <1>2, <1>4, <1>6, <1>12 DEF PageIn
    <2>1. i \in 1..w[l].i - 1
      BY <1>2
    <2>2. ItemIn(o, s.pages[p][i], to[i])
      BY <1>1, <1>10, <2>1 DEF Behind
    <2> QED
      BY <1>7, <2>2, GrownItem
  <1>14. AllWhole(s, t)
    <2> SUFFICES ASSUME NEW k \in 1..n + 1, t[k].of \in DOMAIN s.pages
                 PROVE  PageIn(s, t, k, t[k].of)
      BY <1>5 DEF AllWhole
    <2>1. CASE k \in 1..n
      <3>1. PageIn(s, o, k, t[k].of)
        BY <1>1, <1>6, <1>10, <2>1 DEF AllWhole
      <3> QED
        BY <1>7, <3>1, GrownPage
    <2>2. CASE k = n + 1
      BY <1>4, <1>6, <1>13, <2>2
    <2> QED
      BY <2>1, <2>2
  <1>15. \A d \in 1..l - 1 : w[d].at # p
    BY <1>1 DEF WalkIn
  <1>16. n + 1 \in 1..Len(t) /\ t[n + 1].of = p
    BY <1>4, <1>5, <1>6
  <1>17. CASE l = 1
    <2>1. v = <<>> /\ Len(v) = 0
      BY <1>17
    <2>2. WalkIn(s, v)
      BY <2>1 DEF WalkIn
    <2>3. p = s.root
      BY <1>17 DEF WalkIn
    <2>4. ASSUME NEW r, NEW j \in Nat, Visited(w, o, r, j)
          PROVE  Visited(v, t, r, j)
      <3>1. ASSUME NEW k \in 1..Len(o), o[k].of = r
            PROVE  Visited(v, t, r, j)
        <4>1. k \in 1..Len(t) /\ t[k].of = r
          BY <1>1, <1>5, <1>6, <3>1
        <4> QED
          BY <4>1 DEF Visited
      <3>2. ASSUME NEW c \in 1..Len(w), w[c].at = r
            PROVE  Visited(v, t, r, j)
        <4>1. r = p
          BY <1>17, <3>2
        <4> QED
          BY <1>16, <4>1 DEF Visited
      <3> QED
        BY <2>4, <3>1, <3>2 DEF Visited
    <2>5. ASSUME NEW r \in DOMAIN s.pages, NEW j \in 1..Len(s.pages[r]),
                 s.pages[r][j].to = p
          PROVE  Visited(v, t, r, j)
      BY <1>2, <2>3, <2>5, LeadsBelow
    <2>6. Ahead(v, t) /\ Led(s, v, t)
      <3>1. /\ Len(v) \in Nat /\ Len(v) <= Len(w)
            /\ \A d \in 1..Len(v) : v[d].at = w[d].at /\ w[d].at # p
        BY <1>1, <2>1
      <3> QED
        BY <1>8, <1>10, <2>2, <2>4, <2>5, <3>1, WalkKeeps
    <2>7. Behind(s, v, t)
      BY <2>1 DEF Behind
    <2> QED
      BY <1>11, <1>12, <1>14, <2>2, <2>6, <2>7 DEF OutputOK
  <1>18. CASE l # 1
    <2> DEFINE d == l - 1
               q == w[d].at
               i == w[d].i
    <2>1. Advanced(w, v, d, n) /\ d \in 1..Len(w) /\ d \in 1..Len(w) - 1 /\ d + 1 = l
          /\ Len(v) = d /\ d \in Nat
      BY <1>1, <1>18, SMTT(30) DEF Advanced
    <2>2. LeadsTo(s, w[d], w[d + 1].at) /\ EntryOK(s, w[d])
      BY <1>1, <2>1 DEF WalkIn
    <2>3. /\ q \in DOMAIN s.pages /\ i \in 1..Len(s.pages[q])
          /\ s.pages[q][i].to = p /\ s.pages[q][i].kind # "big"
      BY <2>1, <2>2 DEF LeadsTo, EntryOK, Advanced
    <2>4. ItemIn(t, s.pages[q][i], n)
      BY <1>2, <1>12, <2>3 DEF ItemIn
    <2>5. \A c \in d + 1..Len(w) : \E k \in 1..Len(t) : t[k].of = w[c].at
      <3>1. \A c \in d + 1..Len(w) : c = l
        <4> HIDE DEF d
        <4> QED
          BY <1>1, <2>1
      <3> QED
        BY <1>16, <3>1
    <2>6. Behind(s, v, t) /\ Visited(v, t, q, i)
          /\ (\A r : \A j \in Nat : Visited(w, o, r, j) => Visited(v, t, r, j))
          /\ \A c \in 1..d : v[c].at = w[c].at
      <3> HIDE DEF d
      <3>1. Seen(s, w, v, d, o, t)
        BY <1>7, <1>10, <2>1, <2>4, <2>5, AdvanceSeen
      <3> QED
        BY <3>1 DEF Seen
    <2>7. WalkIn(s, v)
      <3> HIDE DEF d
      <3> QED
        BY <1>1, <2>1, AdvanceWalk
    <2>8. ASSUME NEW r \in DOMAIN s.pages, NEW j \in 1..Len(s.pages[r]),
                 s.pages[r][j].to = p
          PROVE  Visited(v, t, r, j)
      <3>1. s.pages[r][j].to = s.pages[q][i].to /\ s.pages[r][j].to # NoPage
        BY <1>2, <2>3, <2>8
      <3> HIDE DEF q, i
      <3>2. r = q /\ j = i
        BY <2>3, <3>1, OneParent
      <3> QED
        BY <2>6, <3>2
    <2>9. Ahead(v, t) /\ Led(s, v, t)
      <3>1. /\ Len(v) \in Nat /\ Len(v) <= Len(w)
            /\ \A c \in 1..Len(v) : v[c].at = w[c].at /\ w[c].at # p
        BY <1>1, <1>15, <2>1, <2>6
      <3> QED
        BY <1>8, <1>10, <2>6, <2>7, <2>8, <3>1, WalkKeeps
    <2> QED
      BY <1>11, <1>12, <1>14, <2>6, <2>7, <2>9 DEF OutputOK
  <1> QED
    BY <1>17, <1>18

(***************************************************************************)
(* The steps of the walk.                                                  *)
(***************************************************************************)
LEMMA TopDone ==
    ASSUME NEW w \in Seq(Entries), NEW v, NEW d, d = Len(w), d # 0, NEW n \in Refs,
           w[d].i \in 1..Len(w[d].to), v = [w EXCEPT ![d] = Numbered(w[d], n)]
    PROVE  Advanced(w, v, d, n)
  <1>1. d \in 1..Len(w) /\ d \in Nat
    BY LenProperties
  <1>2. w[d] \in Entries
    BY <1>1, ElementOfSeq
  <1> DEFINE e == Numbered(w[d], n)
  <1>3. e \in Entries /\ Stepped(w[d], e, n)
    BY <1>2, NumberedIs
  <1> HIDE DEF e
  <1>4. /\ v \in Seq(Entries) /\ Len(v) = d
        /\ \A c \in 1..d : v[c] = IF c = d THEN e ELSE w[c]
    BY <1>1, <1>3, ExceptSeq DEF e
  <1>5. v[d] = e /\ \A c \in 1..d - 1 : v[c] = w[c]
    BY <1>1, <1>4
  <1> QED
    BY <1>1, <1>3, <1>4, <1>5 DEF Advanced

(* The last page leaves the walk, and its parent's item is done. *)
LEMMA UpDone ==
    ASSUME NEW w \in Seq(Entries), NEW v, NEW d \in Nat \ {0}, d + 1 = Len(w),
           NEW n \in Refs, w[d].i \in 1..Len(w[d].to),
           NEW u, u = SubSeq(w, 1, Len(w) - 1),
           v = [u EXCEPT ![Len(u)] = Numbered(u[Len(u)], n)]
    PROVE  Advanced(w, v, d, n)
  <1>1. /\ u \in Seq(Entries) /\ Len(u) = d /\ \A c \in 1..d : u[c] = w[c]
    <2>1. \A c \in 1..d : w[c] \in Entries
      BY ElementOfSeq
    <2>2. u = SubSeq(w, 1, d)
      OBVIOUS
    <2>3. /\ SubSeq(w, 1, d) \in Seq(Entries)
          /\ Len(SubSeq(w, 1, d)) = IF 1 <= d THEN d - 1 + 1 ELSE 0
          /\ \A c \in 1..d - 1 + 1 : SubSeq(w, 1, d)[c] = w[1 + c - 1]
      BY <2>1, SubSeqProperties
    <2> QED
      BY <2>2, <2>3
  <1>2. d \in 1..d /\ d \in 1..Len(w)
    OBVIOUS
  <1>3. u[d] = w[d]
    BY <1>1, <1>2
  <1>4. Advanced(u, v, d, n)
    BY <1>1, <1>3, TopDone
  <1> QED
    BY <1>1, <1>2, <1>3, <1>4 DEF Advanced

(* A page that the walk comes to, with nothing of it done. *)
LEMMA EntryIs ==
    ASSUME NEW s, IsTree(s), NEW p \in DOMAIN s.pages
    PROVE  /\ Entry(s, p) \in Entries /\ EntryOK(s, Entry(s, p))
           /\ Entry(s, p).at = p /\ Entry(s, p).i = 1
  <1> DEFINE q == s.pages[p]
             to == [k \in DOMAIN q |-> q[k].to]
  <1>1. q \in Seq(Items) /\ p \in Nat
    BY DEF IsTree
  <1>2. DOMAIN q = 1..Len(q) /\ Len(q) \in Nat
    BY <1>1, LenProperties
  <1>3. \A k \in 1..Len(q) : q[k].to \in Refs
    <2> TAKE k \in 1..Len(q)
    <2>1. q[k] \in Items
      BY <1>1, ElementOfSeq
    <2> QED
      BY <2>1 DEF Items, Refs
  <1>4. /\ to \in Seq(Refs) /\ Len(to) = Len(q) /\ \A k \in 1..Len(q) : to[k] = q[k].to
    <2> DEFINE m == Len(q)
    <2>1. to = [k \in 1..m |-> q[k].to] /\ m \in Nat
      BY <1>2
    <2> HIDE DEF m, to
    <2>2. \A k \in 1..m : q[k].to \in Refs
      BY <1>3 DEF m
    <2> HIDE DEF q
    <2> QED
      BY <2>1, <2>2 DEF m
  <1> HIDE DEF to
  <1>5. Entry(s, p) = [at |-> p, i |-> 1, to |-> to]
    BY DEF Entry, to
  <1> QED
    BY <1>1, <1>2, <1>4, <1>5 DEF Entries, EntryOK

(* Descend passes over an item without a page, or goes down to it. *)
LEMMA DescendIs ==
    ASSUME TxnOK, WalkOK, Descend
    PROVE  /\ Item.to = NoPage => Advanced(walk, walk', Len(walk), NoPage)
           /\ Item.to # NoPage => Pushed(snap, walk, walk', Item.to)
  <1>1. pc["walker"] = "walk" /\ ~Finished /\ Item.kind \in {"child", "sub"}
        /\ walk' = IF Item.to = NoPage
                   THEN [walk EXCEPT ![Len(walk)] = Numbered(@, NoPage)]
                   ELSE Append(walk, Entry(snap, Item.to))
    BY DEF Descend
  <1>2. /\ walk \in Seq(Entries) /\ Len(walk) \in Nat \ {0} /\ IsTree(snap)
        /\ walk[Len(walk)].i \in 1..Len(walk[Len(walk)].to)
    BY <1>1, TopIs, ItemIs DEF WalkOK, WalkIn, Top
  <1>3. CASE Item.to = NoPage
    <2>1. walk' = [walk EXCEPT ![Len(walk)] = Numbered(walk[Len(walk)], NoPage)]
      BY <1>1, <1>3
    <2> QED
      BY <1>2, <1>3, <2>1, TopDone DEF Refs
  <1>4. CASE Item.to # NoPage
    <2>1. Item.to \in DOMAIN snap.pages
      BY <1>1, <1>4, ItemIs
    <2> DEFINE e == Entry(snap, Item.to)
    <2>2. e \in Entries /\ EntryOK(snap, e) /\ e.at = Item.to /\ e.i = 1
      BY <1>2, <2>1, EntryIs
    <2> HIDE DEF e
    <2>3. walk' = Append(walk, e)
      BY <1>1, <1>4 DEF e
    <2>4. /\ walk' \in Seq(Entries) /\ Len(walk') = Len(walk) + 1
          /\ \A d \in 1..Len(walk) : walk'[d] = walk[d]
          /\ walk'[Len(walk) + 1] = e
      BY <1>2, <2>2, <2>3, AppendProperties
    <2> QED
      BY <1>4, <2>2, <2>4 DEF Pushed
  <1> QED
    BY <1>3, <1>4

(* The walk begins at the root. *)
LEMMA RootPushed ==
    ASSUME NEW s \in Snapshots, s.root # NoPage
    PROVE  Pushed(s, <<>>, <<Entry(s, s.root)>>, s.root)
  <1>1. IsTree(s)
    BY CopyAssumption
  <1>2. s.root \in DOMAIN s.pages
    BY <1>1 DEF IsTree
  <1> DEFINE e == Entry(s, s.root)
  <1>3. e \in Entries /\ EntryOK(s, e) /\ e.at = s.root /\ e.i = 1
    BY <1>1, <1>2, EntryIs
  <1> HIDE DEF e
  <1>4. <<e>> \in Seq(Entries) /\ Len(<<e>>) = 1 /\ <<e>>[1] = e
    BY <1>3
  <1>5. Pushed(s, <<>>, <<e>>, s.root)
    BY <1>3, <1>4 DEF Pushed
  <1> QED
    BY <1>5 DEF e

(* CopyBig is done with its item. *)
LEMMA CopyBigWalk ==
    ASSUME TxnOK, WalkOK, CopyBig
    PROVE  Advanced(walk, walk', Len(walk), nextPgno)
  <1>1. pc["walker"] = "walk" /\ ~Finished
        /\ walk' = [walk EXCEPT ![Len(walk)] = Numbered(walk[Len(walk)], nextPgno)]
    BY DEF CopyBig
  <1>2. /\ walk \in Seq(Entries) /\ Len(walk) \in Nat \ {0} /\ nextPgno \in Refs
        /\ walk[Len(walk)].i \in 1..Len(walk[Len(walk)].to)
    BY <1>1, TopIs, ItemIs DEF WalkOK, WalkIn, Top, Refs
  <1> QED
    BY <1>1, <1>2, TopDone

(* Emit is done with the page, and with the item that led to it. *)
LEMMA EmitWalk ==
    ASSUME TxnOK, WalkOK, Emit
    PROVE  /\ Len(walk) = 1 => walk' = <<>>
           /\ Len(walk) # 1 => Advanced(walk, walk', Len(walk) - 1, nextPgno)
  <1> DEFINE up == SubSeq(walk, 1, Len(walk) - 1)
  <1>1. /\ pc["walker"] = "walk"
        /\ up = <<>> => walk' = up
        /\ up # <<>> => walk' = [up EXCEPT ![Len(up)] = Numbered(up[Len(up)], nextPgno)]
    BY DEF Emit
  <1>2. /\ walk \in Seq(Entries) /\ Len(walk) \in Nat \ {0} /\ nextPgno \in Refs
        /\ WalkIn(snap, walk)
    BY <1>1, TopIs DEF WalkOK, WalkIn, Refs
  <1>3. CASE Len(walk) = 1
    <2>1. up = <<>>
      BY <1>3, SubSeqEmpty
    <2> QED
      BY <1>1, <1>3, <2>1
  <1>4. CASE Len(walk) # 1
    <2> DEFINE d == Len(walk) - 1
    <2>1. d \in Nat \ {0} /\ d + 1 = Len(walk) /\ d \in 1..Len(walk) - 1
          /\ d \in 1..Len(walk)
      <3>1. PICK l \in Nat : l = Len(walk) /\ l # 0 /\ l # 1
        BY <1>2, <1>4
      <3>2. /\ l - 1 \in Nat \ {0} /\ (l - 1) + 1 = l /\ l - 1 \in 1..l - 1
            /\ l - 1 \in 1..l
        BY <3>1
      <3> QED
        BY <3>1, <3>2
    <2>2. LeadsTo(snap, walk[d], walk[d + 1].at) /\ EntryOK(snap, walk[d])
      BY <1>2, <2>1 DEF WalkIn
    <2>3. walk[d].i \in 1..Len(walk[d].to)
      <3>1. walk[d].at \in DOMAIN snap.pages /\ IsTree(snap)
        BY <1>1, <2>2, TopIs DEF EntryOK
      <3>2. snap.pages[walk[d].at] \in Seq(Items)
        BY <3>1 DEF IsTree
      <3>3. DOMAIN snap.pages[walk[d].at] = 1..Len(snap.pages[walk[d].at])
        BY <3>2, LenProperties
      <3> QED
        BY <2>2, <3>3 DEF LeadsTo, EntryOK
    <2>4. up # <<>>
      <3>1. \A c \in 1..d : walk[c] \in Entries
        BY <1>2, ElementOfSeq
      <3>2. Len(SubSeq(walk, 1, d)) = IF 1 <= d THEN d - 1 + 1 ELSE 0
        BY <2>1, <3>1, SubSeqProperties
      <3>3. up = SubSeq(walk, 1, d) /\ Len(<<>>) = 0
        OBVIOUS
      <3> HIDE DEF up, d
      <3> QED
        BY <2>1, <3>2, <3>3
    <2>5. walk' = [up EXCEPT ![Len(up)] = Numbered(up[Len(up)], nextPgno)]
      BY <1>1, <2>4
    <2> HIDE DEF up, d
    <2>6. Advanced(walk, walk', d, nextPgno)
      BY <1>2, <2>1, <2>3, <2>5, UpDone DEF up
    <2> QED
      BY <1>4, <2>6 DEF d
  <1> QED
    BY <1>3, <1>4

(***************************************************************************)
(* Every step but four leaves the walk where it is; none makes up for an   *)
(* error, and the copy is not over before it was.                          *)
(***************************************************************************)
On == \/ pc["walker"] = "walk"
      \/ pc["walker"] \in {"give", "given"} \cup Waiting /\ adjust = 1
Stays ==
    /\ UNCHANGED <<snap, walk, nextPgno>> /\ (txn' => txn) /\ (On' => On)
    /\ pc'["walker"] \in {"off", "begin"} => pc["walker"] \in {"off", "begin"}
    /\ error' = "ok" =>
         /\ error = "ok" /\ (txn' /\ Over' => Over)
         /\ pc'["walker"] = "done" /\ rc' = "ok" => Join
LEMMA WalkStays ==
    ASSUME SyncInv, CopyNext, ~Begin, ~Descend, ~CopyBig, ~Emit
    PROVE  Stays
  <1>0. HeldBy /\ Counted
    BY DEF SyncInv
  <1> USE DEF Waiting, WalkerAt, WriterAt, Threads, Goes, EOF
  <1>1. CASE Start
    BY <1>0, <1>1 DEF Start, shared, writer, HeldBy, Counted, Stays, On, Over
  <1>2. CASE Fail
    BY <1>0, <1>2 DEF Fail, shared, writer, HeldBy, Counted, Stays, On, Over
  <1>3. CASE FullBuffer
    BY <1>0, <1>3
    DEF FullBuffer, shared, writer, HeldBy, Counted, Stays, On, Over
  <1>4. CASE Finish
    BY <1>0, <1>4 DEF Finish, writer, HeldBy, Counted, Stays, On, Over
  <1>5. CASE Give
    BY <1>0, <1>5
    DEF Give, SignalAndGo, Other, walker, writer, HeldBy, Counted, Stays, On,
        Over
  <1>6. CASE Given
    BY <1>0, <1>6 DEF Given, walker, writer, HeldBy, Counted, Stays, On, Over
  <1>7. CASE Turn
    BY <1>0, <1>7 DEF Turn, writer, HeldBy, Counted, Stays, On, Over
  <1>8. CASE Join
    BY <1>0, <1>8 DEF Join, shared, writer, HeldBy, Counted, Stays, On, Over
  <1>9. CASE Release("walker")
    BY <1>0, <1>9
    DEF Release, Blocks, walker, writer, HeldBy, Counted, Stays, On, Over
  <1>10. CASE Block("walker")
    BY <1>0, <1>10
    DEF Block, Blocks, walker, writer, HeldBy, Counted, Stays, On, Over
  <1>11. CASE Take
    BY <1>0, <1>11 DEF Take, LoopHead, walker, HeldBy, Counted, Stays, On, Over
  <1>12. CASE Write
    BY <1>0, <1>12 DEF Write, walker, HeldBy, Counted, Stays, On, Over
  <1>13. CASE WriteTail
    BY <1>0, <1>13 DEF WriteTail, walker, HeldBy, Counted, Stays, On, Over
  <1>14. CASE Written
    BY <1>0, <1>14
    DEF Written, SignalAndGo, LoopHead, Other, walker, HeldBy, Counted, Stays,
        On, Over
  <1>15. CASE Release("writer")
    BY <1>0, <1>15
    DEF Release, Blocks, walker, writer, HeldBy, Counted, Stays, On, Over
  <1>16. CASE Block("writer")
    BY <1>0, <1>16
    DEF Block, Blocks, walker, writer, HeldBy, Counted, Stays, On, Over
  <1> QED
    BY <1>1, <1>2, <1>3, <1>4, <1>5, <1>6, <1>7, <1>8, <1>9, <1>10, <1>11,
       <1>12, <1>13, <1>14, <1>15, <1>16
    DEF CopyNext, WalkerStep, WriterStep

(* The walk stays a way down the tree. *)
LEMMA WalkInd ==
    ASSUME SyncInv, BuffersOK, TxnOK, TxnOK', WalkOK, CopyNext
    PROVE  WalkOK'
  <1>0. HeldBy /\ Counted
    BY DEF SyncInv
  <1> USE DEF Waiting, WalkerAt, WriterAt, Threads, Goes, EOF
  <1>1. CASE Begin
    <2>1. /\ snap' \in Snapshots /\ UNCHANGED <<nextPgno, adjust>>
          /\ pc["walker"] = "begin" /\ pc'["walker"] \in {"walk", "finish"}
          /\ snap'.root = NoPage => walk' = <<>> /\ pc'["walker"] = "finish"
          /\ snap'.root # NoPage => walk' = <<Entry(snap', snap'.root)>>
      BY <1>0, <1>1 DEF Begin, HeldBy
    <2>2. WalkIn(snap', walk')
      <3>1. CASE snap'.root = NoPage
        BY <2>1, <3>1 DEF WalkIn
      <3>2. CASE snap'.root # NoPage
        <4>1. PICK s \in Snapshots : s = snap'
          BY <2>1
        <4>2. PICK w : w = walk'
          OBVIOUS
        <4>3. Pushed(s, <<>>, w, s.root)
          BY <2>1, <3>2, <4>1, <4>2, RootPushed
        <4>4. s.root \in DOMAIN s.pages
          BY <3>2, <4>1, CopyAssumption DEF IsTree
        <4> QED
          BY <4>1, <4>2, <4>3, <4>4, OutBegins
      <3> QED
        BY <3>1, <3>2
    <2>3. walk' # <<>> \/ pc'["walker"] = "finish"
      BY <2>1
    <2> QED
      BY <2>1, <2>2, <2>3 DEF WalkOK
  <1>2. CASE Descend
    <2>1. /\ pc["walker"] = "walk" /\ ~Finished /\ Item.kind \in {"child", "sub"}
          /\ UNCHANGED <<snap, txn, nextPgno, pc, adjust>>
      BY <1>2 DEF Descend
    <2>2. /\ WalkIn(snap, walk) /\ IsTree(snap) /\ walk # <<>>
          /\ NoPage \in Refs /\ nextPgno \in Nat /\ snap \in Snapshots
      BY <2>1, TopIs DEF WalkOK, Refs
    <2>3. WalkIn(snap, walk') /\ walk' # <<>>
      <3> PICK s, w, v : s = snap /\ w = walk /\ v = walk'
        OBVIOUS
      <3>1. CASE Item.to = NoPage
        <4>1. Advanced(w, v, Len(w), NoPage)
          BY <1>2, <3>1, DescendIs
        <4>2. WalkIn(s, v)
          BY <2>2, <4>1, AdvanceWalk
        <4>3. Len(v) = Len(w) /\ Len(w) # 0
          BY <2>1, <4>1, TopIs DEF Advanced
        <4> QED
          BY <4>2, <4>3
      <3>2. CASE Item.to # NoPage
        <4>1. Pushed(s, w, v, Item.to)
          BY <1>2, <3>2, DescendIs
        <4>2. /\ Item.to \in DOMAIN s.pages /\ Item.to # s.root
              /\ LeadsTo(s, w[Len(w)], Item.to)
          BY <2>1, <3>2, ItemIs DEF LeadsTo, Top
        <4>3. PICK p : p = Item.to
          OBVIOUS
        <4>4. WalkIn(s, v)
          BY <2>2, <4>1, <4>2, <4>3, PushWalk
        <4>5. Len(v) = Len(w) + 1 /\ Len(w) \in Nat
          BY <2>1, <4>1, TopIs DEF Pushed
        <4> QED
          BY <4>4, <4>5
      <3> QED
        BY <3>1, <3>2
    <2> QED
      BY <2>1, <2>2, <2>3 DEF WalkOK
  <1>3. CASE CopyBig
    <2>1. /\ pc["walker"] = "walk" /\ ~Finished /\ UNCHANGED <<snap, txn>>
          /\ nextPgno' = nextPgno + Item.n /\ pc'["walker"] \in {"walk", "give"}
      BY <1>0, <1>3 DEF CopyBig, HandOverTail, HeldBy
    <2>2. /\ WalkIn(snap, walk) /\ IsTree(snap) /\ walk # <<>> /\ snap \in Snapshots
          /\ nextPgno \in Refs /\ nextPgno \in Nat /\ Item.n \in Nat
      BY <2>1, TopIs, ItemIs DEF WalkOK, Refs
    <2>3. WalkIn(snap, walk') /\ walk' # <<>>
      <3> PICK s, w, v, n : s = snap /\ w = walk /\ v = walk' /\ n = nextPgno
        OBVIOUS
      <3>1. Advanced(w, v, Len(w), n)
        BY <1>3, CopyBigWalk
      <3>2. WalkIn(s, v)
        BY <2>2, <3>1, AdvanceWalk
      <3>3. Len(v) = Len(w) /\ Len(w) # 0
        BY <2>1, <3>1, TopIs DEF Advanced
      <3> QED
        BY <3>2, <3>3
    <2> QED
      BY <2>1, <2>2, <2>3 DEF WalkOK
  <1>4. CASE Emit
    <2>1. /\ pc["walker"] = "walk" /\ UNCHANGED <<snap, txn>>
          /\ nextPgno' = nextPgno + 1 /\ pc'["walker"] \in {"walk", "finish"}
          /\ walk' = <<>> => pc'["walker"] = "finish"
      <3> DEFINE up == SubSeq(walk, 1, Len(walk) - 1)
      <3>1. /\ pc["walker"] = "walk" /\ UNCHANGED <<snap, txn>>
            /\ nextPgno' = nextPgno + 1 /\ pc'["walker"] \in {"walk", "finish"}
            /\ up = <<>> => pc'["walker"] = "finish"
        BY <1>0, <1>4 DEF Emit, HeldBy
      <3>2. walk' = <<>> => up = <<>>
        <4>1. Len(walk) = 1 => up = <<>>
          BY SubSeqEmpty
        <4>2. CASE Len(walk) # 1
          <5>1. Advanced(walk, walk', Len(walk) - 1, nextPgno)
            BY <1>4, <4>2, EmitWalk
          <5>2. Len(walk') = Len(walk) - 1
            BY <5>1 DEF Advanced
          <5>3. Len(walk) \in Nat \ {0} /\ Len(<<>>) = 0
            BY <3>1, TopIs
          <5> QED
            BY <4>2, <5>2, <5>3
        <4> QED
          BY <4>1, <4>2
      <3> QED
        BY <3>1, <3>2
    <2>2. /\ WalkIn(snap, walk) /\ IsTree(snap) /\ snap \in Snapshots
          /\ nextPgno \in Refs /\ nextPgno \in Nat
      BY <2>1, TopIs DEF WalkOK, Refs
    <2>3. WalkIn(snap, walk')
      <3> PICK s, w, v, n : s = snap /\ w = walk /\ v = walk' /\ n = nextPgno
        OBVIOUS
      <3>1. CASE Len(w) = 1
        BY <1>4, <3>1, EmitWalk DEF WalkIn
      <3>2. CASE Len(w) # 1
        <4>1. PICK d : d = Len(w) - 1
          OBVIOUS
        <4>2. Advanced(w, v, d, n)
          BY <1>4, <3>2, <4>1, EmitWalk
        <4>3. WalkIn(s, v)
          BY <2>2, <4>2, AdvanceWalk
        <4> QED
          BY <4>3
      <3> QED
        BY <3>1, <3>2
    <2> QED
      BY <2>1, <2>2, <2>3 DEF WalkOK
  <1>5. CASE ~Begin /\ ~Descend /\ ~CopyBig /\ ~Emit
    <2>1. Stays
      BY <1>5, WalkStays
    <2> QED
      BY <2>1 DEF Stays, WalkOK, On
  <1> QED
    BY <1>1, <1>2, <1>3, <1>4, <1>5

(***************************************************************************)
(* Every step keeps what has been copied whole.                            *)
(***************************************************************************)
LEMMA NothingYet ==
    ASSUME SyncInv, BuffersOK, TxnOK, ~txn, pc["walker"] # "done"
    PROVE  All = <<>>
  <1>1. /\ hand \in {0, 1} /\ turn \in {0, 1} /\ 1 - turn \in {0, 1}
        /\ \A b \in {0, 1} : buf[b] = <<>> /\ over[b] = <<>>
        /\ left = <<>> /\ file = <<>>
    BY DEF SyncInv, Toggles, TxnOK
  <1>2. Front = <<>> /\ Back = <<>> /\ Mine = <<>>
    BY <1>1 DEF Front, Back, Mine, Queued
  <1>3. All = file \o ((Front \o Back) \o Mine)
    BY PartsAre DEF Parts
  <1> QED
    BY <1>1, <1>2, <1>3
NothingThere == SyncInv /\ BuffersOK /\ TxnOK /\ ~txn /\ pc["walker"] # "done"
AllIsEmpty == All = <<>>
(* The same after a step. *)
LEMMA NothingYetNext == NothingThere' => AllIsEmpty'
  <1>1. NothingThere => AllIsEmpty
    BY NothingYet DEF NothingThere, AllIsEmpty
  <1> QED
    BY <1>1, PTL

(* When both threads have ended, nothing waits. *)
LEMMA AllWritten ==
    ASSUME SyncInv, BuffersOK, pc["walker"] = "done", pc["writer"] = "exit"
    PROVE  All = file
  <1>1. Front = <<>> /\ Back = <<>> /\ Mine = <<>>
    BY DEF SyncInv, Counted, Front, Back, Mine
  <1>2. All = file \o ((Front \o Back) \o Mine) /\ file \in Seq(AnyImage)
    BY PartsAre DEF Parts
  <1> QED
    BY <1>1, <1>2
BothEnded == /\ SyncInv /\ BuffersOK
             /\ pc["walker"] = "done" /\ pc["writer"] = "exit"
AllIsFile == All = file
(* The same after a step. *)
LEMMA AllWrittenNext == BothEnded' => AllIsFile'
  <1>1. BothEnded => AllIsFile
    BY AllWritten DEF BothEnded, AllIsFile
  <1> QED
    BY <1>1, PTL

(* Begin. *)
LEMMA AfterBegin ==
    ASSUME SyncInv, SyncInv', BuffersOK, BuffersOK', TxnOK, WalkOK, Begin
    PROVE  /\ OutputOK(snap', walk', nextPgno', All')
           /\ txn' /\ (Over' => WholeIn(snap', All')) /\ pc'["walker"] # "done"
  <1>1. All' = Metas(snap')
    BY BeginIs
  <1>2. /\ snap' \in Snapshots /\ UNCHANGED <<nextPgno, adjust>> /\ txn'
        /\ pc["walker"] = "begin" /\ pc'["walker"] \in {"walk", "finish"}
        /\ snap'.root = NoPage => walk' = <<>>
        /\ snap'.root # NoPage => walk' = <<Entry(snap', snap'.root)>>
                                  /\ pc'["walker"] = "walk"
    BY DEF SyncInv, HeldBy, Begin, Threads, Goes
  <1>3. nextPgno' = 2
    BY <1>2 DEF WalkOK
  <1>4. OutputOK(snap', walk', 2, Metas(snap'))
    <2>1. PICK s \in Snapshots : s = snap'
      BY <1>2
    <2> PICK w : w = walk'
      OBVIOUS
    <2>2. w = <<>> \/ Pushed(s, <<>>, w, s.root)
      BY <1>2, <2>1, RootPushed
    <2>3. w # <<>> => s.root \in DOMAIN s.pages
      BY <1>2, <2>1, CopyAssumption DEF IsTree
    <2>4. OutputOK(s, w, 2, Metas(s))
      BY <2>2, <2>3, OutBegins
    <2> QED
      BY <2>1, <2>4
  <1>5. Over' => WholeIn(snap', All')
    <2> SUFFICES ASSUME Over'
                 PROVE  WholeIn(snap', All')
      OBVIOUS
    <2>1. pc'["walker"] = "finish"
      BY <1>2 DEF Over, Waiting
    <2>2. snap'.root = NoPage
      BY <1>2, <2>1
    <2>3. Len(Metas(snap')) = 2
      BY <1>2, MetasAre
    <2> QED
      BY <1>1, <2>2, <2>3 DEF WholeIn
  <1> QED
    BY <1>1, <1>2, <1>3, <1>4, <1>5

(* Descend. *)
LEMMA AfterDescend ==
    ASSUME TxnOK, WalkOK, Descend, OutputOK(snap, walk, nextPgno, All)
    PROVE  OutputOK(snap, walk', nextPgno, All)
  <1>1. pc["walker"] = "walk" /\ ~Finished /\ Item.kind \in {"child", "sub"}
    BY DEF Descend
  <1> PICK s, w, v, n, o : /\ s = snap /\ w = walk /\ v = walk' /\ n = nextPgno
                           /\ o = All
    OBVIOUS
  <1>2. /\ WalkIn(s, w) /\ IsTree(s) /\ w # <<>> /\ OutputOK(s, w, n, o)
        /\ w[Len(w)].i \in 1..Len(w[Len(w)].to)
        /\ Item = s.pages[w[Len(w)].at][w[Len(w)].i]
    BY <1>1, TopIs, ItemIs DEF WalkOK, Top
  <1>3. CASE Item.to = NoPage
    <2>1. Advanced(w, v, Len(w), NoPage)
      BY <1>3, DescendIs
    <2>2. OutputOK(s, v, n, o)
      BY <1>2, <1>3, <2>1, SkipOut
    <2> QED
      BY <2>2
  <1>4. CASE Item.to # NoPage
    <2>1. Pushed(s, w, v, s.pages[w[Len(w)].at][w[Len(w)].i].to)
      BY <1>2, <1>4, DescendIs
    <2>2. OutputOK(s, v, n, o)
      BY <1>2, <1>4, <2>1, PushOut
    <2> QED
      BY <2>2
  <1> QED
    BY <1>3, <1>4

(* CopyBig. *)
LEMMA AfterBig ==
    ASSUME SyncInv, SyncInv', BuffersOK, BuffersOK', TxnOK, WalkOK, CopyBig,
           OutputOK(snap, walk, nextPgno, All)
    PROVE  OutputOK(snap', walk', nextPgno', All') /\ ~Over' /\ pc'["walker"] # "done"
  <1>1. /\ pc["walker"] = "walk" /\ ~Finished /\ Item.kind = "big"
        /\ snap' = snap /\ nextPgno' = nextPgno + Item.n
        /\ \/ pc'["walker"] = "walk"
           \/ pc'["walker"] = "give" /\ adjust' = 1
    BY DEF SyncInv, HeldBy, CopyBig, HandOverTail, Threads, Goes
  <1> PICK s, w, v, n, o, t, item, p, m :
            /\ s = snap /\ w = walk /\ v = walk' /\ n = nextPgno /\ o = All
            /\ t = All' /\ item = Item /\ p = Item.to /\ m = Item.n
    OBVIOUS
  <1>2. /\ WalkIn(s, w) /\ IsTree(s) /\ w # <<>> /\ OutputOK(s, w, n, o)
        /\ w[Len(w)].i \in 1..Len(w[Len(w)].to)
        /\ item = s.pages[w[Len(w)].at][w[Len(w)].i]
        /\ n \in Nat /\ p \in Nat /\ m \in Nat \ {0}
        /\ item.kind = "big" /\ item.to = p /\ item.n = m
    BY <1>1, TopIs, ItemIs DEF WalkOK, Top
  <1>3. Added(o, t, Chunk(p, m, n))
    BY CopyBigIs
  <1>4. Advanced(w, v, Len(w), n)
    BY CopyBigWalk
  <1>5. OutputOK(s, v, n + m, t)
    BY <1>2, <1>3, <1>4, BigOut
  <1>6. ~Over' /\ pc'["walker"] # "done"
    BY <1>1 DEF Over, Waiting
  <1> QED
    BY <1>1, <1>5, <1>6

(* Emit: if it was the root, the copy is whole. *)
LEMMA AfterEmit ==
    ASSUME SyncInv, SyncInv', BuffersOK, BuffersOK', TxnOK, WalkOK, Emit,
           OutputOK(snap, walk, nextPgno, All)
    PROVE  /\ OutputOK(snap', walk', nextPgno', All')
           /\ (Over' => WholeIn(snap', All')) /\ pc'["walker"] # "done"
  <1>1. /\ pc["walker"] = "walk" /\ Finished /\ snap' = snap
        /\ nextPgno' = nextPgno + 1
        /\ \/ pc'["walker"] = "walk"
           \/ /\ pc'["walker"] = "finish" /\ SubSeq(walk, 1, Len(walk) - 1) = <<>>
              /\ rc' = IF nextPgno # NewRoot(snap) THEN "incompatible" ELSE "ok"
    BY DEF SyncInv, HeldBy, Emit, Threads, Goes
  <1> PICK s, w, v, n, o, t, p, to :
            /\ s = snap /\ w = walk /\ v = walk' /\ n = nextPgno /\ o = All
            /\ t = All' /\ p = Top.at /\ to = Top.to
    OBVIOUS
  <1>2. /\ WalkIn(s, w) /\ IsTree(s) /\ w # <<>> /\ OutputOK(s, w, n, o)
        /\ EntryOK(s, w[Len(w)]) /\ n \in Nat /\ Len(w) \in Nat \ {0}
        /\ p = w[Len(w)].at /\ to = w[Len(w)].to
    BY <1>1, TopIs DEF WalkOK, Top
  <1>3. w[Len(w)].i = Len(w[Len(w)].to) + 1
    <2>1. w[Len(w)].i > Len(w[Len(w)].to)
      BY <1>1 DEF Finished, Top
    <2>2. /\ w[Len(w)].i <= Len(w[Len(w)].to) + 1 /\ w[Len(w)].i \in Nat
          /\ w[Len(w)].to \in Seq(Refs)
      BY <1>2 DEF EntryOK
    <2>3. Len(w[Len(w)].to) \in Nat
      BY <2>2, LenProperties
    <2> QED
      BY <2>1, <2>2, <2>3
  <1>4. Added(o, t, <<Image(p, 0, n, to)>>)
    BY EmitIs
  <1>5. IF Len(w) = 1 THEN v = <<>> ELSE Advanced(w, v, Len(w) - 1, n)
    BY EmitWalk
  <1>6. OutputOK(s, v, n + 1, t) /\ HoldsIn(t, n + 1, p)
    BY <1>2, <1>3, <1>4, <1>5, EmitOut
  <1>7. Over' => WholeIn(s, t)
    <2> SUFFICES ASSUME Over'
                 PROVE  WholeIn(s, t)
      OBVIOUS
    <2>1. /\ pc'["walker"] = "finish" /\ rc' = "ok"
          /\ SubSeq(walk, 1, Len(walk) - 1) = <<>>
      BY <1>1 DEF Over, Waiting
    <2>2. n = NewRoot(s)
      BY <1>1, <2>1
    <2>3. Len(w) = 1
      <3> SUFFICES ASSUME Len(w) # 1
                   PROVE  FALSE
        OBVIOUS
      <3>0. PICK l \in Nat : l = Len(w) /\ l # 0 /\ l # 1
        BY <1>2
      <3>1. PICK d \in Nat \ {0} : d = Len(w) - 1
        BY <3>0
      <3>2. d \in 1..Len(w) /\ w \in Seq(Entries)
        BY <1>2, <3>1 DEF WalkIn
      <3>3. \A c \in 1..d : w[c] \in Entries
        BY <1>2, <3>1, <3>2, ElementOfSeq
      <3>4. Len(SubSeq(w, 1, d)) = IF 1 <= d THEN d - 1 + 1 ELSE 0
        BY <3>1, <3>3, SubSeqProperties
      <3>5. SubSeq(w, 1, d) = <<>> /\ Len(<<>>) = 0
        BY <2>1, <3>1
      <3> QED
        BY <3>1, <3>4, <3>5
    <2>4. p = s.root /\ s.root # NoPage
      <3>1. p = s.root /\ p \in DOMAIN s.pages
        BY <1>2, <2>3 DEF WalkIn, EntryOK
      <3> QED
        BY <1>2, <3>1, CopyAssumption DEF IsTree
    <2>5. Len(t) = n + 1
      BY <1>6 DEF OutputOK, Begun
    <2> QED
      BY <1>2, <1>6, <2>2, <2>4, <2>5 DEF WholeIn
  <1>8. pc'["walker"] # "done"
    BY <1>1
  <1> QED
    BY <1>1, <1>6, <1>7, <1>8

(* Every step of the two threads. *)
LEMMA CompactedInd ==
    ASSUME SyncInv, SyncInv', BuffersOK, BuffersOK', TxnOK, TxnOK', WalkOK, WalkOK',
           Returns, CopiedOK, CopyNext
    PROVE  CopiedOK'
  <1> SUFFICES ASSUME error' = "ok"
               PROVE  CopiedOK'
    BY DEF CopiedOK
  <1>1. ~txn' /\ pc'["walker"] # "done" => All' = <<>>
    BY NothingYetNext DEF NothingThere, AllIsEmpty
  <1>2. ASSUME txn', OutputOK(snap', walk', nextPgno', All'),
               Over' => WholeIn(snap', All'), pc'["walker"] # "done"
        PROVE  CopiedOK'
    BY <1>2 DEF CopiedOK, OutputOK
  <1>3. CASE Begin
    BY <1>2, <1>3, AfterBegin
  <1>4. CASE CopyBig \/ Emit \/ Descend
    <2>1. txn /\ txn' /\ error = "ok"
      BY <1>4 DEF CopyBig, Emit, Descend, TxnOK, shared
    <2>2. OutputOK(snap, walk, nextPgno, All)
      BY <2>1 DEF CopiedOK
    <2>3. CASE CopyBig
      BY <1>2, <2>1, <2>2, <2>3, AfterBig
    <2>4. CASE Emit
      BY <1>2, <2>1, <2>2, <2>4, AfterEmit
    <2>5. CASE Descend
      <3>1. /\ pc["walker"] = "walk" /\ pc'["walker"] = "walk"
            /\ UNCHANGED <<snap, nextPgno>>
        BY <2>5 DEF Descend
      <3>2. All' = All
        <4>1. ~Begin /\ ~CopyBig /\ ~Emit
          BY <2>5 DEF Begin, CopyBig, Emit, Descend
        <4> QED
          BY <4>1, HandsOn
      <3>3. OutputOK(snap, walk', nextPgno, All)
        BY <2>2, <2>5, AfterDescend
      <3>4. OutputOK(snap', walk', nextPgno', All')
        BY <3>1, <3>2, <3>3
      <3>5. ~Over'
        BY <3>1 DEF Over, Waiting
      <3> QED
        BY <1>2, <2>1, <3>1, <3>4, <3>5
    <2> QED
      BY <1>4, <2>3, <2>4, <2>5
  <1>5. CASE ~Begin /\ ~Descend /\ ~CopyBig /\ ~Emit
    <2>1. /\ UNCHANGED <<snap, walk, nextPgno>> /\ (txn' => txn)
          /\ error = "ok" /\ (txn' /\ Over' => Over)
          /\ pc'["walker"] = "done" /\ rc' = "ok" => Join
      BY <1>5, WalkStays DEF Stays
    <2>2. All' = All
      BY <1>5, HandsOn
    <2>3. txn' => OutputOK(snap', walk', nextPgno', All')
      BY <2>1, <2>2 DEF CopiedOK
    <2>4. txn' /\ Over' => WholeIn(snap', All')
      BY <2>1, <2>2 DEF CopiedOK
    <2>5. Ordered(All')
      BY <2>1, <2>2 DEF CopiedOK
    <2>6. ASSUME pc'["walker"] = "done", rc' = "ok"
          PROVE  /\ snap' \in Snapshots /\ All' = file'
                 /\ OutputOK(snap', walk', nextPgno', All') /\ WholeIn(snap', All')
      <3>1. pc["walker"] = "join" /\ pc'["writer"] = "exit" /\ adjust = 17
        BY <2>1, <2>6
        DEF Join, WriterEnded, SyncInv, HeldBy, Goes, Threads, Returns
      <3>2. txn
        BY <2>1, <3>1 DEF TxnOK
      <3>3. snap' \in Snapshots
        BY <2>1, <3>2 DEF WalkOK
      <3>4. All' = file'
        BY <2>6, <3>1, AllWrittenNext DEF BothEnded, AllIsFile
      <3>5. OutputOK(snap', walk', nextPgno', All')
        BY <2>1, <2>2, <3>2 DEF CopiedOK
      <3>6. WholeIn(snap', All')
        BY <2>1, <2>2, <3>1, <3>2 DEF CopiedOK, Over
      <3> QED
        BY <3>3, <3>4, <3>5, <3>6
    <2> QED
      BY <1>1, <2>3, <2>4, <2>5, <2>6 DEF CopiedOK
  <1> QED
    BY <1>3, <1>4, <1>5

-----------------------------------------------------------------------------
(* The whole call again. *)

(* Nothing has been copied. *)
LEMMA CompactInit == Init => CompactInv
  <1> SUFFICES ASSUME Init
               PROVE  CompactInv
    OBVIOUS
  <1> USE DEF Init, CopyInit, Threads
  <1>1. SyncInv
    BY DEF SyncInv, HeldBy, Counted, Toggles, WalkerAt, WriterAt, Waiting
  <1>2. BuffersOK
    <2>1. <<>> \in Seq(AnyImage) /\ Len(<<>>) = 0
      OBVIOUS
    <2> QED
      BY <2>1, CopyAssumption DEF BuffersOK
  <1>3. TxnOK
    BY DEF TxnOK, Waiting
  <1>4. WalkOK
    BY DEF WalkOK, Waiting
  <1>5. Returns
    BY DEF Returns
  <1>6. CopiedOK
    <2>1. All = <<>>
      BY <1>1, <1>2, <1>3, NothingYet
    <2>2. Ordered(<<>>)
      BY DEF Ordered
    <2> QED
      BY <2>1, <2>2 DEF CopiedOK
  <1> QED
    BY <1>1, <1>2, <1>3, <1>4, <1>5, <1>6 DEF CompactInv

(* Steps of the other copy. *)
LEMMA CompactStutter ==
    ASSUME SyncInv, BuffersOK, TxnOK, WalkOK, CopiedOK, UNCHANGED copyVars
    PROVE  SyncInv' /\ BuffersOK' /\ TxnOK' /\ WalkOK' /\ CopiedOK'
  <1>1. UNCHANGED <<snap, txn, walk, nextPgno, buf, over, hand, turn, new, adjust,
                    error, rc, left, file, mutex, event, pc>>
    BY DEF copyVars, shared, walker, writer
  <1>2. SyncInv'
    BY <1>1 DEF SyncInv, HeldBy, Counted, Toggles
  <1>3. BuffersOK' /\ TxnOK' /\ WalkOK'
    BY <1>1 DEF BuffersOK, TxnOK, WalkOK
  <1>4. All' = All /\ (Over' <=> Over)
    BY <1>1 DEF All, Pending, Queued, Over
  <1>5. CopiedOK'
    BY <1>1, <1>4 DEF CopiedOK
  <1> QED
    BY <1>2, <1>3, <1>5

(* Every step keeps the invariant. *)
LEMMA CompactInd ==
    ASSUME CompactInv, [Next]_vars
    PROVE  CompactInv'
  <1>0. SyncInv /\ BuffersOK /\ TxnOK /\ WalkOK /\ CopiedOK /\ Returns
    BY DEF CompactInv
  <1>1. CASE Compacts(CopyNext)
    <2>1. CopyNext /\ UNCHANGED <<mode, fd, ret>> /\ mode = "compact" /\ fd
      BY <1>1 DEF Compacts
    <2>2. SyncInv' /\ TxnOK' /\ BuffersOK' /\ Returns'
      BY <1>0, <2>1, SyncInd, TxnInd, BuffersInd, ReturnsInd
    <2>3. WalkOK'
      BY <1>0, <2>1, <2>2, WalkInd
    <2>4. CopiedOK'
      BY <1>0, <2>1, <2>2, <2>3, CompactedInd
    <2> QED
      BY <2>2, <2>3, <2>4 DEF CompactInv
  <1>2. CASE UNCHANGED copyVars
    <2>1. SyncInv' /\ BuffersOK' /\ TxnOK' /\ WalkOK' /\ CopiedOK'
      BY <1>0, <1>2, CompactStutter
    <2>2. UNCHANGED <<pc, rc, error, adjust>>
      BY <1>2 DEF copyVars, shared, walker
    <2>3. Returns'
      <3>1. CASE Open
        BY <1>0, <2>2, <3>1 DEF Open, Returns
      <3>2. CASE Close
        BY <1>0, <2>2, <3>2 DEF Close, Returns, Returned, Succeeded
      <3>3. CASE UNCHANGED <<mode, fd, ret>>
        BY <1>0, <2>2, <3>3 DEF Returns
      <3> QED
        BY <3>1, <3>2, <3>3 DEF Next, Compacts, AsIs, vars
    <2> QED
      BY <2>1, <2>3 DEF CompactInv
  <1> QED
    BY <1>1, <1>2 DEF Next, Open, AsIs, Close, vars

(* Every set of naturals that is not empty has a least element.            *)
LEMMA LeastExists ==
    ASSUME NEW T, T \subseteq Nat, T # {}
    PROVE  \E x \in T : \A y \in T : x <= y
  <1>1. PICK x \in T : \A y \in T : ~(<<y, x>> \in OpToRel(<, Nat))
    BY WFMin, NatLessThanWellFounded, Zenon
  <1>2. \A y \in T : <<y, x>> \in OpToRel(<, Nat) <=> y < x
    BY DEF OpToRel
  <1>3. \A a, b \in Nat : ~(b < a) => a <= b
    OBVIOUS
  <1>4. \A y \in T : x <= y
    <2> TAKE y \in T
    <2>1. ~(y < x)
      BY <1>1, <1>2
    <2>2. x \in Nat /\ y \in Nat
      OBVIOUS
    <2> QED
      BY <1>3, <2>1, <2>2
  <1> QED
    BY <1>4

(* A page of the snapshot that were not in the copy would have one above   *)
(* it that is not either, and so on up to the root, which is.              *)
LEMMA EveryPage ==
    ASSUME NEW s, IsTree(s), NEW o, AllWhole(s, o), WholeIn(s, o),
           NEW p \in DOMAIN s.pages
    PROVE  \E k \in 1..Len(o) : o[k].of = p
  <1> SUFFICES ASSUME \A k \in 1..Len(o) : o[k].of # p
               PROVE  FALSE
    OBVIOUS
  <1> DEFINE ps == DOMAIN s.pages
             Lacking(r) == r \in ps /\ \A k \in 1..Len(o) : o[k].of # r
  <1>1. PICK depth \in [ps -> 0..s.next] :
             \A q \in ps \ {s.root} : \E r \in ps :
                /\ depth[r] < depth[q]
                /\ \E i \in DOMAIN s.pages[r] : s.pages[r][i].to = q
    BY DEF IsTree
  <1>2. s.next \in Nat /\ \A q \in ps : q # NoPage /\ s.pages[q] \in Seq(Items)
    BY CopyAssumption DEF IsTree
  <1>3. \A q \in ps : depth[q] \in Nat
    BY <1>1, <1>2
  <1> DEFINE T == {depth[q] : q \in {r \in ps : Lacking(r)}}
  <1>4. PICK x \in T : \A y \in T : x <= y
    <2>1. T \subseteq Nat /\ depth[p] \in T
      BY <1>3
    <2> HIDE DEF T
    <2> QED
      BY <2>1, LeastExists
  <1>5. PICK q \in ps : Lacking(q) /\ depth[q] = x
    OBVIOUS
  <1>6. q # s.root
    <2> SUFFICES ASSUME q = s.root
                 PROVE  FALSE
      OBVIOUS
    <2>1. HoldsIn(o, Len(o), q)
      BY <1>2, <1>5 DEF WholeIn
    <2> QED
      BY <1>5, <2>1 DEF HoldsIn
  <1>7. PICK r \in ps : /\ depth[r] < depth[q]
                        /\ \E i \in DOMAIN s.pages[r] : s.pages[r][i].to = q
    BY <1>1, <1>6
  <1>8. PICK i \in DOMAIN s.pages[r] : s.pages[r][i].to = q
    BY <1>7
  <1>9. ~Lacking(r)
    <2>1. Lacking(r) => depth[r] \in T
      OBVIOUS
    <2>2. x \in Nat /\ depth[r] \in Nat
      BY <1>3, <1>5
    <2> HIDE DEF T, Lacking
    <2> QED
      BY <1>4, <1>5, <1>7, <2>1, <2>2
  <1>10. PICK k \in 1..Len(o) : o[k].of = r
    BY <1>9
  <1>11. PageIn(s, o, k, r)
    BY <1>10 DEF AllWhole
  <1>12. i \in 1..Len(s.pages[r])
    BY <1>2, <1>8, LenProperties
  <1>13. ItemIn(o, s.pages[r][i], o[k].to[i])
    BY <1>11, <1>12 DEF PageIn
  <1>14. HoldsIn(o, o[k].to[i] + 1, q)
    BY <1>2, <1>8, <1>13 DEF ItemIn
  <1> QED
    BY <1>5, <1>14 DEF HoldsIn

(* The order of the pages, as EnvCopy states it. *)
LEMMA OrderedIs ==
    ASSUME CompactInv
    PROVE  InOrder
  <1>1. SyncInv /\ BuffersOK /\ (error = "ok" => Ordered(All))
    BY DEF CompactInv, CopiedOK
  <1>2. All \in Seq(AnyImage)
    <2>1. Parts
      BY <1>1, PartsAre
    <2>2. Front \o Back \in Seq(AnyImage)
      BY <2>1, ConcatProperties DEF Parts
    <2> DEFINE fb == Front \o Back
               rest == fb \o Mine
    <2> HIDE DEF fb
    <2>3. rest \in Seq(AnyImage)
      BY <2>1, <2>2, ConcatProperties DEF Parts, fb
    <2>4. All = file \o rest /\ file \in Seq(AnyImage)
      BY <2>1 DEF Parts, fb
    <2> HIDE DEF rest
    <2> QED
      BY <2>3, <2>4, ConcatProperties
  <1>3. DOMAIN All = 1..Len(All)
    BY <1>2, LenProperties
  <1> HIDE DEF All
  <1>4. error = "ok" => \A k \in DOMAIN All :
          IF All[k].part = 0 THEN All[k].pgno = k - 1
          ELSE k > 1 /\ All[k - 1].of = All[k].of /\ All[k - 1].part = All[k].part - 1
    BY <1>1, <1>3 DEF Ordered
  <1> QED
    BY <1>4 DEF InOrder, All

(* The success, as EnvCopy states it. *)
LEMMA Faithful ==
    ASSUME CompactInv
    PROVE  CompactFaithful
  <1>1. InOrder
    BY OrderedIs
  <1> SUFFICES ASSUME ret = "success", mode = "compact"
               PROVE  /\ Len(file) >= 2 /\ SubSeq(file, 1, 2) = Metas(snap)
                      /\ snap.root = NoPage => Len(file) = 2
                      /\ snap.root # NoPage => /\ Holds(Len(file), snap.root)
                                               /\ NewRoot(snap) = Len(file) - 1
                      /\ \A p \in DOMAIN snap.pages :
                            \E k \in DOMAIN file : Copies(k, p)
                      /\ \A j, k \in DOMAIN file : j # k =>
                           <<file[j].of, file[j].part>> # <<file[k].of, file[k].part>>
    BY <1>1 DEF CompactFaithful
  <1>2. pc["walker"] = "done" /\ rc = "ok" /\ error = "ok"
    BY DEF CompactInv, Returns
  <1>3. /\ snap \in Snapshots /\ OutputOK(snap, walk, nextPgno, file)
        /\ WholeIn(snap, file)
    BY <1>2 DEF CompactInv, CopiedOK
  <1>4. /\ Begun(snap, nextPgno, file) /\ AllWhole(snap, file) /\ Once(file)
    BY <1>3 DEF OutputOK
  <1>5. /\ file \in Seq(AnyImage) /\ Len(file) >= 2 /\ Len(file) \in Nat
        /\ DOMAIN file = 1..Len(file)
    BY <1>4, LenProperties DEF Begun
  <1>6. SubSeq(file, 1, 2) = Metas(snap)
    <2>1. file[1] = Metas(snap)[1] /\ file[2] = Metas(snap)[2]
      BY <1>4 DEF Begun
    <2>2. Metas(snap) \in Seq(AnyImage) /\ Len(Metas(snap)) = 2
      BY <1>3, MetasAre
    <2>3. \A i \in 1..2 : file[i] \in AnyImage
      BY <1>5, ElementOfSeq
    <2> DEFINE f == SubSeq(file, 1, 2)
               m == Metas(snap)
    <2>4. f \in Seq(AnyImage) /\ Len(f) = 2 /\ f[1] = file[1] /\ f[2] = file[2]
      BY <1>5, <2>3
    <2> HIDE DEF f, m
    <2>5. \A i \in 1..Len(f) : f[i] = m[i]
      <3>1. \A i \in 1..2 : i = 1 \/ i = 2
        OBVIOUS
      <3> QED
        BY <2>1, <2>4, <3>1 DEF m
    <2>6. f = m
      BY <2>2, <2>4, <2>5, SeqEqual DEF m
    <2> QED
      BY <2>6 DEF f, m
  <1>7. /\ snap.root = NoPage => Len(file) = 2
        /\ snap.root # NoPage => /\ Holds(Len(file), snap.root)
                                 /\ NewRoot(snap) = Len(file) - 1
    BY <1>3, <1>5 DEF WholeIn, HoldsIn, Holds
  <1>8. ASSUME NEW p \in DOMAIN snap.pages
        PROVE  \E k \in DOMAIN file : Copies(k, p)
    <2>1. IsTree(snap)
      BY <1>3, CopyAssumption
    <2>2. PICK k \in 1..Len(file) : file[k].of = p
      BY <1>3, <1>4, <2>1, EveryPage
    <2>3. PageIn(snap, file, k, p)
      BY <1>4, <2>2 DEF AllWhole
    <2>4. DOMAIN snap.pages[p] = 1..Len(snap.pages[p])
      BY <2>1, LenProperties DEF IsTree
    <2>5. Holds(k, p)
      BY <1>5, <2>3 DEF PageIn, HoldsIn, Holds
    <2>6. ASSUME NEW i \in DOMAIN snap.pages[p]
          PROVE  LET item == snap.pages[p][i]  to == file[k].to[i] IN
                 IF item.to = NoPage THEN to = NoPage
                 ELSE /\ Holds(to + 1, item.to)
                      /\ item.kind = "big" =>
                           \A j \in 1..item.n - 1 :
                             /\ to + 1 + j \in DOMAIN file
                             /\ file[to + 1 + j] = Image(item.to, j, NoPage, <<>>)
      <3>1. ItemIn(file, snap.pages[p][i], file[k].to[i])
        BY <2>3, <2>4, <2>6 DEF PageIn
      <3> QED
        BY <1>5, <3>1 DEF ItemIn, HoldsIn, Holds
    <2>7. Copies(k, p)
      BY <2>5, <2>6 DEF Copies
    <2> QED
      BY <1>5, <2>2, <2>7
  <1>9. \A j, k \in DOMAIN file : j # k =>
          <<file[j].of, file[j].part>> # <<file[k].of, file[k].part>>
    BY <1>4, <1>5 DEF Once
  <1> QED
    BY <1>5, <1>6, <1>7, <1>8, <1>9

(* A compacted copy that is reported a success is the snapshot: each of    *)
(* its pages once and whole, with every reference renumbered, the root     *)
(* last and in meta page 1, and while no error has occurred no block is    *)
(* lost, repeated or overtaken between the two threads (mdb_env_copyfd1,   *)
(* mdb_env_copythr).                                                       *)
THEOREM CopiesAreFaithful == Spec => []CompactFaithful
  <1>1. Init => CompactInv
    BY CompactInit
  <1>2. CompactInv /\ [Next]_vars => CompactInv'
    BY CompactInd
  <1>3. CompactInv => CompactFaithful
    BY Faithful
  <1> QED
    BY <1>1, <1>2, <1>3, PTL DEF Spec

(* What is left behind follows from where the threads are. *)
LEMMA LeavesNothing ==
    ASSUME CompactInv, AsIsInv
    PROVE  NothingLeft
  <1>1. /\ HeldBy /\ Counted /\ Toggles /\ BuffersOK /\ TxnOK
        /\ AsIsTypes /\ NumbersOK
    BY DEF CompactInv, SyncInv, AsIsInv
  <1>2. TypeOK
    BY <1>1
    DEF HeldBy, Counted, Toggles, BuffersOK, AsIsTypes, NumbersOK, TypeOK,
                Threads, EOF, Waiting, WriterAt
  <1>3. pc["writer"] = "write" /\ left # <<>> => txn
    BY <1>1 DEF Counted, TxnOK
  <1>4. pc["walker"] = "done" =>
          ~txn /\ mutex = "free" /\ pc["writer"] \in {"off", "exit"}
    BY <1>1 DEF HeldBy, Counted, TxnOK
  <1>5. at = "done" => reader = 0 /\ wmutex # "copier"
    BY <1>1 DEF NumbersOK
  <1> QED
    BY <1>2, <1>3, <1>4, <1>5 DEF NothingLeft

(* The writer thread reads overflow pages from the map only while the      *)
(* snapshot's transaction is open, and when the copy has returned, with or *)
(* without success, no transaction, thread or mutex is left behind.        *)
THEOREM LeavesNothingBehind == Spec => []NothingLeft
  <1>1. Init => CompactInv /\ AsIsInv /\ EndOK
    BY CompactInit, AsIsInitInd DEF Init, EndOK, AsIsInit
  <1>2. CompactInv /\ AsIsInv /\ EndOK /\ [Next]_vars
           => CompactInv' /\ AsIsInv' /\ EndOK'
    BY CompactInd, AsIsInd
  <1>3. CompactInv /\ AsIsInv => NothingLeft
    BY LeavesNothing
  <1> QED
    BY <1>1, <1>2, <1>3, PTL DEF Spec
=============================================================================
