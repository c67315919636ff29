------------------------------ MODULE AsIsCopy ------------------------------
(* The copy of an environment as it is (mdb_env_copyfd0), beside a writer   *)
(* that goes on committing.  The writer is held off only while the two meta *)
(* pages are copied; after that the copy's read transaction must keep every *)
(* page the metas need, until the last one has been read from the map.      *)
(*                                                                          *)
(* A page of the file is the number of the transaction that has written it, *)
(* a tree a function from its pages to what they must hold.  The writer is  *)
(* the rest of mdb.c as the copy meets it (MDBTxn has it in full): pages    *)
(* are copied on write, a page freed by transaction k is taken again when k *)
(* is older than the newest meta's predecessor and every reader.            *)
EXTENDS Integers, Sequences, FiniteSets

CONSTANTS MaxPg,    \* pages of the map
          MaxTxn,   \* bound: the last transaction the writer commits
          MaxWrites, \* bound: pages it writes in a transaction
          IOFaults  \* what may fail: "lock", "renew", "read", "write"

ASSUME AsIsAssumption == MaxPg \in Nat /\ MaxPg >= 3 /\ {MaxTxn, MaxWrites} \subseteq Nat

VARIABLES disk,     \* the file's pages, from 2 on
          metas,    \* the two meta pages: txnid, tree, freeDB, mt_next_pgno
          wmutex,   \* who holds me_wmutex
          wtxn,     \* the writer's transaction
          reader,   \* the txnid in the copier's reader slot, or 0
          rsnap,    \* what its transaction has read from the meta page
          out,      \* the copy: its metas and its pages, in file order
          copyEnd,  \* the page it ends at, 0 until the file's size is read
          at,       \* where the copier is
          res       \* what it returns

envVars == <<disk, metas, wmutex, wtxn>>
copierVars == <<reader, rsnap, out, copyEnd, at, res>>
asisVars == <<envVars, copierVars>>

NUM_METAS == 2
Pgnos  == NUM_METAS..MaxPg - 1
Newest == IF metas[0].id > metas[1].id THEN metas[0] ELSE metas[1]
None   == [id |-> 0, tree |-> <<>>, freed |-> <<>>, next |-> NUM_METAS]
Pages(m) == DOMAIN m.tree
Without(f, S) == [p \in DOMAIN f \ S |-> f[p]]
Put(f, S, v)  == [p \in DOMAIN f \cup S |-> IF p \in S THEN v ELSE f[p]]

AsIsInit ==
    /\ disk = [p \in {2} |-> 1]
    /\ metas = [i \in {0, 1} |-> IF i = 0 THEN None
                  ELSE [None EXCEPT !.id = 1, !.tree = disk, !.next = 3]]
    /\ wmutex = "free" /\ wtxn = None
    /\ reader = 0 /\ rsnap = None
    /\ out = [metas |-> <<>>, pages |-> <<>>]
    /\ copyEnd = 0 /\ at = "off" /\ res = "none"

(***************************************************************************)
(* The writer                                                              *)
(***************************************************************************)
Lock ==
    /\ wmutex = "free" /\ Newest.id < MaxTxn
    /\ wmutex' = "writer"
    /\ wtxn' = [Newest EXCEPT !.id = @ + 1]
    /\ UNCHANGED <<disk, metas, copierVars>>

Dirty == Cardinality({p \in Pages(wtxn) : wtxn.tree[p] = wtxn.id})

(* mdb_find_oldest *)
Oldest == IF reader # 0 /\ reader < wtxn.id - 1 THEN reader ELSE wtxn.id - 1
Reclaimable == {p \in DOMAIN wtxn.freed : wtxn.freed[p] < Oldest}

(* A page is written at a reclaimed page or at the end of the file; it      *)
(* replaces a page of an earlier transaction or is added to the tree.       *)
WritePage ==
    /\ wmutex = "writer" /\ Dirty < MaxWrites
    /\ \E q \in Reclaimable \cup (Pgnos \cap {wtxn.next}),
          old \in {{}} \cup {{p} : p \in {x \in Pages(wtxn) :
                                          wtxn.tree[x] < wtxn.id}} :
         /\ disk' = Put(disk, {q}, wtxn.id)
         /\ wtxn' = [wtxn EXCEPT
              !.tree  = Put(Without(@, old), {q}, wtxn.id),
              !.freed = Put(Without(@, {q}), old, wtxn.id),
              !.next  = IF q = @ THEN @ + 1 ELSE @]
    /\ UNCHANGED <<metas, wmutex, copierVars>>

(* A page taken at the end of the file and given up again is never written. *)
SkipPage ==
    /\ wmutex = "writer" /\ wtxn.next \in Pgnos
    /\ wtxn' = [wtxn EXCEPT !.next = @ + 1,
                            !.freed = Put(@, {wtxn.next}, wtxn.id)]
    /\ UNCHANGED <<disk, metas, wmutex, copierVars>>

(* The transaction ends: its meta page is written, or nothing of it is      *)
(* left but pages no meta page knows of.                                    *)
EndTxn ==
    /\ wmutex = "writer"
    /\ \/ metas' = [metas EXCEPT ![wtxn.id % 2] = wtxn]
       \/ UNCHANGED metas
    /\ wmutex' = "free" /\ wtxn' = None
    /\ UNCHANGED <<disk, copierVars>>

(***************************************************************************)
(* The copier                                                              *)
(***************************************************************************)
Starts ==
    /\ at = "off" /\ at' = "lock"
    /\ reader' = Newest.id /\ rsnap' = Newest
    /\ UNCHANGED <<envVars, out, copyEnd, res>>

(* mdb_txn_end(MDB_END_RESET_TMP), then wait for the writers' mutex, and    *)
(* read the meta page again.                                                *)
Reset ==
    /\ at = "lock" /\ reader # 0
    /\ reader' = 0 /\ rsnap' = None
    /\ UNCHANGED <<envVars, out, copyEnd, at, res>>

(* Mutant: the transaction begun before the writers were held off is kept. *)
RenewKept ==
    /\ at = "lock" /\ reader # 0 /\ wmutex = "free"
    /\ wmutex' = "copier" /\ at' = "metas"
    /\ UNCHANGED <<reader, rsnap, disk, metas, wtxn, out, copyEnd, res>>

Renew ==
    /\ at = "lock" /\ reader = 0 /\ wmutex = "free"
    /\ wmutex' = "copier" /\ at' = "metas"
    /\ reader' = Newest.id /\ rsnap' = Newest
    /\ UNCHANGED <<disk, metas, wtxn, out, copyEnd, res>>

CopyMeta ==
    /\ at = "metas"
    /\ out' = [out EXCEPT !.metas = Append(@, metas[Len(@)])]
    /\ IF Len(out'.metas) < NUM_METAS THEN UNCHANGED <<wmutex, at>>
       ELSE wmutex' = "free" /\ at' = "pages"
    /\ UNCHANGED <<disk, metas, wtxn, reader, rsnap, copyEnd, res>>

(* The copy ends at mt_next_pgno or at the end of the file, whose size is   *)
(* read once, when the writers may go on.  A page of the file nobody has    *)
(* written is a hole.                                                       *)
Least(a, b) == IF a < b THEN a ELSE b
FileEnd   == 1 + CHOOSE p \in DOMAIN disk : \A q \in DOMAIN disk : q <= p
ReadSize ==
    /\ at = "pages" /\ copyEnd = 0
    /\ copyEnd' = Least(rsnap.next, FileEnd)
    /\ UNCHANGED <<envVars, reader, rsnap, out, at, res>>

Content(p) == IF p \in DOMAIN disk THEN disk[p] ELSE 0
CopyPage ==
    /\ at = "pages" /\ NUM_METAS + Len(out.pages) < copyEnd
    /\ out' = [out EXCEPT !.pages = Append(@, Content(NUM_METAS + Len(@)))]
    /\ UNCHANGED <<envVars, reader, rsnap, copyEnd, at, res>>

(* mdb_txn_abort, on success and, behind the label leave, on every error    *)
Leave(r) ==
    /\ at' = "done" /\ res' = r
    /\ reader' = 0 /\ rsnap' = None /\ copyEnd' = 0
    /\ UNCHANGED <<disk, metas, wtxn, out>>
Copied ==
    /\ at = "pages" /\ copyEnd # 0 /\ NUM_METAS + Len(out.pages) >= copyEnd
    /\ Leave("copied") /\ UNCHANGED wmutex
CopyFails ==
    /\ \/ /\ at = "off" /\ "read" \in IOFaults       \* mdb_txn_begin
          /\ UNCHANGED wmutex
       \/ /\ at = "lock" /\ reader = 0 /\ "lock" \in IOFaults
          /\ UNCHANGED wmutex
       \/ /\ at = "lock" /\ reader = 0 /\ "renew" \in IOFaults
          /\ wmutex = "free" /\ UNCHANGED wmutex
       \/ /\ at = "metas" /\ "write" \in IOFaults /\ wmutex' = "free"
       \/ /\ at = "pages" /\ copyEnd = 0 /\ "read" \in IOFaults  \* mdb_fsize
          /\ UNCHANGED wmutex
       \/ /\ at = "pages" /\ copyEnd # 0 /\ "write" \in IOFaults
          /\ UNCHANGED wmutex
    /\ Leave("failed")

WriterNext == Lock \/ WritePage \/ SkipPage \/ EndTxn
CopierNext == Starts \/ Reset \/ Renew \/ CopyMeta \/ ReadSize \/ CopyPage
              \/ Copied \/ CopyFails
AsIsNext == WriterNext \/ CopierNext
==============================================================================
