--------------------------- MODULE SnapshotStore ---------------------------
(***************************************************************************)
(* What the storage engine promises its users, without pages, meta pages   *)
(* or locks: a history of committed images.  A write transaction appends   *)
(* one; a read transaction sees one of them, fixed for as long as it is    *)
(* open and no older than what was published when it began; a system crash *)
(* keeps all but the last Loss of the commits that were acknowledged.      *)
(***************************************************************************)
EXTENDS Integers, Sequences

CONSTANTS
    Readers,    \* those that open read transactions, one at a time each
    Keys,       \* what an image maps to contents
    Missing,    \* the content of a key that is not stored
    Loss        \* the acknowledged commits a system crash may take

VARIABLES
    log,        \* the committed images, oldest first
    vis,        \* how many of them are published
    acked,      \* up to which one a commit has returned
    phase,      \* per reader: "idle", "begin" or "open"
    low,        \* per reader that begins: what was published then
    view        \* per open reader: the image it sees

vars == <<log, vis, acked, phase, low, view>>

Nothing == [k \in Keys |-> Missing]

Init ==
    /\ log = <<Nothing>>
    /\ vis = 1
    /\ acked = 1
    /\ phase = [r \in Readers |-> "idle"]
    /\ low = [r \in Readers |-> 0]
    /\ view = [r \in Readers |-> Nothing]

(* A commit builds on the last image: what it does not keep is deleted, or *)
(* replaced by a content that no earlier image had.                        *)
BuildsOn(old, new) ==
    \A k \in Keys :
        \/ new[k] \in {old[k], Missing}
        \/ \A i \in 1..Len(log) : log[i][k] # new[k]

Commit ==
    /\ Len(log') = Len(log) + 1
    /\ SubSeq(log', 1, Len(log)) = log
    /\ BuildsOn(log[Len(log)], log'[Len(log')])
    /\ UNCHANGED <<vis, acked, phase, low, view>>

(* By the writer, whose commit returns then, or by the next one after its  *)
(* death.                                                                  *)
Publish ==
    /\ vis' = Len(log)
    /\ acked' \in {acked, Len(log)}
    /\ UNCHANGED <<log, phase, low, view>>

Look(r) ==
    /\ phase[r] \in {"idle", "begin"}
    /\ phase' = [phase EXCEPT ![r] = "begin"]
    /\ low' = [low EXCEPT ![r] = vis]
    /\ UNCHANGED <<log, vis, acked, view>>

Open(r) ==
    /\ phase[r] = "begin"
    /\ phase' = [phase EXCEPT ![r] = "open"]
    /\ \E i \in low[r]..Len(log) : view' = [view EXCEPT ![r] = log[i]]
    /\ low' = [low EXCEPT ![r] = 0]
    /\ UNCHANGED <<log, vis, acked>>

Close(r) ==
    /\ phase' = [phase EXCEPT ![r] = "idle"]
    /\ low' = [low EXCEPT ![r] = 0]
    /\ view' = [view EXCEPT ![r] = Nothing]
    /\ vis' \in {vis, Len(log)}    \* the last process to die takes the lock file
    /\ UNCHANGED <<log, acked>>

SystemCrash ==
    /\ Len(log') \in (acked - Loss)..Len(log) \ {0}
    /\ log' = SubSeq(log, 1, Len(log'))
    /\ vis' = Len(log')
    /\ acked' = Len(log')
    /\ phase' = [r \in Readers |-> "idle"]
    /\ low' = [r \in Readers |-> 0]
    /\ view' = [r \in Readers |-> Nothing]

Next ==
    \/ Commit \/ Publish \/ SystemCrash
    \/ \E r \in Readers : Look(r) \/ Open(r) \/ Close(r)

Spec == Init /\ [][Next]_vars
=============================================================================
