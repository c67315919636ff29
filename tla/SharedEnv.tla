----------------------------- MODULE SharedEnv -----------------------------
(***************************************************************************)
(* What processes that share an environment rely on, seen without locks,   *)
(* lock region or files: commits follow one another, whoever may read sees *)
(* the last one published, and what a reader has pinned stays pinned until *)
(* it ends, whoever opens and closes the environment meanwhile.  All this  *)
(* holds until somebody comes in through what the dead have left; nothing  *)
(* is promised from then on.                                               *)
(***************************************************************************)
EXTENDS Naturals

CONSTANTS Procs, Unpinned

VARIABLES
    last,       \* the number of the last commit
    published,  \* the number a transaction that begins now starts from
    reading,    \* the processes with a read transaction
    pinned,     \* per process: the number that protects what it reads
    broken      \* somebody has come in whom nobody inside let in

vars == <<last, published, reading, pinned, broken>>

Init ==
    /\ last \in Nat
    /\ published = last
    /\ reading = {}
    /\ pinned = [p \in Procs |-> Unpinned]
    /\ broken = FALSE

(* A writer starts from the last commit. *)
Commit ==
    /\ published = last
    /\ last' = last + 1
    /\ UNCHANGED <<published, reading, pinned>>

(* By the writer, by its successor, or by who opens the environment next. *)
Publish ==
    /\ published' = last
    /\ UNCHANGED <<last, reading, pinned>>

Begin(p) ==
    /\ p \notin reading
    /\ reading' = reading \cup {p}
    /\ pinned' = [pinned EXCEPT ![p] = published]
    /\ UNCHANGED <<last, published>>

End(p) ==
    /\ reading' = reading \ {p}
    /\ pinned' = [pinned EXCEPT ![p] = Unpinned]
    /\ UNCHANGED <<last, published>>

Kept == Commit \/ Publish \/ \E p \in Procs : Begin(p) \/ End(p)

Next == (~broken /\ ~broken' /\ Kept) \/ broken'

Spec == Init /\ [][Next]_vars
=============================================================================
