------------------------------- MODULE RWLock -------------------------------
(***************************************************************************)
(* What a user of CSWMRGuard is promised: a thread asks, is granted the    *)
(* resource when nobody in its way has it, and gives it back.  No counter, *)
(* no semaphore.                                                           *)
(***************************************************************************)
CONSTANTS Threads, Writers

VARIABLE mode   \* per thread: "out", "wantRead", "wantWrite", "reading", "writing"

Init == mode = [t \in Threads |-> "out"]

Ask(t, want) ==
    /\ mode[t] = "out"
    /\ mode' = [mode EXCEPT ![t] = want]

GrantRead(t) ==
    /\ mode[t] \in {"out", "wantRead"}
    /\ \A u \in Threads : mode[u] # "writing"
    /\ mode' = [mode EXCEPT ![t] = "reading"]

GrantWrite(t) ==
    /\ mode[t] \in {"out", "wantWrite"}
    /\ \A u \in Threads : mode[u] \notin {"reading", "writing"}
    /\ mode' = [mode EXCEPT ![t] = "writing"]

Leave(t) ==
    /\ mode[t] \in {"reading", "writing"}
    /\ mode' = [mode EXCEPT ![t] = "out"]

Next ==
    \/ \E t \in Threads : Ask(t, "wantRead") \/ GrantRead(t) \/ Leave(t)
    \/ \E t \in Writers : Ask(t, "wantWrite") \/ GrantWrite(t)

Spec == Init /\ [][Next]_mode
=============================================================================
