----------------------------- MODULE SWMRGuard -----------------------------
(***************************************************************************)
(* CSWMRGuard (src/MySharedStuff/CSWMRGuard.cpp): the single-writer /      *)
(* multiple-reader guard that the master server takes around its registry. *)
(* Three counters guarded by a Win32 critical section say who has the      *)
(* resource and who waits; two counting semaphores block the waiters.      *)
(*                                                                         *)
(* What the code does between EnterCriticalSection and                     *)
(* LeaveCriticalSection is one step.  Waiting on a semaphore and releasing *)
(* one happen outside the critical section and are steps of their own: a   *)
(* thread that was handed the resource may be overtaken at both places.    *)
(***************************************************************************)
EXTENDS Integers, FiniteSets

CONSTANTS
    Threads,    \* the threads that use the guard
    Writers     \* those among them that ever call WaitToWrite

ASSUME ThreadsAssumption == IsFiniteSet(Threads) /\ Writers \subseteq Threads

VARIABLES
    active,         \* m_nActive: -1 a writer, 0 free, n > 0 readers
    waitingReaders, \* m_nWaitingReaders
    waitingWriters, \* m_nWaitingWriters
    semReaders,     \* count of m_hsemReaders
    semWriters,     \* count of m_hsemWriters
    lCount,         \* per thread: the local lCount of Done, 0 when unused
    pc              \* per thread: where it stands

vars == <<active, waitingReaders, waitingWriters, semReaders, semWriters,
          lCount, pc>>

PC == {"out", "waitRead", "reading", "waitWrite", "writing",
       "wakeReaders", "wakeWriter"}

TypeOK ==
    /\ active \in Int
    /\ active >= -1
    /\ waitingReaders \in Nat
    /\ waitingWriters \in Nat
    /\ semReaders \in Nat
    /\ semWriters \in Nat
    /\ lCount \in [Threads -> Nat]
    /\ pc \in [Threads -> PC]

Init ==
    /\ active = 0
    /\ waitingReaders = 0
    /\ waitingWriters = 0
    /\ semReaders = 0
    /\ semWriters = 0
    /\ lCount = [t \in Threads |-> 0]
    /\ pc = [t \in Threads |-> "out"]

At(s) == {t \in Threads : pc[t] = s}

Goto(t, from, to) == pc[t] = from /\ pc' = [pc EXCEPT ![t] = to]

-----------------------------------------------------------------------------
(* WaitToRead: admitted unless a writer has the resource or waits for it. *)

(* Mutant: a reader looks only at the writer inside, not at those waiting. *)
PendingIgnoresWaiters == active < 0

(* Mutant: a reader looks only at the writers waiting. *)
PendingIgnoresWriter == waitingWriters > 0

ResourceWritePending == waitingWriters > 0 \/ active < 0

EnterRead(t) ==
    /\ ~ResourceWritePending
    /\ Goto(t, "out", "reading")
    /\ active' = active + 1
    /\ UNCHANGED <<waitingReaders, waitingWriters, semReaders, semWriters,
                   lCount>>

QueueRead(t) ==
    /\ ResourceWritePending
    /\ Goto(t, "out", "waitRead")
    /\ waitingReaders' = waitingReaders + 1
    /\ UNCHANGED <<active, waitingWriters, semReaders, semWriters, lCount>>

WakeRead(t) ==
    /\ semReaders > 0
    /\ Goto(t, "waitRead", "reading")
    /\ semReaders' = semReaders - 1
    /\ UNCHANGED <<active, waitingReaders, waitingWriters, semWriters, lCount>>

(* WaitToWrite: admitted only when nobody has the resource. *)

(* Mutant: m_nActive < 0 for m_nActive != 0. *)
EnterWriteAmongReaders(t) ==
    /\ active >= 0
    /\ Goto(t, "out", "writing")
    /\ active' = -1
    /\ UNCHANGED <<waitingReaders, waitingWriters, semReaders, semWriters,
                   lCount>>

EnterWrite(t) ==
    /\ active = 0
    /\ Goto(t, "out", "writing")
    /\ active' = -1
    /\ UNCHANGED <<waitingReaders, waitingWriters, semReaders, semWriters,
                   lCount>>

QueueWrite(t) ==
    /\ active # 0
    /\ Goto(t, "out", "waitWrite")
    /\ waitingWriters' = waitingWriters + 1
    /\ UNCHANGED <<active, waitingReaders, semReaders, semWriters, lCount>>

WakeWrite(t) ==
    /\ semWriters > 0
    /\ Goto(t, "waitWrite", "writing")
    /\ semWriters' = semWriters - 1
    /\ UNCHANGED <<active, waitingReaders, waitingWriters, semReaders, lCount>>

-----------------------------------------------------------------------------
(* Done: one holder less; whoever makes the resource free hands it to one  *)
(* waiting writer, else to every waiting reader.                           *)

Holding(t) == pc[t] \in {"reading", "writing"}

Released == IF active > 0 THEN active - 1 ELSE active + 1

(* Mutant: the last one out looks at the waiting writers only. *)
HandToNobodyForgetsReaders(t) ==
    /\ Released = 0 => waitingWriters = 0
    /\ active' = Released
    /\ pc' = [pc EXCEPT ![t] = "out"]
    /\ UNCHANGED <<waitingReaders, waitingWriters, lCount>>

HandToNobody(t) ==
    /\ Released = 0 => waitingWriters = 0 /\ waitingReaders = 0
    /\ active' = Released
    /\ pc' = [pc EXCEPT ![t] = "out"]
    /\ UNCHANGED <<waitingReaders, waitingWriters, lCount>>

HandToWriter(t) ==
    /\ Released = 0
    /\ waitingWriters > 0
    /\ active' = -1
    /\ waitingWriters' = waitingWriters - 1
    /\ lCount' = [lCount EXCEPT ![t] = 1]
    /\ pc' = [pc EXCEPT ![t] = "wakeWriter"]
    /\ UNCHANGED waitingReaders

(* Mutant: lCount keeps its initial 1 when readers are woken. *)
HandToOneReader(t) ==
    /\ Released = 0
    /\ waitingWriters = 0
    /\ waitingReaders > 0
    /\ active' = waitingReaders
    /\ waitingReaders' = 0
    /\ lCount' = [lCount EXCEPT ![t] = 1]
    /\ pc' = [pc EXCEPT ![t] = "wakeReaders"]
    /\ UNCHANGED waitingWriters

HandToReaders(t) ==
    /\ Released = 0
    /\ waitingWriters = 0
    /\ waitingReaders > 0
    /\ active' = waitingReaders
    /\ waitingReaders' = 0
    /\ lCount' = [lCount EXCEPT ![t] = waitingReaders]
    /\ pc' = [pc EXCEPT ![t] = "wakeReaders"]
    /\ UNCHANGED waitingWriters

Done(t) ==
    /\ Holding(t)
    /\ HandToNobody(t) \/ HandToWriter(t) \/ HandToReaders(t)
    /\ UNCHANGED <<semReaders, semWriters>>

(* ReleaseSemaphore, after LeaveCriticalSection. *)

ReleaseReaders(t) ==
    /\ Goto(t, "wakeReaders", "out")
    /\ semReaders' = semReaders + lCount[t]
    /\ lCount' = [lCount EXCEPT ![t] = 0]
    /\ UNCHANGED <<active, waitingReaders, waitingWriters, semWriters>>

ReleaseWriter(t) ==
    /\ Goto(t, "wakeWriter", "out")
    /\ semWriters' = semWriters + lCount[t]
    /\ lCount' = [lCount EXCEPT ![t] = 0]
    /\ UNCHANGED <<active, waitingReaders, waitingWriters, semReaders>>

-----------------------------------------------------------------------------
Next ==
    \/ \E t \in Threads :
          \/ EnterRead(t) \/ QueueRead(t) \/ WakeRead(t)
          \/ Done(t) \/ ReleaseReaders(t) \/ ReleaseWriter(t)
    \/ \E t \in Writers : EnterWrite(t) \/ QueueWrite(t) \/ WakeWrite(t)

Spec == Init /\ [][Next]_vars

(* A thread inside the guard keeps running and calls Done; the kernel's    *)
(* wait list passes over no waiter for ever (strong fairness of waking).   *)
(* Nothing makes a thread ask for the resource.                            *)
Fairness ==
    \A t \in Threads :
        /\ WF_vars(Done(t))
        /\ WF_vars(ReleaseReaders(t) \/ ReleaseWriter(t))
        /\ SF_vars(WakeRead(t))
        /\ SF_vars(WakeWrite(t))

FairSpec == Spec /\ Fairness

-----------------------------------------------------------------------------
(* What the guard is for: a writer is alone.  The threads concerned take   *)
(* the resource directly, or through a semaphore released by a thread that *)
(* has long left the critical section.                                     *)
MutualExclusion ==
    \A t, u \in Threads :
        pc[t] = "writing" /\ pc[u] \in {"reading", "writing"} => t = u

(* Wake-ups on their way: posted on the semaphore, or still in the local   *)
(* lCount of a thread that left the critical section of Done.  At most one *)
(* thread is at that place (OneWaker), so CHOOSE is the sum.               *)
Pending(s) ==
    IF At(s) = {} THEN 0 ELSE lCount[CHOOSE t \in Threads : pc[t] = s]

TokensR == semReaders + Pending("wakeReaders")
TokensW == semWriters + Pending("wakeWriter")

Count(s) == Cardinality(At(s))

(* No lost and no extra wake-up: every thread blocked on a semaphore is    *)
(* either counted as waiting or has one wake-up on its way, and m_nActive  *)
(* counts the threads inside plus those wake-ups.                          *)
WakeupsConserved ==
    /\ Count("waitRead") = waitingReaders + TokensR
    /\ Count("waitWrite") = waitingWriters + TokensW
    /\ Count("reading") + TokensR = IF active > 0 THEN active ELSE 0
    /\ Count("writing") + TokensW = IF active < 0 THEN 1 ELSE 0

(* The resource never lies free while a thread waits for it, and readers   *)
(* wait only behind a writer.                                              *)
NobodyWaitsInVain ==
    /\ active = 0 => waitingReaders = 0 /\ waitingWriters = 0
    /\ waitingReaders > 0 => ResourceWritePending

(* While a writer waits the number of readers let in never grows: the      *)
(* priority of writers the comment in Done speaks of.                      *)
WriterPriority ==
    [][waitingWriters > 0 /\ waitingWriters' > 0 => active' <= active]_vars

(* A thread that waits to write gets the resource, however many readers    *)
(* come and go.                                                            *)
WritersProgress ==
    \A t \in Writers : pc[t] = "waitWrite" ~> pc[t] = "writing"

(* A thread that waits to read gets the resource once no writer waits any  *)
(* more; while writers follow each other it may not, as the NOTE in Done   *)
(* says.                                                                   *)
ReadersProgress ==
    <>[](At("waitWrite") = {}) =>
        \A t \in Threads : pc[t] = "waitRead" ~> pc[t] = "reading"

(* No thread is forgotten in a queue of the guard: writers always get in,  *)
(* readers once the writers are through.                                   *)
ThreadsProgress == WritersProgress /\ ReadersProgress

(* The guard implements the abstract lock.  A thread about to release a    *)
(* semaphore has given the resource back already.                          *)
ModeOf(t) ==
    CASE pc[t] = "waitRead"  -> "wantRead"
      [] pc[t] = "waitWrite" -> "wantWrite"
      [] pc[t] \in {"reading", "writing"} -> pc[t]
      [] OTHER -> "out"

Lock == INSTANCE RWLock WITH mode <- [t \in Threads |-> ModeOf(t)]

(* Every run of the guard is a run of RWLock: counters and semaphores that *)
(* are handled in different steps never grant what the lock would refuse.  *)
ImplementsRWLock == Lock!Spec
=============================================================================
