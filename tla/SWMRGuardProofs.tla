-------------------------- MODULE SWMRGuardProofs --------------------------
(***************************************************************************)
(* Proofs about SWMRGuard, for any finite set of threads.                  *)
(*                                                                         *)
(* Mutual exclusion is not inductive: a thread that wakes from a semaphore *)
(* tests nothing.  The invariant that carries the proof counts: the        *)
(* threads at each place, plus the wake-ups posted or about to be posted,  *)
(* are what the three counters say.                                        *)
(***************************************************************************)
EXTENDS SWMRGuard, FiniteSetTheorems, TLAPS

(* At most one thread is between LeaveCriticalSection and ReleaseSemaphore *)
(* in Done: the resource it handed over is not free before it is taken.    *)
OneWaker ==
    \A t, u \in Threads :
        /\ pc[t] \in {"wakeReaders", "wakeWriter"}
        /\ pc[u] \in {"wakeReaders", "wakeWriter"}
        => t = u

WakersCarry ==
    \A t \in Threads :
        /\ pc[t] = "wakeReaders" => lCount[t] > 0
        /\ pc[t] = "wakeWriter" => lCount[t] = 1

IndInv ==
    /\ TypeOK
    /\ OneWaker
    /\ WakersCarry
    /\ WakeupsConserved
    /\ NobodyWaitsInVain

-----------------------------------------------------------------------------
(* The number of threads at a place is a natural number, not zero at a     *)
(* place where some thread is.                                             *)
LEMMA CountType ==
    \A s : /\ Count(s) \in Nat
           /\ \A t \in Threads : pc[t] = s => Count(s) > 0
  <1> SUFFICES ASSUME NEW s
               PROVE  /\ Count(s) \in Nat
                      /\ \A t \in Threads : pc[t] = s => Count(s) > 0
    OBVIOUS
  <1>1. At(s) \subseteq Threads /\ IsFiniteSet(At(s))
    BY ThreadsAssumption, FS_Subset DEF At
  <1>2. Count(s) \in Nat
    BY <1>1, FS_CardinalityType DEF Count
  <1>3. \A t \in Threads : pc[t] = s => At(s) # {}
    BY DEF At
  <1> QED
    BY <1>1, <1>2, <1>3, FS_EmptySet DEF Count

LEMMA CountsNat ==
    /\ Count("reading") \in Nat /\ Count("waitRead") \in Nat
    /\ Count("writing") \in Nat /\ Count("waitWrite") \in Nat
  BY CountType

(* A thread that goes from one place to another changes two counts by one. *)
LEMMA MoveCounts ==
    ASSUME TypeOK, NEW t \in Threads, NEW to \in PC, pc[t] # to,
           pc' = [pc EXCEPT ![t] = to]
    PROVE  \A s : Count(s)' = IF s = to THEN Count(s) + 1
                              ELSE IF s = pc[t] THEN Count(s) - 1
                              ELSE Count(s)
  <1> SUFFICES ASSUME NEW s
               PROVE  Count(s)' = IF s = to THEN Count(s) + 1
                                  ELSE IF s = pc[t] THEN Count(s) - 1
                                  ELSE Count(s)
    OBVIOUS
  <1>1. IsFiniteSet(At(s))
    BY ThreadsAssumption, FS_Subset DEF At
  <1>2. CASE s = to
    <2>1. At(s)' = At(s) \cup {t} /\ t \notin At(s)
      BY <1>2 DEF At, TypeOK
    <2> QED
      BY <1>1, <1>2, <2>1, FS_AddElement DEF Count
  <1>3. CASE s # to /\ s = pc[t]
    <2>1. At(s)' = At(s) \ {t} /\ t \in At(s)
      BY <1>3 DEF At, TypeOK
    <2> QED
      BY <1>1, <1>3, <2>1, FS_RemoveElement DEF Count
  <1>4. CASE s # to /\ s # pc[t]
    <2>1. At(s)' = At(s)
      BY <1>4 DEF At, TypeOK
    <2> QED
      BY <1>4, <2>1 DEF Count
  <1> QED
    BY <1>2, <1>3, <1>4

(* What Pending stands for: nothing where no thread is, and otherwise the  *)
(* lCount of the only thread there.                                        *)
LEMMA PendingValue ==
    ASSUME OneWaker, NEW s \in {"wakeReaders", "wakeWriter"}
    PROVE  /\ (\A t \in Threads : pc[t] # s) => Pending(s) = 0
           /\ \A t \in Threads : pc[t] = s => Pending(s) = lCount[t]
  <1>1. (\A t \in Threads : pc[t] # s) => Pending(s) = 0
    BY DEF Pending, At
  <1>2. ASSUME NEW t \in Threads, pc[t] = s
        PROVE  Pending(s) = lCount[t]
    <2> DEFINE c == CHOOSE u \in Threads : pc[u] = s
    <2>1. c \in Threads /\ pc[c] = s
      BY <1>2
    <2>2. c = t
      BY <1>2, <2>1 DEF OneWaker
    <2>3. At(s) # {}
      BY <1>2 DEF At
    <2> QED
      BY <2>2, <2>3 DEF Pending
  <1> QED
    BY <1>1, <1>2

(* Pending of the next state depends on the places and the lCounts there.  *)
LEMMA PendingValueNext ==
    ASSUME OneWaker', NEW s \in {"wakeReaders", "wakeWriter"}
    PROVE  /\ (\A t \in Threads : pc'[t] # s) => Pending(s)' = 0
           /\ \A t \in Threads : pc'[t] = s => Pending(s)' = lCount'[t]
  <1>1. (\A t \in Threads : pc'[t] # s) => Pending(s)' = 0
    BY DEF Pending, At
  <1>2. ASSUME NEW t \in Threads, pc'[t] = s
        PROVE  Pending(s)' = lCount'[t]
    <2> DEFINE c == CHOOSE u \in Threads : pc'[u] = s
    <2>1. c \in Threads /\ pc'[c] = s
      BY <1>2
    <2>2. c = t
      BY <1>2, <2>1 DEF OneWaker
    <2>3. At(s)' # {}
      BY <1>2 DEF At
    <2> QED
      BY <2>2, <2>3 DEF Pending
  <1> QED
    BY <1>1, <1>2

(* The wake-ups on their way are numbers.                                  *)
LEMMA TokensType ==
    ASSUME IndInv
    PROVE  /\ TokensR \in Nat
           /\ TokensW \in Nat
           /\ Pending("wakeReaders") \in Nat
           /\ Pending("wakeWriter") \in Nat
  <1>1. Pending("wakeReaders") \in Nat
    BY PendingValue DEF IndInv, TypeOK
  <1>2. Pending("wakeWriter") \in Nat
    BY PendingValue DEF IndInv, TypeOK
  <1> QED
    BY <1>1, <1>2 DEF IndInv, TypeOK, TokensR, TokensW

(* Every wake-up on its way keeps the resource taken: whoever finds it     *)
(* free, or makes it free, finds no thread about to release a semaphore.   *)
LEMMA WakerMeansTaken ==
    ASSUME IndInv, NEW u \in Threads,
           pc[u] \in {"wakeReaders", "wakeWriter"}
    PROVE  /\ active # 0
           /\ \A t \in Threads : Holding(t) => Released # 0
  <1>1. TypeOK /\ WakeupsConserved /\ OneWaker /\ WakersCarry
    BY DEF IndInv
  <1>2. TokensR > 0 \/ TokensW > 0
    <2>1. CASE pc[u] = "wakeReaders"
      <3>1. Pending("wakeReaders") = lCount[u] /\ lCount[u] > 0
        BY <1>1, <2>1, PendingValue DEF WakersCarry
      <3> QED
        BY <1>1, <3>1, TokensType DEF TokensR, TypeOK
    <2>2. CASE pc[u] = "wakeWriter"
      <3>1. Pending("wakeWriter") = lCount[u] /\ lCount[u] = 1
        BY <1>1, <2>2, PendingValue DEF WakersCarry
      <3> QED
        BY <1>1, <3>1, TokensType DEF TokensW, TypeOK
    <2> QED
      BY <2>1, <2>2
  <1>3. active # 0
    BY <1>1, <1>2, CountType, TokensType DEF WakeupsConserved, TypeOK
  <1>4. ASSUME NEW t \in Threads, Holding(t)
        PROVE  Released # 0
    <2>1. Count("reading") > 0 \/ Count("writing") > 0
      BY <1>4, CountType DEF Holding
    <2> QED
      BY <1>1, <1>2, <2>1, CountType, TokensType
      DEF WakeupsConserved, TypeOK, Released
  <1> QED
    BY <1>3, <1>4

-----------------------------------------------------------------------------
(* Nobody uses the guard at first: all counts are zero.                    *)
LEMMA InitIndInv == Init => IndInv
  <1> SUFFICES ASSUME Init PROVE IndInv
    OBVIOUS
  <1>1. \A s : s # "out" => Count(s) = 0
    BY FS_EmptySet DEF Init, At, Count
  <1>2. OneWaker /\ WakersCarry /\ TypeOK
    BY DEF Init, OneWaker, WakersCarry, TypeOK, PC
  <1>3. Pending("wakeReaders") = 0 /\ Pending("wakeWriter") = 0
    BY <1>2, PendingValue DEF Init
  <1> QED
    BY <1>1, <1>2, <1>3
    DEF Init, IndInv, WakeupsConserved, NobodyWaitsInVain, TokensR, TokensW

-----------------------------------------------------------------------------
(* A step that touches no waker leaves everything about wakers as it was.  *)
LEMMA WakersUntouched ==
    ASSUME IndInv, NEW t \in Threads, NEW to \in PC,
           pc[t] \notin {"wakeReaders", "wakeWriter"},
           to \notin {"wakeReaders", "wakeWriter"},
           pc' = [pc EXCEPT ![t] = to], lCount' = lCount
    PROVE  /\ OneWaker' /\ WakersCarry'
           /\ Pending("wakeReaders")' = Pending("wakeReaders")
           /\ Pending("wakeWriter")' = Pending("wakeWriter")
  <1>1. TypeOK /\ OneWaker /\ WakersCarry
    BY DEF IndInv
  <1>2. \A u \in Threads : \A s \in {"wakeReaders", "wakeWriter"} :
            pc'[u] = s <=> pc[u] = s
    BY <1>1 DEF TypeOK
  <1>3. OneWaker' /\ WakersCarry'
    BY <1>1, <1>2 DEF OneWaker, WakersCarry
  <1>4. ASSUME NEW s \in {"wakeReaders", "wakeWriter"}
        PROVE  Pending(s)' = Pending(s)
    <2>1. CASE \A u \in Threads : pc[u] # s
      BY <1>1, <1>2, <1>3, <2>1, PendingValue, PendingValueNext
    <2>2. CASE \E u \in Threads : pc[u] = s
      BY <1>1, <1>2, <1>3, <2>2, PendingValue, PendingValueNext
    <2> QED
      BY <2>1, <2>2
  <1> QED
    BY <1>3, <1>4

(* A reader let in at once. *)
LEMMA EnterReadStep ==
    ASSUME IndInv, NEW t \in Threads, EnterRead(t)
    PROVE  IndInv'
  <1>1. TypeOK /\ TypeOK'
    BY DEF IndInv, TypeOK, PC, Goto, EnterRead
  <1>2. /\ Count("reading")' = Count("reading") + 1
        /\ Count("waitRead")' = Count("waitRead")
        /\ Count("writing")' = Count("writing")
        /\ Count("waitWrite")' = Count("waitWrite")
    BY <1>1, MoveCounts DEF PC, Goto, EnterRead
  <1>3. OneWaker' /\ WakersCarry'
    BY WakersUntouched DEF PC, Goto, EnterRead
  <1>4. TokensR' = TokensR /\ TokensW' = TokensW
    <2>1. /\ Pending("wakeReaders")' = Pending("wakeReaders")
          /\ Pending("wakeWriter")' = Pending("wakeWriter")
      BY WakersUntouched DEF PC, Goto, EnterRead
    <2>2. semReaders \in Nat /\ semWriters \in Nat
      BY <1>1 DEF TypeOK
    <2> QED
      BY <2>1, <2>2, TokensType DEF TokensR, TokensW, EnterRead
  <1>5. WakeupsConserved'
    <2>1. WakeupsConserved /\ NobodyWaitsInVain
      BY DEF IndInv
    <2>2. active \in Int /\ active >= 0 /\ active' = active + 1
      BY <1>1 DEF TypeOK, EnterRead, ResourceWritePending
    <2>3. /\ waitingReaders \in Nat /\ waitingReaders' = waitingReaders
          /\ waitingWriters \in Nat /\ waitingWriters' = waitingWriters
      BY <1>1 DEF TypeOK, EnterRead
    <2> QED
      BY <1>2, <1>4, <2>1, <2>2, <2>3, CountsNat, TokensType
      DEF WakeupsConserved
  <1>6. NobodyWaitsInVain'
    BY DEF IndInv, TypeOK, NobodyWaitsInVain, ResourceWritePending, EnterRead
  <1> QED
    BY <1>1, <1>3, <1>5, <1>6 DEF IndInv

(* A reader that queues behind a writer. *)
LEMMA QueueReadStep ==
    ASSUME IndInv, NEW t \in Threads, QueueRead(t)
    PROVE  IndInv'
  <1>1. TypeOK /\ TypeOK'
    BY DEF IndInv, TypeOK, PC, Goto, QueueRead
  <1>2. /\ Count("reading")' = Count("reading")
        /\ Count("waitRead")' = Count("waitRead") + 1
        /\ Count("writing")' = Count("writing")
        /\ Count("waitWrite")' = Count("waitWrite")
    BY <1>1, MoveCounts DEF PC, Goto, QueueRead
  <1>3. OneWaker' /\ WakersCarry'
    BY WakersUntouched DEF PC, Goto, QueueRead
  <1>4. TokensR' = TokensR /\ TokensW' = TokensW
    <2>1. /\ Pending("wakeReaders")' = Pending("wakeReaders")
          /\ Pending("wakeWriter")' = Pending("wakeWriter")
      BY WakersUntouched DEF PC, Goto, QueueRead
    <2>2. semReaders \in Nat /\ semWriters \in Nat
      BY <1>1 DEF TypeOK
    <2> QED
      BY <2>1, <2>2, TokensType DEF TokensR, TokensW, QueueRead
  <1>5. WakeupsConserved'
    <2>1. WakeupsConserved /\ NobodyWaitsInVain
      BY DEF IndInv
    <2> QED
      BY <1>1, <1>2, <1>4, <2>1, CountsNat, TokensType
      DEF TypeOK, WakeupsConserved, NobodyWaitsInVain,
          ResourceWritePending, QueueRead
  <1>6. NobodyWaitsInVain'
    BY DEF IndInv, TypeOK, NobodyWaitsInVain, ResourceWritePending, QueueRead
  <1> QED
    BY <1>1, <1>3, <1>5, <1>6 DEF IndInv

(* A reader that takes its wake-up. *)
LEMMA WakeReadStep ==
    ASSUME IndInv, NEW t \in Threads, WakeRead(t)
    PROVE  IndInv'
  <1>1. TypeOK /\ TypeOK'
    BY DEF IndInv, TypeOK, PC, Goto, WakeRead
  <1>2. /\ Count("reading")' = Count("reading") + 1
        /\ Count("waitRead")' = Count("waitRead") - 1
        /\ Count("writing")' = Count("writing")
        /\ Count("waitWrite")' = Count("waitWrite")
    BY <1>1, MoveCounts DEF PC, Goto, WakeRead
  <1>3. OneWaker' /\ WakersCarry'
    BY WakersUntouched DEF PC, Goto, WakeRead
  <1>4. TokensR' = TokensR - 1 /\ TokensW' = TokensW
    <2>1. /\ Pending("wakeReaders")' = Pending("wakeReaders")
          /\ Pending("wakeWriter")' = Pending("wakeWriter")
      BY WakersUntouched DEF PC, Goto, WakeRead
    <2>2. semReaders \in Nat /\ semWriters \in Nat
      BY <1>1 DEF TypeOK
    <2> QED
      BY <2>1, <2>2, TokensType DEF TokensR, TokensW, WakeRead
  <1>5. WakeupsConserved'
    <2>1. WakeupsConserved /\ NobodyWaitsInVain
      BY DEF IndInv
    <2>2. active \in Int /\ active' = active
      BY <1>1 DEF TypeOK, WakeRead, ResourceWritePending
    <2>3. /\ waitingReaders \in Nat /\ waitingReaders' = waitingReaders
          /\ waitingWriters \in Nat /\ waitingWriters' = waitingWriters
      BY <1>1 DEF TypeOK, WakeRead
    <2> QED
      BY <1>2, <1>4, <2>1, <2>2, <2>3, CountsNat, TokensType
      DEF WakeupsConserved
  <1>6. NobodyWaitsInVain'
    BY DEF IndInv, TypeOK, NobodyWaitsInVain, ResourceWritePending, WakeRead
  <1> QED
    BY <1>1, <1>3, <1>5, <1>6 DEF IndInv

(* A writer let in at once. *)
LEMMA EnterWriteStep ==
    ASSUME IndInv, NEW t \in Threads, EnterWrite(t)
    PROVE  IndInv'
  <1>1. TypeOK /\ TypeOK'
    BY DEF IndInv, TypeOK, PC, Goto, EnterWrite
  <1>2. /\ Count("reading")' = Count("reading")
        /\ Count("waitRead")' = Count("waitRead")
        /\ Count("writing")' = Count("writing") + 1
        /\ Count("waitWrite")' = Count("waitWrite")
    BY <1>1, MoveCounts DEF PC, Goto, EnterWrite
  <1>3. OneWaker' /\ WakersCarry'
    BY WakersUntouched DEF PC, Goto, EnterWrite
  <1>4. TokensR' = TokensR /\ TokensW' = TokensW
    <2>1. /\ Pending("wakeReaders")' = Pending("wakeReaders")
          /\ Pending("wakeWriter")' = Pending("wakeWriter")
      BY WakersUntouched DEF PC, Goto, EnterWrite
    <2>2. semReaders \in Nat /\ semWriters \in Nat
      BY <1>1 DEF TypeOK
    <2> QED
      BY <2>1, <2>2, TokensType DEF TokensR, TokensW, EnterWrite
  <1>5. WakeupsConserved'
    <2>1. WakeupsConserved /\ NobodyWaitsInVain
      BY DEF IndInv
    <2> QED
      BY <1>1, <1>2, <1>4, <2>1, CountsNat, TokensType, SMTT(30)
      DEF TypeOK, WakeupsConserved, NobodyWaitsInVain,
          ResourceWritePending, EnterWrite
  <1>6. NobodyWaitsInVain'
    BY DEF IndInv, TypeOK, NobodyWaitsInVain, ResourceWritePending, EnterWrite
  <1> QED
    BY <1>1, <1>3, <1>5, <1>6 DEF IndInv

(* A writer that queues. *)
LEMMA QueueWriteStep ==
    ASSUME IndInv, NEW t \in Threads, QueueWrite(t)
    PROVE  IndInv'
  <1>1. TypeOK /\ TypeOK'
    BY DEF IndInv, TypeOK, PC, Goto, QueueWrite
  <1>2. /\ Count("reading")' = Count("reading")
        /\ Count("waitRead")' = Count("waitRead")
        /\ Count("writing")' = Count("writing")
        /\ Count("waitWrite")' = Count("waitWrite") + 1
    BY <1>1, MoveCounts DEF PC, Goto, QueueWrite
  <1>3. OneWaker' /\ WakersCarry'
    BY WakersUntouched DEF PC, Goto, QueueWrite
  <1>4. TokensR' = TokensR /\ TokensW' = TokensW
    <2>1. /\ Pending("wakeReaders")' = Pending("wakeReaders")
          /\ Pending("wakeWriter")' = Pending("wakeWriter")
      BY WakersUntouched DEF PC, Goto, QueueWrite
    <2>2. semReaders \in Nat /\ semWriters \in Nat
      BY <1>1 DEF TypeOK
    <2> QED
      BY <2>1, <2>2, TokensType DEF TokensR, TokensW, QueueWrite
  <1>5. WakeupsConserved'
    <2>1. WakeupsConserved /\ NobodyWaitsInVain
      BY DEF IndInv
    <2> QED
      BY <1>1, <1>2, <1>4, <2>1, CountsNat, TokensType
      DEF TypeOK, WakeupsConserved, NobodyWaitsInVain,
          ResourceWritePending, QueueWrite
  <1>6. NobodyWaitsInVain'
    BY DEF IndInv, TypeOK, NobodyWaitsInVain, ResourceWritePending, QueueWrite
  <1> QED
    BY <1>1, <1>3, <1>5, <1>6 DEF IndInv

(* A writer that takes its wake-up. *)
LEMMA WakeWriteStep ==
    ASSUME IndInv, NEW t \in Threads, WakeWrite(t)
    PROVE  IndInv'
  <1>1. TypeOK /\ TypeOK'
    BY DEF IndInv, TypeOK, PC, Goto, WakeWrite
  <1>2. /\ Count("reading")' = Count("reading")
        /\ Count("waitRead")' = Count("waitRead")
        /\ Count("writing")' = Count("writing") + 1
        /\ Count("waitWrite")' = Count("waitWrite") - 1
    BY <1>1, MoveCounts DEF PC, Goto, WakeWrite
  <1>3. OneWaker' /\ WakersCarry'
    BY WakersUntouched DEF PC, Goto, WakeWrite
  <1>4. TokensR' = TokensR /\ TokensW' = TokensW - 1
    <2>1. /\ Pending("wakeReaders")' = Pending("wakeReaders")
          /\ Pending("wakeWriter")' = Pending("wakeWriter")
      BY WakersUntouched DEF PC, Goto, WakeWrite
    <2>2. semReaders \in Nat /\ semWriters \in Nat
      BY <1>1 DEF TypeOK
    <2> QED
      BY <2>1, <2>2, TokensType DEF TokensR, TokensW, WakeWrite
  <1>5. WakeupsConserved'
    <2>1. WakeupsConserved /\ NobodyWaitsInVain
      BY DEF IndInv
    <2> QED
      BY <1>1, <1>2, <1>4, <2>1, CountsNat, TokensType
      DEF TypeOK, WakeupsConserved, NobodyWaitsInVain,
          ResourceWritePending, WakeWrite
  <1>6. NobodyWaitsInVain'
    BY DEF IndInv, TypeOK, NobodyWaitsInVain, ResourceWritePending, WakeWrite
  <1> QED
    BY <1>1, <1>3, <1>5, <1>6 DEF IndInv

-----------------------------------------------------------------------------
(* A holder leaves: one thread less inside, and m_nActive follows.         *)
LEMMA HolderCounts ==
    ASSUME IndInv, NEW t \in Threads, Holding(t),
           NEW to \in {"out", "wakeReaders", "wakeWriter"},
           pc' = [pc EXCEPT ![t] = to]
    PROVE  /\ Count("waitRead")' = Count("waitRead")
           /\ Count("waitWrite")' = Count("waitWrite")
           /\ Count("reading")' + TokensR = IF Released > 0 THEN Released ELSE 0
           /\ Count("writing")' + TokensW = IF Released < 0 THEN 1 ELSE 0
           /\ Count("reading")' \in Nat /\ Count("writing")' \in Nat
           /\ Released \in Int /\ Released >= 0
  <1>1. TypeOK /\ WakeupsConserved
    BY DEF IndInv
  <1>2. active \in Int /\ active >= -1
    BY <1>1 DEF TypeOK
  <1>3. CASE pc[t] = "reading"
    <2>1. /\ Count("waitRead")' = Count("waitRead")
          /\ Count("waitWrite")' = Count("waitWrite")
          /\ Count("reading")' = Count("reading") - 1
          /\ Count("writing")' = Count("writing")
      BY <1>1, <1>3, MoveCounts DEF PC
    <2>2. Count("reading") > 0
      BY <1>3, CountType
    <2>3. active > 0 /\ Released = active - 1
      BY <1>1, <1>2, <2>2, CountsNat, TokensType DEF WakeupsConserved, Released
    <2> QED
      BY <1>1, <1>2, <2>1, <2>2, <2>3, CountsNat, TokensType
      DEF WakeupsConserved
  <1>4. CASE pc[t] = "writing"
    <2>1. /\ Count("waitRead")' = Count("waitRead")
          /\ Count("waitWrite")' = Count("waitWrite")
          /\ Count("reading")' = Count("reading")
          /\ Count("writing")' = Count("writing") - 1
      BY <1>1, <1>4, MoveCounts DEF PC
    <2>2. Count("writing") > 0
      BY <1>4, CountType
    <2>3. active = -1 /\ Released = 0
      BY <1>1, <1>2, <2>2, CountsNat, TokensType DEF WakeupsConserved, Released
    <2> QED
      BY <1>1, <1>2, <2>1, <2>2, <2>3, CountsNat, TokensType
      DEF WakeupsConserved
  <1> QED
    BY <1>3, <1>4 DEF Holding

(* Done with nobody to wake.                                               *)
LEMMA HandToNobodyStep ==
    ASSUME IndInv, NEW t \in Threads, Done(t), HandToNobody(t)
    PROVE  IndInv'
  <1>0. /\ active' = Released
        /\ Released = 0 => waitingWriters = 0 /\ waitingReaders = 0
        /\ waitingReaders' = waitingReaders /\ waitingWriters' = waitingWriters
        /\ semReaders' = semReaders /\ semWriters' = semWriters
        /\ lCount' = lCount
        /\ pc' = [pc EXCEPT ![t] = "out"]
        /\ Holding(t)
    BY DEF Done, HandToNobody
  <1>1. /\ TypeOK /\ WakeupsConserved /\ NobodyWaitsInVain
        /\ waitingReaders \in Nat /\ waitingWriters \in Nat
    BY DEF IndInv, TypeOK
  <1>2. /\ Count("waitRead")' = Count("waitRead")
        /\ Count("waitWrite")' = Count("waitWrite")
        /\ Count("reading")' + TokensR = IF Released > 0 THEN Released ELSE 0
        /\ Count("writing")' + TokensW = IF Released < 0 THEN 1 ELSE 0
        /\ Released \in Int /\ Released >= 0
    BY <1>0, HolderCounts
  <1>3. /\ OneWaker' /\ WakersCarry'
        /\ Pending("wakeReaders")' = Pending("wakeReaders")
        /\ Pending("wakeWriter")' = Pending("wakeWriter")
    BY <1>0, WakersUntouched DEF PC, Holding
  <1>4. TokensR' = TokensR /\ TokensW' = TokensW
    BY <1>0, <1>3 DEF TokensR, TokensW
  <1>5. TypeOK'
    BY <1>0, <1>1, <1>2 DEF TypeOK, PC
  <1>6. WakeupsConserved'
    BY <1>0, <1>1, <1>2, <1>4 DEF WakeupsConserved
  <1>7. NobodyWaitsInVain'
    <2>1. waitingReaders > 0 => waitingWriters > 0
      <3>1. CASE pc[t] = "reading"
        <4>1. active > 0
          BY <1>1, <3>1, CountType, CountsNat, TokensType
          DEF WakeupsConserved, TypeOK
        <4> QED
          BY <1>1, <4>1 DEF NobodyWaitsInVain, ResourceWritePending, TypeOK
      <3>2. CASE pc[t] = "writing"
        <4>1. active = -1
          BY <1>1, <3>2, CountType, CountsNat, TokensType
          DEF WakeupsConserved, TypeOK
        <4>2. Released = 0
          BY <4>1 DEF Released
        <4> QED
          BY <1>0, <4>2, <1>1
      <3> QED
        BY <1>0, <3>1, <3>2 DEF Holding
    <2> QED
      BY <1>0, <1>1, <2>1 DEF NobodyWaitsInVain, ResourceWritePending
  <1> QED
    BY <1>3, <1>5, <1>6, <1>7 DEF IndInv

(* When the resource changes hands nobody is about to release a semaphore, *)
(* so the thread that hands it over is the only one, with its own lCount.  *)
LEMMA OnlyWaker ==
    ASSUME IndInv, NEW t \in Threads, Holding(t), Released = 0,
           NEW n \in Nat \ {0}, NEW s \in {"wakeReaders", "wakeWriter"},
           s = "wakeWriter" => n = 1,
           pc' = [pc EXCEPT ![t] = s], lCount' = [lCount EXCEPT ![t] = n]
    PROVE  /\ OneWaker' /\ WakersCarry'
           /\ Pending(s)' = n
           /\ Pending("wakeReaders") = 0 /\ Pending("wakeWriter") = 0
           /\ s = "wakeReaders" => Pending("wakeWriter")' = 0
           /\ s = "wakeWriter" => Pending("wakeReaders")' = 0
  <1>1. TypeOK /\ OneWaker
    BY DEF IndInv
  <1>2. \A u \in Threads : pc[u] \notin {"wakeReaders", "wakeWriter"}
    BY WakerMeansTaken
  <1>3. /\ pc'[t] = s /\ lCount'[t] = n
        /\ \A u \in Threads \ {t} :
              pc'[u] \notin {"wakeReaders", "wakeWriter"}
    BY <1>1, <1>2 DEF TypeOK
  <1>4. OneWaker' /\ WakersCarry'
    BY <1>3 DEF OneWaker, WakersCarry
  <1>5. Pending(s)' = n
    BY <1>3, <1>4, PendingValueNext
  <1>6. ASSUME NEW r \in {"wakeReaders", "wakeWriter"}
        PROVE  Pending(r) = 0 /\ (r # s => Pending(r)' = 0)
    BY <1>1, <1>2, <1>3, <1>4, PendingValue, PendingValueNext
  <1> QED
    BY <1>4, <1>5, <1>6

(* Done that hands the resource to one waiting writer.                     *)
LEMMA HandToWriterStep ==
    ASSUME IndInv, NEW t \in Threads, Done(t), HandToWriter(t)
    PROVE  IndInv'
  <1>0. /\ Released = 0 /\ waitingWriters > 0
        /\ active' = -1 /\ waitingWriters' = waitingWriters - 1
        /\ waitingReaders' = waitingReaders
        /\ semReaders' = semReaders /\ semWriters' = semWriters
        /\ lCount' = [lCount EXCEPT ![t] = 1]
        /\ pc' = [pc EXCEPT ![t] = "wakeWriter"]
        /\ Holding(t)
    BY DEF Done, HandToWriter
  <1>1. /\ TypeOK /\ WakeupsConserved
        /\ waitingReaders \in Nat /\ waitingWriters \in Nat
        /\ semReaders \in Nat /\ semWriters \in Nat
    BY DEF IndInv, TypeOK
  <1>2. /\ Count("waitRead")' = Count("waitRead")
        /\ Count("waitWrite")' = Count("waitWrite")
        /\ Count("reading")' + TokensR = 0
        /\ Count("writing")' + TokensW = 0
        /\ Count("reading")' \in Nat /\ Count("writing")' \in Nat
    <2>1. /\ Count("waitRead")' = Count("waitRead")
          /\ Count("waitWrite")' = Count("waitWrite")
          /\ Count("reading")' + TokensR = IF Released > 0 THEN Released ELSE 0
          /\ Count("writing")' + TokensW = IF Released < 0 THEN 1 ELSE 0
          /\ Count("reading")' \in Nat /\ Count("writing")' \in Nat
      BY <1>0, HolderCounts
    <2> QED
      BY <1>0, <2>1
  <1>3. /\ OneWaker' /\ WakersCarry'
        /\ Pending("wakeReaders") = 0 /\ Pending("wakeWriter") = 0
        /\ Pending("wakeReaders")' = 0 /\ Pending("wakeWriter")' = 1
    <2>1. 1 \in Nat \ {0} /\ "wakeWriter" \in {"wakeReaders", "wakeWriter"}
      OBVIOUS
    <2> QED
      BY <1>0, <2>1, OnlyWaker
  <1>4. TokensR' = TokensR /\ TokensW' = TokensW + 1
    BY <1>0, <1>1, <1>3 DEF TokensR, TokensW
  <1>5. TypeOK'
    BY <1>0, <1>1 DEF TypeOK, PC
  <1>6. WakeupsConserved'
    BY <1>0, <1>1, <1>2, <1>4, TokensType, CountsNat DEF WakeupsConserved
  <1>7. NobodyWaitsInVain'
    BY <1>0 DEF NobodyWaitsInVain, ResourceWritePending
  <1> QED
    BY <1>3, <1>5, <1>6, <1>7 DEF IndInv

(* Done that hands the resource to every waiting reader.                   *)
LEMMA HandToReadersStep ==
    ASSUME IndInv, NEW t \in Threads, Done(t), HandToReaders(t)
    PROVE  IndInv'
  <1>0. /\ Released = 0 /\ waitingWriters = 0 /\ waitingReaders > 0
        /\ active' = waitingReaders /\ waitingReaders' = 0
        /\ waitingWriters' = waitingWriters
        /\ semReaders' = semReaders /\ semWriters' = semWriters
        /\ lCount' = [lCount EXCEPT ![t] = waitingReaders]
        /\ pc' = [pc EXCEPT ![t] = "wakeReaders"]
        /\ Holding(t)
    BY DEF Done, HandToReaders
  <1>1. /\ TypeOK /\ WakeupsConserved
        /\ waitingReaders \in Nat /\ waitingWriters \in Nat
        /\ semReaders \in Nat /\ semWriters \in Nat
    BY DEF IndInv, TypeOK
  <1>2. /\ Count("waitRead")' = Count("waitRead")
        /\ Count("waitWrite")' = Count("waitWrite")
        /\ Count("reading")' + TokensR = 0
        /\ Count("writing")' + TokensW = 0
        /\ Count("reading")' \in Nat /\ Count("writing")' \in Nat
    <2>1. /\ Count("waitRead")' = Count("waitRead")
          /\ Count("waitWrite")' = Count("waitWrite")
          /\ Count("reading")' + TokensR = IF Released > 0 THEN Released ELSE 0
          /\ Count("writing")' + TokensW = IF Released < 0 THEN 1 ELSE 0
          /\ Count("reading")' \in Nat /\ Count("writing")' \in Nat
      BY <1>0, HolderCounts
    <2> QED
      BY <1>0, <2>1
  <1>3. /\ OneWaker' /\ WakersCarry'
        /\ Pending("wakeReaders") = 0 /\ Pending("wakeWriter") = 0
        /\ Pending("wakeReaders")' = waitingReaders
        /\ Pending("wakeWriter")' = 0
    <2>1. /\ waitingReaders \in Nat \ {0}
          /\ "wakeReaders" \in {"wakeReaders", "wakeWriter"}
      BY <1>0, <1>1
    <2> QED
      BY <1>0, <2>1, OnlyWaker
  <1>4. TokensR' = TokensR + waitingReaders /\ TokensW' = TokensW
    BY <1>0, <1>1, <1>3 DEF TokensR, TokensW
  <1>5. TypeOK'
    BY <1>0, <1>1 DEF TypeOK, PC
  <1>6. WakeupsConserved'
    BY <1>0, <1>1, <1>2, <1>4, TokensType, CountsNat, SMTT(30) DEF WakeupsConserved
  <1>7. NobodyWaitsInVain'
    BY <1>0, <1>1 DEF NobodyWaitsInVain, ResourceWritePending
  <1> QED
    BY <1>3, <1>5, <1>6, <1>7 DEF IndInv

(* ReleaseSemaphore moves a wake-up from lCount to the semaphore.          *)
LEMMA ReleaseTokens ==
    ASSUME IndInv, NEW t \in Threads,
           NEW s \in {"wakeReaders", "wakeWriter"}, pc[t] = s,
           pc' = [pc EXCEPT ![t] = "out"], lCount' = [lCount EXCEPT ![t] = 0]
    PROVE  /\ OneWaker' /\ WakersCarry'
           /\ Pending(s) = lCount[t] /\ lCount[t] \in Nat
           /\ s = "wakeReaders" => Pending("wakeWriter") = 0
           /\ s = "wakeWriter" => Pending("wakeReaders") = 0
           /\ Pending("wakeReaders")' = 0 /\ Pending("wakeWriter")' = 0
           /\ Count("waitRead")' = Count("waitRead")
           /\ Count("waitWrite")' = Count("waitWrite")
           /\ Count("reading")' = Count("reading")
           /\ Count("writing")' = Count("writing")
  <1>1. TypeOK /\ OneWaker
    BY DEF IndInv
  <1>2. \A u \in Threads \ {t} : pc[u] \notin {"wakeReaders", "wakeWriter"}
    BY DEF IndInv, OneWaker
  <1>3. \A u \in Threads : pc'[u] \notin {"wakeReaders", "wakeWriter"}
    BY <1>1, <1>2 DEF TypeOK
  <1>4. OneWaker' /\ WakersCarry'
    BY <1>3 DEF OneWaker, WakersCarry
  <1>5. /\ Pending(s) = lCount[t] /\ lCount[t] \in Nat
        /\ s = "wakeReaders" => Pending("wakeWriter") = 0
        /\ s = "wakeWriter" => Pending("wakeReaders") = 0
    BY <1>1, <1>2, PendingValue DEF TypeOK
  <1>6. Pending("wakeReaders")' = 0 /\ Pending("wakeWriter")' = 0
    BY <1>3, <1>4, PendingValueNext
  <1>7. /\ Count("waitRead")' = Count("waitRead")
        /\ Count("waitWrite")' = Count("waitWrite")
        /\ Count("reading")' = Count("reading")
        /\ Count("writing")' = Count("writing")
    BY <1>1, MoveCounts DEF PC
  <1> QED
    BY <1>4, <1>5, <1>6, <1>7

LEMMA ReleaseReadersStep ==
    ASSUME IndInv, NEW t \in Threads, ReleaseReaders(t)
    PROVE  IndInv'
  <1>0. /\ pc[t] = "wakeReaders" /\ "wakeReaders" \in {"wakeReaders", "wakeWriter"}
        /\ pc' = [pc EXCEPT ![t] = "out"]
        /\ semReaders' = semReaders + lCount[t] /\ semWriters' = semWriters
        /\ lCount' = [lCount EXCEPT ![t] = 0]
        /\ UNCHANGED <<active, waitingReaders, waitingWriters>>
    BY DEF ReleaseReaders, Goto
  <1>1. /\ TypeOK /\ WakeupsConserved /\ NobodyWaitsInVain
        /\ semReaders \in Nat /\ semWriters \in Nat
    BY DEF IndInv, TypeOK
  <1>2. /\ OneWaker' /\ WakersCarry'
        /\ Pending("wakeReaders") = lCount[t] /\ lCount[t] \in Nat
        /\ Pending("wakeWriter") = 0
        /\ Pending("wakeReaders")' = 0 /\ Pending("wakeWriter")' = 0
        /\ Count("waitRead")' = Count("waitRead")
        /\ Count("waitWrite")' = Count("waitWrite")
        /\ Count("reading")' = Count("reading")
        /\ Count("writing")' = Count("writing")
    BY <1>0, ReleaseTokens
  <1>3. TokensR' = TokensR /\ TokensW' = TokensW
    BY <1>0, <1>1, <1>2 DEF TokensR, TokensW
  <1>4. TypeOK'
    BY <1>0, <1>1, <1>2 DEF TypeOK, PC
  <1>5. WakeupsConserved' /\ NobodyWaitsInVain'
    BY <1>0, <1>1, <1>2, <1>3
    DEF WakeupsConserved, NobodyWaitsInVain, ResourceWritePending
  <1> QED
    BY <1>2, <1>4, <1>5 DEF IndInv

LEMMA ReleaseWriterStep ==
    ASSUME IndInv, NEW t \in Threads, ReleaseWriter(t)
    PROVE  IndInv'
  <1>0. /\ pc[t] = "wakeWriter" /\ "wakeWriter" \in {"wakeReaders", "wakeWriter"}
        /\ pc' = [pc EXCEPT ![t] = "out"]
        /\ semWriters' = semWriters + lCount[t] /\ semReaders' = semReaders
        /\ lCount' = [lCount EXCEPT ![t] = 0]
        /\ UNCHANGED <<active, waitingReaders, waitingWriters>>
    BY DEF ReleaseWriter, Goto
  <1>1. /\ TypeOK /\ WakeupsConserved /\ NobodyWaitsInVain
        /\ semReaders \in Nat /\ semWriters \in Nat
    BY DEF IndInv, TypeOK
  <1>2. /\ OneWaker' /\ WakersCarry'
        /\ Pending("wakeWriter") = lCount[t] /\ lCount[t] \in Nat
        /\ Pending("wakeReaders") = 0
        /\ Pending("wakeReaders")' = 0 /\ Pending("wakeWriter")' = 0
        /\ Count("waitRead")' = Count("waitRead")
        /\ Count("waitWrite")' = Count("waitWrite")
        /\ Count("reading")' = Count("reading")
        /\ Count("writing")' = Count("writing")
    BY <1>0, ReleaseTokens
  <1>3. TokensR' = TokensR /\ TokensW' = TokensW
    BY <1>0, <1>1, <1>2 DEF TokensR, TokensW
  <1>4. TypeOK'
    BY <1>0, <1>1, <1>2 DEF TypeOK, PC
  <1>5. WakeupsConserved' /\ NobodyWaitsInVain'
    BY <1>0, <1>1, <1>2, <1>3
    DEF WakeupsConserved, NobodyWaitsInVain, ResourceWritePending
  <1> QED
    BY <1>2, <1>4, <1>5 DEF IndInv

-----------------------------------------------------------------------------
(* No step of any thread breaks the invariant.                             *)
LEMMA NextIndInv == IndInv /\ [Next]_vars => IndInv'
  <1> SUFFICES ASSUME IndInv, [Next]_vars PROVE IndInv'
    OBVIOUS
  <1>1. CASE UNCHANGED vars
    BY <1>1 DEF vars, IndInv, TypeOK, OneWaker, WakersCarry, WakeupsConserved,
        NobodyWaitsInVain, ResourceWritePending, Count, At, TokensR, TokensW,
        Pending
  <1>2. ASSUME NEW t \in Threads, Done(t) PROVE IndInv'
    BY <1>2, HandToNobodyStep, HandToWriterStep, HandToReadersStep DEF Done
  <1> QED
    BY <1>1, <1>2, EnterReadStep, QueueReadStep, WakeReadStep, EnterWriteStep,
       QueueWriteStep, WakeWriteStep, ReleaseReadersStep, ReleaseWriterStep,
       ThreadsAssumption DEF Next

(* The counters, the semaphores and the threads' places agree in every     *)
(* state, although Done leaves the critical section before it releases a   *)
(* semaphore.                                                              *)
THEOREM GuardBookkeeping == Spec => [](TypeOK /\ WakeupsConserved)
  <1>1. IndInv => TypeOK /\ WakeupsConserved
    BY DEF IndInv
  <1> QED
    BY <1>1, InitIndInv, NextIndInv, PTL DEF Spec

(* Whoever leaves last hands the resource on: no thread is blocked while   *)
(* the guard is free, and a blocked reader waits for a writer.             *)
THEOREM GuardKeepsNobodyWaiting == Spec => []NobodyWaitsInVain
  <1>1. IndInv => NobodyWaitsInVain
    BY DEF IndInv
  <1> QED
    BY <1>1, InitIndInv, NextIndInv, PTL DEF Spec

(* Two threads at one place are two to count.                              *)
LEMMA TwoAtOnePlace ==
    ASSUME NEW s, NEW t \in Threads, NEW u \in Threads, t # u,
           pc[t] = s, pc[u] = s
    PROVE  Count(s) > 1
  <1>1. At(s) \subseteq Threads /\ IsFiniteSet(At(s)) /\ t \in At(s) /\ u \in At(s)
    BY ThreadsAssumption, FS_Subset DEF At
  <1>2. IsFiniteSet(At(s) \ {t}) /\ Cardinality(At(s) \ {t}) = Count(s) - 1
    BY <1>1, FS_RemoveElement DEF Count
  <1>3. Cardinality(At(s) \ {t}) # 0
    BY <1>1, <1>2, FS_EmptySet
  <1>4. Cardinality(At(s) \ {t}) \in Nat
    BY <1>2, FS_CardinalityType
  <1> QED
    BY <1>2, <1>3, <1>4, CountType

LEMMA IndInvExcludes == IndInv => MutualExclusion
  <1> SUFFICES ASSUME IndInv, NEW t \in Threads, NEW u \in Threads,
                      pc[t] = "writing", pc[u] \in {"reading", "writing"},
                      t # u
               PROVE  FALSE
    BY DEF MutualExclusion
  <1>1. /\ Count("writing") > 0 /\ Count("writing") \in Nat
        /\ Count("reading") \in Nat /\ TokensR \in Nat /\ TokensW \in Nat
        /\ active \in Int
    BY CountType, TokensType DEF IndInv, TypeOK
  <1>2. active < 0 /\ Count("writing") = 1 /\ Count("reading") = 0
    <2>1. /\ Count("reading") + TokensR = IF active > 0 THEN active ELSE 0
          /\ Count("writing") + TokensW = IF active < 0 THEN 1 ELSE 0
      BY DEF IndInv, WakeupsConserved
    <2>2. active < 0
      BY <1>1, <2>1
    <2>3. Count("reading") + TokensR = 0 /\ Count("writing") + TokensW = 1
      BY <1>1, <2>1, <2>2
    <2>4. Count("reading") = 0
      BY <1>1, <2>3
    <2>5. Count("writing") = 1
      <3>1. \A a, b \in Nat : a > 0 /\ a + b = 1 => a = 1
        OBVIOUS
      <3> QED
        BY <1>1, <2>3, <3>1
    <2> QED
      BY <2>2, <2>4, <2>5
  <1>3. CASE pc[u] = "reading"
    BY <1>2, <1>3, CountType
  <1>4. CASE pc[u] = "writing"
    BY <1>2, <1>4, TwoAtOnePlace
  <1> QED
    BY <1>3, <1>4

(* A writer is alone, for any number of threads.                           *)
THEOREM GuardExcludes == Spec => []MutualExclusion
  BY InitIndInv, NextIndInv, IndInvExcludes, PTL DEF Spec

(* While a writer waits no reader is let in: neither the test of WaitToRead *)
(* nor the hand-over in Done lets the number of active readers grow.       *)
THEOREM GuardPrefersWriters == Spec => WriterPriority
  <1>1. ASSUME IndInv, [Next]_vars
        PROVE  [waitingWriters > 0 /\ waitingWriters' > 0
                => active' <= active]_vars
    <2> SUFFICES ASSUME Next, waitingWriters > 0, waitingWriters' > 0
                 PROVE  active' <= active
      BY <1>1
    <2>1. active \in Int /\ active >= -1
      BY <1>1 DEF IndInv, TypeOK
    <2>2. ASSUME NEW t \in Threads, Done(t) PROVE active' <= active
      <3>1. active <= 0 => Released = active + 1
        BY <2>1 DEF Released
      <3>2. active < 0 => Released = 0
        <4>1. active < 0 => active = -1
          BY <2>1
        <4> QED
          BY <3>1, <4>1
      <3>3. active # 0
        <4>1. pc[t] \in {"reading", "writing"}
          BY <2>2 DEF Done, Holding
        <4>2. Count("reading") > 0 \/ Count("writing") > 0
          BY <4>1, CountType
        <4> QED
          BY <1>1, <2>1, <4>2, CountsNat, TokensType
          DEF IndInv, WakeupsConserved
      <3>4. CASE HandToNobody(t)
        BY <2>1, <3>2, <3>3, <3>4 DEF HandToNobody, Released
      <3>5. CASE HandToWriter(t)
        BY <2>1, <3>5 DEF HandToWriter
      <3>6. CASE HandToReaders(t)
        BY <3>6 DEF HandToReaders
      <3> QED
        BY <2>2, <3>4, <3>5, <3>6 DEF Done
    <2>3. ASSUME NEW t \in Threads, EnterRead(t) PROVE active' <= active
      BY <2>3 DEF EnterRead, ResourceWritePending
    <2> QED
      BY <2>1, <2>2, <2>3, ThreadsAssumption
      DEF Next, QueueRead, WakeRead, EnterWrite, QueueWrite, WakeWrite,
          ReleaseReaders, ReleaseWriter
  <1> QED
    BY <1>1, InitIndInv, NextIndInv, PTL DEF Spec, WriterPriority

-----------------------------------------------------------------------------
(* Refinement.  The steps of Done and of the semaphores map to Leave and   *)
(* to steps that change nothing; a grant is legal because mutual exclusion *)
(* holds after it.                                                         *)
Mode == [t \in Threads |-> ModeOf(t)]

LEMMA ModeMoves ==
    ASSUME TypeOK, NEW t \in Threads, NEW to \in PC,
           pc' = [pc EXCEPT ![t] = to]
    PROVE  Mode' = [Mode EXCEPT ![t] =
                      CASE to = "waitRead"  -> "wantRead"
                        [] to = "waitWrite" -> "wantWrite"
                        [] to \in {"reading", "writing"} -> to
                        [] OTHER -> "out"]
  <1>1. ASSUME NEW u \in Threads, u # t
        PROVE  pc'[u] = pc[u]
    BY <1>1 DEF TypeOK
  <1>2. pc'[t] = to
    BY DEF TypeOK
  <1> QED
    BY <1>1, <1>2 DEF Mode, ModeOf

LEMMA StepRefines ==
    IndInv /\ IndInv' /\ [Next]_vars => [Lock!Next]_Mode
  <1> SUFFICES ASSUME IndInv, IndInv', [Next]_vars
               PROVE  Lock!Next \/ UNCHANGED Mode
    BY DEF Lock!Next, Mode
  <1>1. TypeOK /\ MutualExclusion' /\ Writers \subseteq Threads
    <2>1. IndInv' => MutualExclusion'
      BY IndInvExcludes, PTL
    <2> QED
      BY <2>1, ThreadsAssumption DEF IndInv
  <1> USE DEF PC, Goto
  <1>2. ASSUME NEW t \in Threads, pc'[t] = "reading", pc[t] # "writing",
               \A u \in Threads \ {t} : pc'[u] = pc[u]
        PROVE  \A u \in Threads : Mode[u] # "writing"
    BY <1>1, <1>2 DEF MutualExclusion, Mode, ModeOf
  <1>3. ASSUME NEW t \in Threads, pc'[t] = "writing",
               pc[t] \notin {"reading", "writing"},
               \A u \in Threads \ {t} : pc'[u] = pc[u]
        PROVE  \A u \in Threads : Mode[u] \notin {"reading", "writing"}
    BY <1>1, <1>3 DEF MutualExclusion, Mode, ModeOf
  <1>4. ASSUME NEW t \in Threads, EnterRead(t) \/ WakeRead(t)
        PROVE  Lock!GrantRead(t)
    <2>1. /\ pc' = [pc EXCEPT ![t] = "reading"]
          /\ pc[t] \in {"out", "waitRead"}
      BY <1>4 DEF EnterRead, WakeRead
    <2>2. Mode' = [Mode EXCEPT ![t] = "reading"]
      BY <1>1, <2>1, ModeMoves
    <2>3. \A u \in Threads : Mode[u] # "writing"
      BY <1>1, <1>2, <2>1 DEF TypeOK
    <2>4. Mode[t] \in {"out", "wantRead"}
      BY <2>1 DEF Mode, ModeOf
    <2> QED
      BY <2>2, <2>3, <2>4 DEF Lock!GrantRead, Mode
  <1>5. ASSUME NEW t \in Writers, EnterWrite(t) \/ WakeWrite(t)
        PROVE  Lock!GrantWrite(t)
    <2>1. /\ pc' = [pc EXCEPT ![t] = "writing"] /\ t \in Threads
          /\ pc[t] \in {"out", "waitWrite"}
      BY <1>1, <1>5 DEF EnterWrite, WakeWrite
    <2>2. Mode' = [Mode EXCEPT ![t] = "writing"]
      BY <1>1, <2>1, ModeMoves
    <2>3. \A u \in Threads : Mode[u] \notin {"reading", "writing"}
      BY <1>1, <1>3, <2>1 DEF TypeOK
    <2>4. Mode[t] \in {"out", "wantWrite"}
      BY <2>1 DEF Mode, ModeOf
    <2> QED
      BY <2>2, <2>3, <2>4 DEF Lock!GrantWrite, Mode
  <1>6. ASSUME NEW t \in Threads, QueueRead(t)
        PROVE  Lock!Ask(t, "wantRead")
    <2>1. Mode' = [Mode EXCEPT ![t] = "wantRead"] /\ Mode[t] = "out"
      BY <1>1, <1>6, ModeMoves DEF QueueRead, Mode, ModeOf
    <2> QED
      BY <2>1 DEF Lock!Ask, Mode
  <1>7. ASSUME NEW t \in Writers, QueueWrite(t)
        PROVE  Lock!Ask(t, "wantWrite")
    <2>1. Mode' = [Mode EXCEPT ![t] = "wantWrite"] /\ Mode[t] = "out"
      BY <1>1, <1>7, ModeMoves DEF QueueWrite, Mode, ModeOf
    <2> QED
      BY <2>1 DEF Lock!Ask, Mode
  <1>8. ASSUME NEW t \in Threads, Done(t)
        PROVE  Lock!Leave(t)
    <2>1. PICK to \in {"out", "wakeReaders", "wakeWriter"} :
             pc' = [pc EXCEPT ![t] = to]
      BY <1>8 DEF Done, HandToNobody, HandToWriter, HandToReaders
    <2>2. Mode' = [Mode EXCEPT ![t] = "out"]
      BY <1>1, <2>1, ModeMoves
    <2>3. Mode[t] \in {"reading", "writing"}
      BY <1>8 DEF Done, Holding, Mode, ModeOf
    <2> QED
      BY <2>2, <2>3 DEF Lock!Leave, Mode
  <1>9. ASSUME NEW t \in Threads, ReleaseReaders(t) \/ ReleaseWriter(t)
        PROVE  UNCHANGED Mode
    <2>1. Mode' = [Mode EXCEPT ![t] = "out"] /\ Mode[t] = "out"
      BY <1>1, <1>9, ModeMoves DEF ReleaseReaders, ReleaseWriter, Mode, ModeOf
    <2> QED
      BY <2>1 DEF Mode
  <1>10. CASE UNCHANGED vars
    BY <1>10 DEF vars, Mode, ModeOf
  <1> QED
    BY <1>4, <1>5, <1>6, <1>7, <1>8, <1>9, <1>10 DEF Next, Lock!Next

(* The guard is the abstract lock, for any number of threads.              *)
THEOREM GuardImplementsLock == Spec => ImplementsRWLock
  <1>1. Init => Lock!Init
    BY DEF Init, Lock!Init, ModeOf
  <1> QED
    BY <1>1, InitIndInv, NextIndInv, StepRefines, PTL
    DEF Spec, ImplementsRWLock, Lock!Spec, Mode
=============================================================================
