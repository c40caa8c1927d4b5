---------------------------- MODULE RwLockProofs ----------------------------
(***************************************************************************)
(* Proofs about RwLock, for any finite set of threads.  There is one       *)
(* writer at most; and until tryLock has marked over a reader no reader    *)
(* meets a writer, because the counts are exact and the semaphore has a    *)
(* permit only for a writer that no reader keeps waiting.                  *)
(***************************************************************************)
EXTENDS RwLock, FiniteSetTheorems, TLAPS

Places == {"idle", "asking", "mark", "semaphore", "writing", "tryload", "trymark",
           "unlock", "shared", "tryshared", "sharedmutex", "trysharedmutex", "join",
           "joined", "reading", "post"}

\* where a thread has the mutex
Held == {"mark", "semaphore", "writing", "tryload", "trymark", "unlock", "join", "joined"}

PcType == pc \in [Threads -> Places]

\* The mutex has the owner that the program counters say.
Holder == owner \in Threads \cup {NoOne} /\ \A t \in Threads : pc[t] \in Held <=> owner = t

-----------------------------------------------------------------------------
LEMMA PcNext == ASSUME PcType, [Next]_vars PROVE PcType'
<1> USE DEF PcType, Goto, Places
<1>1. ASSUME NEW t \in Threads, Ask(t) \/ TryLock(t) \/ LoadShared(t) \/ LoadTryShared(t)
      PROVE  PcType'
  BY <1>1 DEF Ask, TryLock, LoadShared, LoadTryShared, MutexLock, MutexRefused
<1>2. ASSUME NEW t \in Threads, Locks(t) \/ TrySharedMutex(t) PROVE PcType'
  BY <1>2 DEF Locks, WriterMutex, SharedMutex, TrySharedMutex, MutexLock, MutexRefused
<1>3. ASSUME NEW t \in Threads,
             Mark(t) \/ SemaphoreWait(t) \/ TryLoad(t) \/ TryMark(t) \/ Unmark(t) \/ Unlock(t)
      PROVE  PcType'
  BY <1>3 DEF Mark, SemaphoreWait, TryLoad, TryMark, Unmark, Unlock, MutexUnlock
<1>4. ASSUME NEW t \in Threads, JoinShared(t) \/ JoinTryShared(t) PROVE PcType'
  BY <1>4 DEF JoinShared, JoinTryShared, Join
<1>5. ASSUME NEW t \in Threads, JoinUnderMutex(t) \/ Joined(t) \/ LeaveShared(t) \/ Post(t)
      PROVE  PcType'
  BY <1>5 DEF JoinUnderMutex, Joined, LeaveShared, Post, MutexUnlock
<1>6. CASE UNCHANGED vars
  BY <1>6 DEF vars
<1> QED
  BY <1>1, <1>2, <1>3, <1>4, <1>5, <1>6 DEF Next, Runs

LEMMA HolderNext == ASSUME PcType, Holder, [Next]_vars PROVE Holder'
<1> USE RwAssumption DEF PcType, Holder, Goto, Held, Places
<1>1. ASSUME NEW t \in Threads, Ask(t) \/ TryLock(t) \/ LoadShared(t) \/ LoadTryShared(t)
      PROVE  Holder'
  BY <1>1 DEF Ask, TryLock, LoadShared, LoadTryShared, MutexLock, MutexRefused
<1>2. ASSUME NEW t \in Threads, Locks(t) \/ TrySharedMutex(t) PROVE Holder'
  BY <1>2 DEF Locks, WriterMutex, SharedMutex, TrySharedMutex, MutexLock, MutexRefused
<1>3. ASSUME NEW t \in Threads,
             Mark(t) \/ SemaphoreWait(t) \/ TryLoad(t) \/ TryMark(t) \/ Unmark(t)
      PROVE  Holder'
  BY <1>3 DEF Mark, SemaphoreWait, TryLoad, TryMark, Unmark
<1>4. ASSUME NEW t \in Threads, JoinShared(t) \/ JoinTryShared(t) PROVE Holder'
  BY <1>4 DEF JoinShared, JoinTryShared, Join
<1>5. ASSUME NEW t \in Threads, JoinUnderMutex(t) \/ LeaveShared(t) \/ Post(t)
      PROVE  Holder'
  BY <1>5 DEF JoinUnderMutex, LeaveShared, Post
<1>6. ASSUME NEW t \in Threads, Unlock(t) \/ Joined(t) PROVE Holder'
  BY <1>6 DEF Unlock, Joined, MutexUnlock
<1>7. CASE UNCHANGED vars
  BY <1>7 DEF vars
<1> QED
  BY <1>1, <1>2, <1>3, <1>4, <1>5, <1>6, <1>7 DEF Next, Runs

LEMMA HolderInit == Init => PcType /\ Holder
BY RwAssumption DEF Init, PcType, Holder, Places, Held

\* Whoever writes holds the mutex.
LEMMA HolderAlone == PcType /\ Holder => OneWriter
BY DEF Holder, OneWriter, Writing, Held

\* Two threads never hold the lock exclusively at a time (OneWriter), by lock or
\* by tryLock: each holds the mutex.
THEOREM WriterAlone == Spec => []OneWriter
BY HolderAlone, HolderInit, PcNext, HolderNext, PTL DEF Spec

-----------------------------------------------------------------------------
(***************************************************************************)
(* The counts are exact.                                                   *)
(***************************************************************************)
In(P) == {u \in Threads : pc[u] \in P}
Inside == {"joined", "reading"}     \* counted in readers
Askers == {"asking", "mark"}        \* counted in writers

Counts == readers = Cardinality(In(Inside)) /\ writers = Cardinality(In(Askers))

LEMMA InFinite == ASSUME NEW P PROVE IsFiniteSet(In(P)) /\ Cardinality(In(P)) \in Nat
<1>1. IsFiniteSet(In(P))
  BY RwAssumption, FS_Subset DEF In
<1> QED
  BY <1>1, FS_CardinalityType

LEMMA Stays ==
    ASSUME PcType, NEW P, NEW t \in Threads, NEW p, pc' = [pc EXCEPT ![t] = p],
           pc[t] \in P <=> p \in P
    PROVE  Cardinality(In(P))' = Cardinality(In(P))
<1>1. In(P)' = In(P)
  BY DEF In, PcType
<1> QED
  BY <1>1

LEMMA Enters ==
    ASSUME PcType, NEW P, NEW t \in Threads, NEW p, pc' = [pc EXCEPT ![t] = p],
           pc[t] \notin P, p \in P
    PROVE  Cardinality(In(P))' = Cardinality(In(P)) + 1
<1>1. In(P)' = In(P) \cup {t} /\ t \notin In(P)
  BY DEF In, PcType
<1> QED
  BY <1>1, InFinite, FS_AddElement

LEMMA Leaves ==
    ASSUME PcType, NEW P, NEW t \in Threads, NEW p, pc' = [pc EXCEPT ![t] = p],
           pc[t] \in P, p \notin P
    PROVE  Cardinality(In(P))' = Cardinality(In(P)) - 1
<1>1. In(P)' = In(P) \ {t} /\ t \in In(P)
  BY DEF In, PcType
<1> QED
  BY <1>1, InFinite, FS_RemoveElement

LEMMA CountsNext == ASSUME PcType, Counts, [Next]_vars PROVE Counts'
<1> DEFINE Same(t, p) == /\ pc' = [pc EXCEPT ![t] = p] /\ readers' = readers /\ writers' = writers
                         /\ pc[t] \in Inside <=> p \in Inside
                         /\ pc[t] \in Askers <=> p \in Askers
<1> USE DEF Counts
<1>0. ASSUME NEW t \in Threads, NEW p, Same(t, p) PROVE Counts'
  BY <1>0, Stays
<1>1. ASSUME NEW t \in Threads, Ask(t) PROVE Counts'
  <2>1. pc' = [pc EXCEPT ![t] = "asking"] /\ pc[t] = "idle"
    BY <1>1 DEF Ask, Goto
  <2>2. Cardinality(In(Askers))' = Cardinality(In(Askers)) + 1
    BY <2>1, Enters DEF Askers
  <2>3. Cardinality(In(Inside))' = Cardinality(In(Inside))
    BY <2>1, Stays DEF Inside
  <2> QED
    BY <1>1, <2>2, <2>3 DEF Ask
<1>2. ASSUME NEW t \in Threads, Mark(t) PROVE Counts'
  <2>1. PICK p \in {"writing", "semaphore"} : pc' = [pc EXCEPT ![t] = p] /\ pc[t] = "mark"
    BY <1>2 DEF Mark, Goto
  <2>2. Cardinality(In(Askers))' = Cardinality(In(Askers)) - 1
    BY <2>1, Leaves DEF Askers
  <2>3. Cardinality(In(Inside))' = Cardinality(In(Inside))
    BY <2>1, Stays DEF Inside
  <2> QED
    BY <1>2, <2>2, <2>3 DEF Mark
<1>3. ASSUME NEW t \in Threads, JoinShared(t) \/ JoinTryShared(t) \/ JoinUnderMutex(t)
      PROVE  Counts'
  <2>1. CASE \E p \in Inside :
               pc' = [pc EXCEPT ![t] = p] /\ readers' = readers + 1 /\ writers' = writers
    <3>1. PICK p \in Inside : pc' = [pc EXCEPT ![t] = p]
      BY <2>1
    <3>2. pc[t] \notin Inside /\ pc[t] \notin Askers /\ p \notin Askers
      BY <1>3 DEF JoinShared, JoinTryShared, JoinUnderMutex, Inside, Askers
    <3>3. Cardinality(In(Inside))' = Cardinality(In(Inside)) + 1
      BY <3>1, <3>2, Enters
    <3>4. Cardinality(In(Askers))' = Cardinality(In(Askers))
      BY <3>1, <3>2, Stays
    <3> QED
      BY <2>1, <3>3, <3>4
  <2>2. CASE UNCHANGED <<pc, readers, writers>>
    BY <2>2 DEF In
  <2>3. CASE \E p \in {"sharedmutex", "trysharedmutex"} : Same(t, p)
    BY <2>3, <1>0
  <2> QED
    BY <1>3, <2>1, <2>2, <2>3
    DEF JoinShared, JoinTryShared, JoinUnderMutex, Join, Goto, Inside, Askers, stateVars
<1>4. ASSUME NEW t \in Threads, LeaveShared(t) PROVE Counts'
  <2>1. PICK p \in {"post", "idle"} : pc' = [pc EXCEPT ![t] = p] /\ pc[t] = "reading"
    BY <1>4 DEF LeaveShared, Goto
  <2>2. Cardinality(In(Inside))' = Cardinality(In(Inside)) - 1
    BY <2>1, Leaves DEF Inside
  <2>3. Cardinality(In(Askers))' = Cardinality(In(Askers))
    BY <2>1, Stays DEF Askers
  <2> QED
    BY <1>4, <2>2, <2>3 DEF LeaveShared
<1>5. ASSUME NEW t \in Threads,
             TryLock(t) \/ LoadShared(t) \/ LoadTryShared(t) \/ Locks(t) \/ TrySharedMutex(t)
      PROVE  Counts'
  <2>1. \E p : Same(t, p)
    BY <1>5 DEF TryLock, LoadShared, LoadTryShared, Locks, WriterMutex, SharedMutex,
                TrySharedMutex, MutexLock, MutexRefused, Goto, Inside, Askers, stateVars
  <2> QED
    BY <2>1, <1>0
<1>6. ASSUME NEW t \in Threads,
             SemaphoreWait(t) \/ TryLoad(t) \/ TryMark(t) \/ Unmark(t) \/ Unlock(t)
             \/ Joined(t) \/ Post(t)
      PROVE  Counts'
  <2>1. \E p : Same(t, p)
    BY <1>6 DEF SemaphoreWait, TryLoad, TryMark, Unmark, Unlock, Joined, Post, MutexUnlock,
                Goto, Inside, Askers, stateVars
  <2> QED
    BY <2>1, <1>0
<1>7. CASE UNCHANGED vars
  BY <1>7 DEF vars, stateVars, In
<1> QED
  BY <1>1, <1>2, <1>3, <1>4, <1>5, <1>6, <1>7 DEF Next, Runs

LEMMA CountsInit == Init => Counts
<1> SUFFICES ASSUME Init PROVE Counts
  OBVIOUS
<1>1. In(Inside) = {} /\ In(Askers) = {}
  BY DEF Init, In, Inside, Askers
<1> QED
  BY <1>1, FS_EmptySet DEF Init, Counts

LEMMA Populated ==
    ASSUME PcType, Counts
    PROVE  /\ readers \in Nat /\ writers \in Nat
           /\ \A t \in Threads : pc[t] \in Inside => readers >= 1
<1>1. readers \in Nat /\ writers \in Nat
  BY InFinite DEF Counts
<1>2. ASSUME NEW t \in Threads, pc[t] \in Inside PROVE readers # 0
  <2>1. t \in In(Inside)
    BY <1>2 DEF In
  <2> QED
    BY <2>1, InFinite, FS_EmptySet DEF Counts
<1> QED
  BY <1>1, <1>2

-----------------------------------------------------------------------------
(***************************************************************************)
(* Until tryLock marks over a reader, IS_WRITING, the counts and the       *)
(* semaphore keep readers and writers apart.                               *)
(***************************************************************************)
Marked ==
    /\ isWriting \in {0, 1} /\ permits \in Nat
    /\ isWriting = 1 <=> \E t \in Threads : pc[t] \in {"semaphore", "writing"}
ReadersOut == \A t \in Threads : pc[t] = "writing" => readers = 0

Apart == raced \/ (Marked /\ ReadersOut /\ PermitsMatch)

\* What is left to prove of a step that races with nobody
Quiet == Marked /\ ReadersOut /\ PermitsMatch

LEMMA QuietNext ==
    ASSUME ~raced, PcType, Holder, Counts, Quiet, [Next]_vars, ~raced' PROVE Quiet'
<1> USE Populated DEF PcType, Quiet, Marked, ReadersOut, PermitsMatch, Posting, Due,
                      Goto, Inside
<1>1. ASSUME NEW t \in Threads, Ask(t) \/ LoadShared(t) \/ LoadTryShared(t)
      PROVE  Quiet'
  <2>1. CASE Ask(t)
    BY <2>1 DEF Ask
  <2>2. CASE LoadShared(t)
    BY <2>2 DEF LoadShared, stateVars
  <2>3. CASE LoadTryShared(t)
    BY <2>3 DEF LoadTryShared, stateVars
  <2> QED
    BY <1>1, <2>1, <2>2, <2>3
<1>2. ASSUME NEW t \in Threads,
             Locks(t) \/ TryLock(t) \/ TrySharedMutex(t) \/ Unlock(t) \/ Joined(t)
      PROVE  Quiet'
  BY <1>2 DEF Locks, WriterMutex, SharedMutex, TryLock, TrySharedMutex, Unlock, Joined,
              MutexLock, MutexUnlock, MutexRefused, stateVars
<1>3. ASSUME NEW t \in Threads, Mark(t) PROVE Quiet'
  <2>1. isWriting = 0 /\ \A u \in Threads : pc[u] \notin {"semaphore", "writing"}
    BY <1>3 DEF Mark, Holder, Held
  <2> QED
    BY <1>3, <2>1 DEF Mark
<1>4. ASSUME NEW t \in Threads, SemaphoreWait(t) PROVE Quiet'
  <2>1. \A u \in Threads : pc[u] \in {"semaphore", "writing"} => u = t
    BY <1>4 DEF SemaphoreWait, Holder, Held
  <2> QED
    BY <1>4, <2>1 DEF SemaphoreWait, stateVars
<1>5. ASSUME NEW t \in Threads, Unmark(t) PROVE Quiet'
  <2>1. \A u \in Threads : pc[u] \in {"semaphore", "writing"} => u = t
    BY <1>5 DEF Unmark, Holder, Held
  <2> QED
    BY <1>5, <2>1 DEF Unmark
<1>6. ASSUME NEW t \in Threads, TryLoad(t) PROVE Quiet'
  BY <1>6 DEF TryLoad, stateVars
<1>12. ASSUME NEW t \in Threads, TryMark(t) PROVE Quiet'
  <2>1. readers = 0 /\ \A u \in Threads : pc[u] \notin {"semaphore", "writing"}
    BY <1>12 DEF TryMark, Holder, Held
  <2> QED
    BY <1>12, <2>1 DEF TryMark
<1>7. ASSUME NEW t \in Threads, JoinShared(t) \/ JoinTryShared(t) PROVE Quiet'
  <2>1. CASE Join(t)
    <3>1. isWriting = 0
      BY <2>1 DEF Join, Welcome, State
    <3> QED
      BY <1>7, <2>1, <3>1 DEF Join, JoinShared, JoinTryShared
  <2>2. CASE ~Join(t)
    BY <1>7, <2>2 DEF JoinShared, JoinTryShared, stateVars
  <2> QED
    BY <2>1, <2>2
<1>8. ASSUME NEW t \in Threads, JoinUnderMutex(t) PROVE Quiet'
  <2>1. \A u \in Threads : pc[u] \notin {"semaphore", "writing"}
    BY <1>8 DEF JoinUnderMutex, Holder, Held
  <2> QED
    BY <1>8, <2>1 DEF JoinUnderMutex
<1>9. ASSUME NEW t \in Threads, LeaveShared(t) PROVE Quiet'
  <2>1. readers >= 1 /\ \A u \in Threads : pc[u] # "writing"
    BY <1>9 DEF LeaveShared
  <2>2. permits = 0 /\ Posting = {}
    BY <2>1
  <2> QED
    BY <1>9, <2>1, <2>2 DEF LeaveShared
<1>10. ASSUME NEW t \in Threads, Post(t) PROVE Quiet'
  BY <1>10 DEF Post, stateVars
<1>11. CASE UNCHANGED vars
  BY <1>11 DEF vars, stateVars
<1> QED
  BY <1>1, <1>2, <1>3, <1>4, <1>5, <1>6, <1>7, <1>8, <1>9, <1>10, <1>11, <1>12
     DEF Next, Runs

LEMMA RacedStays == ASSUME raced, [Next]_vars PROVE raced'
<1>1. ASSUME NEW t \in Threads, Ask(t) \/ TryLock(t) \/ LoadShared(t) \/ LoadTryShared(t)
      PROVE  raced'
  BY <1>1 DEF Ask, TryLock, LoadShared, LoadTryShared, MutexLock, MutexRefused
<1>2. ASSUME NEW t \in Threads,
             Locks(t) \/ TrySharedMutex(t) \/ Unlock(t) \/ Joined(t)
      PROVE  raced'
  BY <1>2 DEF Locks, WriterMutex, SharedMutex, TrySharedMutex, Unlock, Joined,
              MutexLock, MutexUnlock, MutexRefused
<1>3. ASSUME NEW t \in Threads,
             Mark(t) \/ SemaphoreWait(t) \/ TryLoad(t) \/ TryMark(t) \/ Unmark(t)
      PROVE  raced'
  BY <1>3 DEF Mark, SemaphoreWait, TryLoad, TryMark, Unmark
<1>4. ASSUME NEW t \in Threads,
             JoinShared(t) \/ JoinTryShared(t) \/ JoinUnderMutex(t) \/ LeaveShared(t) \/ Post(t)
      PROVE  raced'
  BY <1>4 DEF JoinShared, JoinTryShared, Join, JoinUnderMutex, LeaveShared, Post
<1>5. CASE UNCHANGED vars
  BY <1>5 DEF vars
<1> QED
  BY <1>1, <1>2, <1>3, <1>4, <1>5 DEF Next, Runs

Separated == PcType /\ Holder /\ Counts /\ Apart

LEMMA SeparatedSuffices == Separated => Exclusive /\ PermitsMatch
<1>1. PcType /\ Counts /\ Apart => NoReaderWithWriter /\ PermitsMatch
  BY Populated DEF Apart, ReadersOut, PermitsMatch, NoReaderWithWriter, Writing,
     Reading, Inside
<1>2. PcType /\ Holder => OneWriter
  BY HolderAlone
<1> QED
  BY <1>1, <1>2 DEF Separated, Exclusive

LEMMA SeparatedInit == Init => Separated
<1>1. Init => Apart
  BY DEF Init, Apart, Marked, ReadersOut, PermitsMatch, Posting, Due
<1> QED
  BY <1>1, HolderInit, CountsInit DEF Separated

LEMMA SeparatedNext == Separated /\ [Next]_vars => Separated'
<1> SUFFICES ASSUME PcType, Holder, Counts, Apart, [Next]_vars
             PROVE  PcType' /\ Holder' /\ Counts' /\ Apart'
  BY DEF Separated
<1>1. PcType' /\ Holder' /\ Counts'
  BY PcNext, HolderNext, CountsNext
<1>2. CASE raced'
  BY <1>1, <1>2 DEF Apart
<1>3. CASE ~raced'
  <2>1. ~raced
    BY <1>3, RacedStays
  <2>2. Quiet'
    BY <1>3, <2>1, QuietNext DEF Apart, Quiet
  <2> QED
    BY <1>1, <2>2 DEF Apart, Quiet
<1> QED
  BY <1>2, <1>3

\* Two threads never write at a time and, unless tryLock has marked over a reader,
\* no thread reads while another writes (Exclusive).
THEOREM ReadersApart == Spec => []Exclusive
BY SeparatedSuffices, SeparatedInit, SeparatedNext, PTL DEF Spec

\* Unless tryLock has marked over a reader, the semaphore has or is due a permit
\* exactly for a writer whose readers left (PermitsMatch).
THEOREM PermitExact == Spec => []PermitsMatch
BY SeparatedSuffices, SeparatedInit, SeparatedNext, PTL DEF Spec
=============================================================================
