-------------------------- MODULE FutexMutexProofs --------------------------
(***************************************************************************)
(* Proofs about FutexMutex, for any set of threads and both forms of       *)
(* tryLock: mutual exclusion, no forgotten sleeper, and that the mutex is  *)
(* an exclusive lock.                                                      *)
(***************************************************************************)
EXTENDS FutexMutex, TLAPS

LEMMA TypeInit == Init => TypeOK
BY DEF Init, TypeOK, unlocked, locked, contended

LEMMA TypeNext == TypeOK /\ [Next]_vars => TypeOK'
<1> SUFFICES ASSUME TypeOK, [Next]_vars PROVE TypeOK'
  OBVIOUS
<1> USE DEF TypeOK, Goto, unlocked, locked, contended
<1>1. ASSUME NEW t \in Threads, Lock(t) \/ TryLock(t) PROVE TypeOK'
  BY <1>1 DEF Lock, TryLock, Acquire, Fails
<1>2. ASSUME NEW t \in Threads, Spurious(t) \/ Refused(t) \/ SlowLoad(t) \/ FutexWait(t)
      PROVE  TypeOK'
  BY <1>2 DEF Spurious, Refused, SlowLoad, FutexWait
<1>3. ASSUME NEW t \in Threads, Swap(t) \/ Unlock(t) PROVE TypeOK'
  BY <1>3 DEF Swap, Unlock
<1>4. ASSUME NEW t \in Threads, Wake(t) PROVE TypeOK'
  BY <1>4 DEF Wake
<1>5. CASE UNCHANGED vars
  BY <1>5 DEF vars
<1> QED
  BY <1>1, <1>2, <1>3, <1>4, <1>5 DEF Next, Runs

\* The word and the program counters keep their types (TypeOK).
THEOREM TypeCorrect == Spec => []TypeOK
BY TypeInit, TypeNext, PTL DEF Spec

-----------------------------------------------------------------------------
\* Mutual exclusion is inductive together with the types: who takes the lock
\* found the word unlocked, and so nobody inside.
LEMMA MutexInit == Init => MutualExclusion
BY DEF Init, MutualExclusion, unlocked

LEMMA MutexNext == TypeOK /\ MutualExclusion /\ [Next]_vars => MutualExclusion'
<1> SUFFICES ASSUME TypeOK, MutualExclusion, [Next]_vars PROVE MutualExclusion'
  OBVIOUS
<1> USE DEF TypeOK, MutualExclusion, Goto, unlocked, locked, contended
<1>1. ASSUME NEW t \in Threads, Lock(t) \/ TryLock(t) PROVE MutualExclusion'
  <2>1. CASE Acquire
    BY <1>1, <2>1 DEF Lock, TryLock, Acquire, Fails
  <2>2. CASE ~Acquire
    BY <1>1, <2>2 DEF Lock, TryLock, Fails
  <2> QED
    BY <2>1, <2>2
<1>2. ASSUME NEW t \in Threads, Spurious(t) \/ Refused(t) \/ SlowLoad(t) \/ FutexWait(t)
      PROVE  MutualExclusion'
  BY <1>2 DEF Spurious, Refused, SlowLoad, FutexWait
<1>3. ASSUME NEW t \in Threads, Swap(t) PROVE MutualExclusion'
  <2>1. CASE state = unlocked
    BY <1>3, <2>1 DEF Swap
  <2>2. CASE state # unlocked
    BY <1>3, <2>2 DEF Swap
  <2> QED
    BY <2>1, <2>2
<1>4. ASSUME NEW t \in Threads, Unlock(t) PROVE MutualExclusion'
  BY <1>4 DEF Unlock
<1>5. ASSUME NEW t \in Threads, Wake(t) PROVE MutualExclusion'
  BY <1>5 DEF Wake
<1>6. CASE UNCHANGED vars
  BY <1>6 DEF vars
<1> QED
  BY <1>1, <1>2, <1>3, <1>4, <1>5, <1>6 DEF Next, Runs

\* At most one thread is in the critical section, and unlock never finds the
\* word unlocked (MutualExclusion).
THEOREM Exclusive == Spec => []MutualExclusion
BY TypeInit, TypeNext, MutexInit, MutexNext, PTL DEF Spec

-----------------------------------------------------------------------------
LEMMA CoveredInit == Init => SleepersCovered
BY DEF Init, SleepersCovered

LEMMA CoveredNext == TypeOK /\ SleepersCovered /\ [Next]_vars => SleepersCovered'
<1> SUFFICES ASSUME TypeOK, SleepersCovered, [Next]_vars PROVE SleepersCovered'
  OBVIOUS
<1> USE DEF TypeOK, SleepersCovered, Goto, unlocked, locked, contended
<1>1. ASSUME NEW t \in Threads, Lock(t) \/ TryLock(t) PROVE SleepersCovered'
  BY <1>1 DEF Lock, TryLock, Acquire, Fails
<1>2. ASSUME NEW t \in Threads, Spurious(t) \/ Refused(t) \/ SlowLoad(t) \/ FutexWait(t)
      PROVE  SleepersCovered'
  BY <1>2 DEF Spurious, Refused, SlowLoad, FutexWait
<1>3. ASSUME NEW t \in Threads, Swap(t) PROVE SleepersCovered'
  BY <1>3 DEF Swap
<1>4. ASSUME NEW t \in Threads, Unlock(t) PROVE SleepersCovered'
  BY <1>4 DEF Unlock
<1>5. ASSUME NEW t \in Threads, Wake(t) PROVE SleepersCovered'
  BY <1>5 DEF Wake
<1>6. CASE UNCHANGED vars
  BY <1>6 DEF vars
<1> QED
  BY <1>1, <1>2, <1>3, <1>4, <1>5, <1>6 DEF Next, Runs

\* A sleeping thread is never forgotten (SleepersCovered): the comment in
\* lockSlow on taking the lock as `contended` after a sleep.
THEOREM NoForgottenSleeper == Spec => []SleepersCovered
BY TypeInit, TypeNext, CoveredInit, CoveredNext, PTL DEF Spec

-----------------------------------------------------------------------------
wantsBar == {t \in Threads : pc[t] \in {"load", "wait", "asleep", "swap"}}
insideBar == {t \in Threads : pc[t] = "inside"}

LEMMA RefineInit == Init => Abstract!Init
BY DEF Init, Abstract!Init

LEMMA RefineNext ==
    TypeOK /\ MutualExclusion /\ [Next]_vars => [Abstract!Next]_(Abstract!lockVars)
<1> SUFFICES ASSUME TypeOK, MutualExclusion, [Next]_vars
             PROVE  Abstract!Next \/ UNCHANGED <<wantsBar, insideBar>>
  BY DEF Abstract!lockVars, wantsBar, insideBar
<1> USE DEF TypeOK, Goto, unlocked, locked, contended, wantsBar, insideBar
<1>1. ASSUME NEW t \in Threads, Lock(t) \/ TryLock(t)
      PROVE  Abstract!Next \/ UNCHANGED <<wantsBar, insideBar>>
  <2>1. CASE Acquire /\ pc' = [pc EXCEPT ![t] = "inside"] /\ pc[t] = "idle"
    <3>1. Abstract!Take(t)
      BY <2>1 DEF Acquire, Abstract!Take, MutualExclusion
    <3> QED
      BY <3>1 DEF Abstract!Next
  <2>2. CASE pc' = [pc EXCEPT ![t] = "load"] /\ pc[t] = "idle"
    <3>1. Abstract!Ask(t)
      BY <2>2 DEF Abstract!Ask
    <3> QED
      BY <3>1 DEF Abstract!Next
  <2>3. CASE pc' = [pc EXCEPT ![t] = "refused"] /\ pc[t] = "idle"
    BY <2>3
  <2> QED
    BY <1>1, <2>1, <2>2, <2>3 DEF Lock, TryLock
<1>2. ASSUME NEW t \in Threads, Spurious(t) \/ Refused(t) \/ SlowLoad(t) \/ FutexWait(t)
      PROVE  UNCHANGED <<wantsBar, insideBar>>
  BY <1>2 DEF Spurious, Refused, SlowLoad, FutexWait
<1>3. ASSUME NEW t \in Threads, Swap(t)
      PROVE  Abstract!Next \/ UNCHANGED <<wantsBar, insideBar>>
  <2>1. CASE state = unlocked
    <3>1. Abstract!Take(t)
      BY <1>3, <2>1 DEF Swap, Abstract!Take, MutualExclusion
    <3> QED
      BY <3>1 DEF Abstract!Next
  <2>2. CASE state # unlocked
    BY <1>3, <2>2 DEF Swap
  <2> QED
    BY <2>1, <2>2
<1>4. ASSUME NEW t \in Threads, Unlock(t) PROVE Abstract!Next
  <2>1. Abstract!Leave(t)
    BY <1>4 DEF Unlock, Abstract!Leave
  <2> QED
    BY <2>1 DEF Abstract!Next
<1>5. ASSUME NEW t \in Threads, Wake(t) PROVE UNCHANGED <<wantsBar, insideBar>>
  BY <1>5 DEF Wake
<1>6. CASE UNCHANGED vars
  BY <1>6 DEF vars
<1> QED
  BY <1>1, <1>2, <1>3, <1>4, <1>5, <1>6 DEF Next, Runs

\* The futex mutex implements an exclusive lock (ImplementsLock): every step
\* takes, asks for or leaves the lock, or changes nothing the lock shows.
THEOREM Refinement == Spec => ImplementsLock
BY TypeInit, TypeNext, MutexInit, MutexNext, RefineInit, RefineNext, PTL
DEF Spec, ImplementsLock, Abstract!Spec
=============================================================================
