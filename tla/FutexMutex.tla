----------------------------- MODULE FutexMutex -----------------------------
(***************************************************************************)
(* The futex implementation of std.Thread.Mutex (FutexImpl in Mutex.zig),  *)
(* one action per atomic access to `state` and per futex call, with the    *)
(* futex as Futex.zig documents it: wait compares and sleeps in one step   *)
(* and may return for no reason, wake unblocks at most the given number of *)
(* sleepers.                                                               *)
(***************************************************************************)
EXTENDS Naturals

CONSTANTS
    Threads,
    X86     \* tryLock sets a bit (x86); elsewhere it is a cmpxchgWeak

ASSUME X86Assumption == X86 \in BOOLEAN

VARIABLES
    state,      \* the mutex's word
    pc          \* where each thread is

vars == <<state, pc>>

unlocked == 0
locked == 1
contended == 3

Init == state = unlocked /\ pc = [t \in Threads |-> "idle"]

Goto(t, place) == pc' = [pc EXCEPT ![t] = place]

\* The two outcomes of FutexImpl.tryLock.  Setting the locked bit changes a
\* word only when it is unlocked; a weak exchange may fail although it is.
Acquire == state = unlocked /\ state' = locked
Fails == (state = unlocked => ~X86) /\ UNCHANGED state

Lock(t) ==
    /\ pc[t] = "idle"
    /\ \/ Acquire /\ Goto(t, "inside")
       \/ Fails /\ Goto(t, "load")

TryLock(t) ==
    /\ pc[t] = "idle"
    /\ \/ Acquire /\ Goto(t, "inside")
       \/ Fails /\ Goto(t, "refused")

\* the caller of tryLock goes on without the lock
Refused(t) == pc[t] = "refused" /\ Goto(t, "idle") /\ UNCHANGED state

\* lockSlow: the load that avoids a store
SlowLoad(t) ==
    /\ pc[t] = "load"
    /\ Goto(t, IF state = contended THEN "wait" ELSE "swap")
    /\ UNCHANGED state

\* Futex.wait(&state, contended); both of lockSlow's waits lead to the swap
FutexWait(t) ==
    /\ pc[t] = "wait"
    /\ Goto(t, IF state = contended THEN "asleep" ELSE "swap")
    /\ UNCHANGED state

Spurious(t) == pc[t] = "asleep" /\ Goto(t, "swap") /\ UNCHANGED state

\* variants: a woken thread takes the lock as if nobody else waited; a lock
\* held without contention is taken over
Swap_Locked(t) ==
    /\ pc[t] = "swap"
    /\ state' = IF state = unlocked THEN locked ELSE contended
    /\ Goto(t, IF state = unlocked THEN "inside" ELSE "wait")
Swap_Steals(t) ==
    /\ pc[t] = "swap"
    /\ state' = contended
    /\ Goto(t, IF state # contended THEN "inside" ELSE "wait")

\* state.swap(contended)
Swap(t) ==
    /\ pc[t] = "swap"
    /\ state' = contended
    /\ Goto(t, IF state = unlocked THEN "inside" ELSE "wait")

\* variant: the wakeup is left to a later unlock
Unlock_Silent(t) == pc[t] = "inside" /\ state' = unlocked /\ Goto(t, "idle")

Unlock(t) ==
    /\ pc[t] = "inside"
    /\ state' = unlocked
    /\ Goto(t, IF state = contended THEN "wake" ELSE "idle")

\* Futex.wake(&state, 1)
Wake(t) ==
    /\ pc[t] = "wake"
    /\ \/ \E u \in Threads :
             /\ pc[u] = "asleep"
             /\ pc' = [pc EXCEPT ![t] = "idle", ![u] = "swap"]
       \/ (\A u \in Threads : pc[u] # "asleep") /\ Goto(t, "idle")
    /\ UNCHANGED state

\* what a thread does of itself once it called lock or unlock
Runs(t) ==
    Refused(t) \/ SlowLoad(t) \/ FutexWait(t) \/ Swap(t) \/ Unlock(t) \/ Wake(t)

Next == \E t \in Threads : Lock(t) \/ TryLock(t) \/ Spurious(t) \/ Runs(t)

Spec == Init /\ [][Next]_vars

\* Threads are scheduled, and leave their critical sections.
FairSpec == Spec /\ \A t \in Threads : WF_vars(Runs(t))

-----------------------------------------------------------------------------
TypeOK ==
    /\ state \in {unlocked, locked, contended}
    /\ pc \in [Threads -> {"idle", "refused", "load", "wait", "asleep", "swap",
                           "inside", "wake"}]

\* "only one thread is in the critical section at any given point in time",
\* and the word is unlocked exactly when none is: unlock's assert never fails.
MutualExclusion ==
    /\ \A t, u \in Threads : pc[t] = "inside" /\ pc[u] = "inside" => t = u
    /\ (\E t \in Threads : pc[t] = "inside") <=> state # unlocked

\* No sleeper is forgotten: the word still says contended, so that the next
\* unlock wakes somebody, or a thread is on its way to wake one or to mark the
\* word again.
SleepersCovered ==
    (\E t \in Threads : pc[t] = "asleep") =>
        state = contended \/ \E u \in Threads : pc[u] \in {"wake", "swap"}

-----------------------------------------------------------------------------
Abstract == INSTANCE ExclusiveLock WITH
    wants  <- {t \in Threads : pc[t] \in {"load", "wait", "asleep", "swap"}},
    inside <- {t \in Threads : pc[t] = "inside"}

\* The futex mutex is an exclusive lock.
ImplementsLock == Abstract!Spec

\* With fair threads a free lock somebody waits for is taken: no wakeup is lost.
ImplementsFairLock == Abstract!FairSpec
=============================================================================
