------------------------------ MODULE Condition ------------------------------
(***************************************************************************)
(* The futex implementation of std.Thread.Condition (FutexImpl in          *)
(* Condition.zig), one action per atomic access and futex call.  The mutex *)
(* it is used with is an atomic lock here; FutexMutex shows that it is     *)
(* one.  `state` packs two 16-bit counters, waiters and signals.  Memory   *)
(* is sequentially consistent: the barriers the comments justify are       *)
(* assumed to do their work.                                               *)
(***************************************************************************)
EXTENDS Naturals, FiniteSets, FiniteSetsExt

CONSTANTS
    Waiters, Signalers,
    Outside,        \* signal and broadcast may be called without the mutex
    Timed,          \* waits may have a timeout
    SpuriousWakes,  \* Futex.wait may return for no reason
    MaxCalls,       \* bound on the calls of signal and broadcast
    TrackDebts,     \* keep the history variable `debts`
    NoOne

ASSUME FlagsAssumption ==
    /\ {Outside, Timed, SpuriousWakes, TrackDebts} \subseteq BOOLEAN
    /\ MaxCalls \in Nat /\ NoOne \notin Waiters \cup Signalers
    /\ Waiters \cap Signalers = {} /\ IsFiniteSet(Waiters)

VARIABLES
    waiters, signals, epoch,    \* the two halves of `state`, and `epoch`
    owner,                      \* who holds the mutex
    pc,
    sepoch, sstate,             \* a thread's last view of epoch and of state
    kind,                       \* what a signaler calls: "one" or "all"
    towake,                     \* how many waiters it reserved
    calls,                      \* calls so far
    debts,                      \* history: sets of waiters one of which is due
    stolen                      \* history: somebody else took a signal that is due

condVars == <<waiters, signals, epoch>>
viewVars == <<sepoch, sstate>>
callVars == <<kind, towake, calls>>
histVars == <<debts, stolen>>
vars == <<condVars, owner, pc, viewVars, callVars, histVars>>

Threads == Waiters \cup Signalers
State == [w |-> waiters, s |-> signals]
Unseen == [w |-> 0, s |-> 0]

Init ==
    /\ waiters = 0 /\ signals = 0 /\ epoch = 0 /\ owner = NoOne
    /\ pc = [t \in Threads |-> "idle"]
    /\ sepoch = [t \in Waiters |-> 0]
    /\ sstate = [t \in Threads |-> Unseen]
    /\ kind = [t \in Signalers |-> "one"] /\ towake = [t \in Signalers |-> 0]
    /\ calls = 0 /\ debts = {} /\ stolen = FALSE

Goto(t, place) == pc' = [pc EXCEPT ![t] = place]
Look(t) == sstate' = [sstate EXCEPT ![t] = State]
\* the locals of a call go out of scope
Forget(t) ==
    /\ sstate' = [sstate EXCEPT ![t] = Unseen]
    /\ sepoch' = [sepoch EXCEPT ![t] = 0]

\* The caller's mutex
MutexLock(t, place) ==
    /\ owner = NoOne /\ owner' = t /\ Goto(t, place)
    /\ UNCHANGED <<condVars, viewVars, callVars, histVars>>
MutexUnlock(t, place) ==
    /\ owner = t /\ owner' = NoOne /\ Goto(t, place)
    /\ UNCHANGED <<condVars, viewVars, callVars, histVars>>

-----------------------------------------------------------------------------
(***************************************************************************)
(* wait and timedWait                                                      *)
(***************************************************************************)
Enter(t) == pc[t] = "idle" /\ MutexLock(t, "inside")
Leave(t) == pc[t] = "inside" /\ MutexUnlock(t, "idle")

\* epoch.load
StartWait(t) ==
    /\ pc[t] = "inside"
    /\ sepoch' = [sepoch EXCEPT ![t] = epoch] /\ Goto(t, "add")
    /\ UNCHANGED <<condVars, owner, sstate, callVars, histVars>>

\* state.fetchAdd(one_waiter)
AddWaiter(t) ==
    /\ pc[t] = "add"
    /\ waiters' = waiters + 1
    /\ sstate' = [sstate EXCEPT ![t] = [State EXCEPT !.w = @ + 1]]
    /\ Goto(t, "unlock")
    /\ UNCHANGED <<signals, epoch, owner, sepoch, callVars, histVars>>

Unlock(t) == pc[t] = "unlock" /\ MutexUnlock(t, "futex")

\* Futex.wait on epoch, or its timeout
FutexWait(t) ==
    /\ pc[t] = "futex"
    /\ Goto(t, IF epoch = sepoch[t] THEN "asleep" ELSE "reload")
    /\ UNCHANGED <<condVars, owner, viewVars, callVars, histVars>>

Timeout(t) ==
    /\ Timed /\ pc[t] = "asleep" /\ Goto(t, "timeout")
    /\ UNCHANGED <<condVars, owner, viewVars, callVars, histVars>>

Spurious(t) ==
    /\ SpuriousWakes /\ pc[t] = "asleep" /\ Goto(t, "reload")
    /\ UNCHANGED <<condVars, owner, viewVars, callVars, histVars>>

\* epoch.load, then state.load
ReloadEpoch(t) ==
    /\ pc[t] = "reload"
    /\ sepoch' = [sepoch EXCEPT ![t] = epoch] /\ Goto(t, "restate")
    /\ UNCHANGED <<condVars, owner, sstate, callVars, histVars>>

ReloadState(t) ==
    /\ pc[t] = "restate"
    /\ Look(t) /\ Goto(t, "consume")
    /\ UNCHANGED <<condVars, owner, sepoch, callVars, histVars>>

\* The thread is unblocked: what was due to it, or to a set with it, is paid.
Pay(t) == debts' = {d \in debts : t \notin d}
\* Nothing is due to it, and it took what is due to others.
Rob(t) == stolen' = (stolen \/ (debts # {} /\ t \notin UNION debts))
\* It timed out: nothing is due to it any more.
Forgo(t) == debts' = {d \ {t} : d \in debts} \ {{}}

\* cmpxchgWeak(state, state - one_waiter - one_signal)
TakeSignal(t) ==
    /\ State = sstate[t]
    /\ waiters' = waiters - 1 /\ signals' = signals - 1
    /\ Goto(t, "relock") /\ Pay(t) /\ Rob(t) /\ Forget(t)

\* a weak exchange fails when the word changed, or for no reason
ExchangeFails(t) == Look(t) /\ UNCHANGED <<waiters, signals, pc, sepoch, histVars>>

Consume(t) ==
    /\ pc[t] = "consume"
    /\ \/ sstate[t].s > 0 /\ (TakeSignal(t) \/ ExchangeFails(t))
       \/ /\ sstate[t].s = 0 /\ Goto(t, "futex")
          /\ UNCHANGED <<waiters, signals, viewVars, histVars>>
    /\ UNCHANGED <<epoch, owner, callVars>>

\* cmpxchgWeak(state, state - one_waiter)
GiveUp(t) ==
    /\ sstate[t].s = 0 /\ State = sstate[t]
    /\ waiters' = waiters - 1 /\ UNCHANGED signals
    /\ Goto(t, "relock") /\ Forgo(t) /\ Forget(t) /\ UNCHANGED stolen

\* on timeout: consume a signal if there is one, else withdraw
TimedOut(t) ==
    /\ pc[t] = "timeout"
    /\ (sstate[t].s > 0 /\ TakeSignal(t)) \/ GiveUp(t) \/ ExchangeFails(t)
    /\ UNCHANGED <<epoch, owner, callVars>>

Relock(t) == pc[t] = "relock" /\ MutexLock(t, "inside")

-----------------------------------------------------------------------------
(***************************************************************************)
(* signal and broadcast                                                    *)
(***************************************************************************)
\* Waiters blocked in wait(): they have released the mutex
Blocked == {t \in Waiters : pc[t] \in {"futex", "asleep", "reload", "restate",
                                       "consume", "timeout"}}

\* Waiters that `waiters` counts
Registered == Blocked \cup {t \in Waiters : pc[t] = "unlock"}

SignalLock(t) == pc[t] = "idle" /\ MutexLock(t, "inside")

\* the call: state.load.  broadcast owes a wakeup to everyone blocked, signal
\* to one of them.
Call(t, k) ==
    /\ calls < MaxCalls
    /\ pc[t] \in IF Outside THEN {"inside", "idle"} ELSE {"inside"}
    /\ kind' = [kind EXCEPT ![t] = k] /\ calls' = calls + 1
    /\ debts' = debts \cup
          IF ~TrackDebts THEN {}
          ELSE IF k = "all" THEN {{u} : u \in Blocked} ELSE {Blocked} \ {{}}
    /\ Look(t) /\ Goto(t, "reserve")
    /\ UNCHANGED <<condVars, owner, sepoch, towake, stolen>>

Wakeable(t) == sstate[t].w - sstate[t].s
\* variant: a broadcast is a signal
Amount_One(t) == 1
Amount(t) == IF kind[t] = "one" THEN 1 ELSE Wakeable(t)

\* variant: signals may outnumber waiters
Reserve_Unchecked(t) ==
    /\ pc[t] = "reserve"
    /\ \/ /\ State = sstate[t] /\ sstate[t].w > 0
          /\ signals' = signals + 1 /\ towake' = [towake EXCEPT ![t] = 1]
          /\ Goto(t, "bump") /\ UNCHANGED sstate
       \/ /\ sstate[t].w = 0 /\ Goto(t, "done")
          /\ UNCHANGED <<signals, towake, sstate>>
    /\ UNCHANGED <<waiters, epoch, owner, sepoch, kind, calls, histVars>>

\* cmpxchgWeak(state, state + one_signal * to_wake), or nobody to wake
Reserve(t) ==
    /\ pc[t] = "reserve"
    /\ \/ /\ Wakeable(t) > 0 /\ State = sstate[t]
          /\ signals' = signals + Amount(t)
          /\ towake' = [towake EXCEPT ![t] = Amount(t)]
          /\ Goto(t, "bump") /\ UNCHANGED sstate
       \/ /\ Wakeable(t) > 0 /\ Look(t) /\ UNCHANGED <<signals, towake, pc>>
       \/ /\ Wakeable(t) = 0 /\ Goto(t, "done")
          /\ UNCHANGED <<signals, towake, sstate>>
    /\ UNCHANGED <<waiters, epoch, owner, sepoch, kind, calls, histVars>>

\* variant: the epoch stays
Bump_Not(t) ==
    /\ pc[t] = "bump" /\ Goto(t, "wake")
    /\ UNCHANGED <<condVars, owner, viewVars, callVars, histVars>>

\* epoch.fetchAdd(1); it does not wrap within MaxCalls
Bump(t) ==
    /\ pc[t] = "bump"
    /\ epoch' = epoch + 1 /\ Goto(t, "wake")
    /\ UNCHANGED <<waiters, signals, owner, viewVars, callVars, histVars>>

\* Futex.wake(&epoch, to_wake)
Wake(t) ==
    /\ pc[t] = "wake"
    /\ LET asleep == {u \in Waiters : pc[u] = "asleep"}
           n == IF towake[t] < Cardinality(asleep) THEN towake[t]
                ELSE Cardinality(asleep)
       IN \E woken \in kSubset(n, asleep) :
             pc' = [u \in Threads |-> IF u \in woken THEN "reload"
                                      ELSE IF u = t THEN "done" ELSE pc[u]]
    /\ UNCHANGED <<condVars, owner, viewVars, callVars, histVars>>

\* the caller goes on, and releases its mutex; it may do so without a call
Return(t) ==
    /\ pc[t] \in {"done", "inside"}
    /\ Goto(t, "idle")
    /\ owner' = IF owner = t THEN NoOne ELSE owner
    /\ sstate' = [sstate EXCEPT ![t] = Unseen]
    /\ kind' = [kind EXCEPT ![t] = "one"] /\ towake' = [towake EXCEPT ![t] = 0]
    /\ UNCHANGED <<condVars, sepoch, calls, histVars>>

-----------------------------------------------------------------------------
\* what a thread does of itself once it started a call
WaiterRuns(t) ==
    Leave(t) \/ AddWaiter(t) \/ Unlock(t) \/ FutexWait(t) \/ ReloadEpoch(t)
    \/ ReloadState(t) \/ Consume(t) \/ TimedOut(t) \/ Relock(t)

SignalerRuns(t) == Reserve(t) \/ Bump(t) \/ Wake(t) \/ Return(t)

Next ==
    \/ \E t \in Waiters : Enter(t) \/ StartWait(t) \/ Timeout(t) \/ Spurious(t)
                          \/ WaiterRuns(t)
    \/ \E t \in Signalers : SignalLock(t) \/ (\E k \in {"one", "all"} : Call(t, k))
                            \/ SignalerRuns(t)

Spec == Init /\ [][Next]_vars

\* Threads are scheduled, a mutex that is free is taken by somebody who waits for it,
\* and an exchange does not fail for ever: not without cause, nor because others
\* change the word each time.
FairSpec ==
    /\ Spec
    /\ \A t \in Waiters :
          /\ WF_vars(WaiterRuns(t))
          /\ SF_vars((Consume(t) \/ TimedOut(t)) /\ pc'[t] = "relock")
    /\ \A t \in Signalers :
          /\ WF_vars(SignalerRuns(t))
          /\ SF_vars(Reserve(t) /\ pc'[t] # "reserve")

-----------------------------------------------------------------------------
\* "the signals count is always less than or equal to the waiters count", and
\* waiters counts the threads between fetchAdd and their decrement: neither
\* half of the word is ever borrowed from.
SignalsCounted ==
    /\ signals <= waiters
    /\ waiters = Cardinality(Registered)

\* A thread that sleeps on the current epoch while a signal is reserved will be
\* looked after: a signaler has still to bump the epoch or to wake sleepers, or
\* there is another thread awake for each reserved signal.
SignalsReach ==
    \/ signals <= Cardinality({t \in Waiters :
           \/ pc[t] \in {"reload", "restate", "consume", "timeout"}
           \/ pc[t] \in {"unlock", "futex"} /\ sepoch[t] # epoch})
    \/ \E t \in Signalers : pc[t] \in {"bump", "wake"}

\* The call of a signaler that has read the word, found a waiter without a signal and
\* has not reserved one yet.
Owed(t) == IF pc[t] = "reserve" /\ Wakeable(t) > 0 THEN kind[t] ELSE "nothing"

Abstract == INSTANCE ConditionVariable
    WITH waiting <- Registered, signals <- signals, owed <- [t \in Signalers |-> Owed(t)]

\* What users of the condition rely on: waiters and signals change in whole operations,
\* however the accesses to the word and the epoch, timeouts and failed exchanges mix.  A
\* call of signal or broadcast takes effect at once between its call and its return, and
\* one that finds every waiter signaled has nothing to do.
ImplementsCondition == Abstract!Spec

\* signal "unblocks at least one thread blocked in a call to wait()", broadcast
\* "unblocks all threads currently blocked": whatever is due is paid, also when a
\* thread that began to wait after the call times out or wakes for no reason.
WakeupsArrive == debts # {} ~> debts = {}

\* That holds of the code until such a thread takes the signal of one that was
\* blocked before: a wakeup may be stolen, and is not lost otherwise, whatever the
\* timeouts, the spurious wakeups and the calls without the mutex.
NoWakeupLost == debts # {} ~> debts = {} \/ stolen
=============================================================================
