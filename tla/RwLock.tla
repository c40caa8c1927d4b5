------------------------------- MODULE RwLock -------------------------------
(***************************************************************************)
(* DefaultRwLock of std.Thread.RwLock, one action per atomic access to     *)
(* `state` and per call of the mutex and the semaphore.  Those two are     *)
(* atomic here: FutexMutex shows that the mutex is, and the semaphore is a *)
(* counter under a mutex and a condition.  `state` packs the bit           *)
(* IS_WRITING and the counts of writers that ask and of readers; lock adds *)
(* the bit, so that it would carry if it were set.  tryLock looks for      *)
(* readers and sets the bit in two accesses: `raced` remembers that a      *)
(* reader came in between, and everything else is shown to hold as long as *)
(* none did.                                                               *)
(***************************************************************************)
EXTENDS Naturals, FiniteSets

CONSTANTS
    Threads,
    MaxPermits, \* bound: tryLock is not called with that many permits left over
    X86,        \* elsewhere Mutex.tryLock may refuse a free mutex
    NoOne

ASSUME RwAssumption ==
    X86 \in BOOLEAN /\ MaxPermits \in Nat
    /\ NoOne \notin Threads /\ IsFiniteSet(Threads)

VARIABLES
    isWriting, writers, readers,    \* the three fields of `state`
    owner,                          \* the holder of `mutex`
    permits,                        \* of `semaphore`
    pc,
    view,                           \* lockShared's last view of `state`
    raced                           \* history: tryLock has marked over a reader

stateVars == <<isWriting, writers, readers>>
vars == <<stateVars, owner, permits, pc, view, raced>>

State == [isWriting |-> isWriting, writers |-> writers, readers |-> readers]
Unseen == [isWriting |-> 0, writers |-> 0, readers |-> 0]

Init ==
    /\ isWriting = 0 /\ writers = 0 /\ readers = 0
    /\ owner = NoOne /\ permits = 0
    /\ pc = [t \in Threads |-> "idle"]
    /\ view = [t \in Threads |-> Unseen] /\ raced = FALSE

Goto(t, place) == pc' = [pc EXCEPT ![t] = place]
Look(t) == view' = [view EXCEPT ![t] = State]
Forget(t) == view' = [view EXCEPT ![t] = Unseen]

MutexLock(t, place) ==
    /\ owner = NoOne /\ owner' = t /\ Goto(t, place)
    /\ UNCHANGED <<stateVars, permits, view, raced>>
MutexUnlock(t, place) ==
    /\ owner' = NoOne /\ Goto(t, place)
    /\ UNCHANGED <<stateVars, permits, view, raced>>
\* Mutex.tryLock refused
MutexRefused(t, place) ==
    /\ owner # NoOne \/ ~X86
    /\ Goto(t, place) /\ UNCHANGED <<stateVars, owner, permits, view, raced>>

-----------------------------------------------------------------------------
(***************************************************************************)
(* Writers: lock, tryLock, unlock                                          *)
(***************************************************************************)
\* fetch-add of WRITER
Ask(t) ==
    /\ pc[t] = "idle" /\ writers' = writers + 1 /\ Goto(t, "asking")
    /\ UNCHANGED <<isWriting, readers, owner, permits, view, raced>>

WriterMutex(t) == pc[t] = "asking" /\ MutexLock(t, "mark")

\* fetch-add of IS_WRITING - WRITER
Mark(t) ==
    /\ pc[t] = "mark"
    /\ isWriting' = isWriting + 1 /\ writers' = writers - 1
    /\ Goto(t, IF readers = 0 THEN "writing" ELSE "semaphore")
    /\ UNCHANGED <<readers, owner, permits, view, raced>>

SemaphoreWait(t) ==
    /\ pc[t] = "semaphore" /\ permits > 0
    /\ permits' = permits - 1 /\ Goto(t, "writing")
    /\ UNCHANGED <<stateVars, owner, view, raced>>

TryLock(t) ==
    /\ permits < MaxPermits /\ pc[t] = "idle"
    /\ MutexLock(t, "tryload") \/ MutexRefused(t, "idle")

\* a load, and an OR of IS_WRITING of its own
TryLoad(t) ==
    /\ pc[t] = "tryload"
    /\ Goto(t, IF readers = 0 THEN "trymark" ELSE "unlock")
    /\ UNCHANGED <<stateVars, owner, permits, view, raced>>

TryMark(t) ==
    /\ pc[t] = "trymark" /\ isWriting' = 1 /\ Goto(t, "writing")
    /\ raced' = (raced \/ readers # 0)
    /\ UNCHANGED <<writers, readers, owner, permits, view>>

\* unlock: clear IS_WRITING, then release the mutex
Unmark(t) ==
    /\ pc[t] = "writing" /\ isWriting' = 0 /\ Goto(t, "unlock")
    /\ UNCHANGED <<writers, readers, owner, permits, view, raced>>

Unlock(t) == pc[t] = "unlock" /\ MutexUnlock(t, "idle")

-----------------------------------------------------------------------------
(***************************************************************************)
(* Readers: lockShared, tryLockShared, unlockShared                        *)
(***************************************************************************)
\* variant: looks for writers that ask, not for the one that has marked
Welcome_Marked(t) == view[t].writers = 0

Welcome(t) == view[t].isWriting = 0 /\ view[t].writers = 0

LoadShared(t) ==
    /\ pc[t] = "idle" /\ Look(t) /\ Goto(t, "shared")
    /\ UNCHANGED <<stateVars, owner, permits, raced>>

LoadTryShared(t) ==
    /\ pc[t] = "idle" /\ Look(t) /\ Goto(t, "tryshared")
    /\ UNCHANGED <<stateVars, owner, permits, raced>>

\* variant: an addition in place of the exchange
Join_Blind(t) ==
    /\ Welcome(t)
    /\ readers' = readers + 1 /\ Forget(t) /\ Goto(t, "reading")
    /\ UNCHANGED <<isWriting, writers, owner, permits, raced>>

\* the exchange succeeds: no writer holds or asks, and nothing changed
Join(t) ==
    /\ Welcome(t) /\ State = view[t]
    /\ readers' = readers + 1 /\ Forget(t) /\ Goto(t, "reading")
    /\ UNCHANGED <<isWriting, writers, owner, permits, raced>>

\* lockShared retries a weak exchange while no writer is there
JoinShared(t) ==
    /\ pc[t] = "shared"
    /\ \/ Join(t)
       \/ /\ Welcome(t) /\ Look(t) /\ UNCHANGED <<stateVars, owner, permits, pc, raced>>
       \/ /\ ~Welcome(t) /\ Forget(t) /\ Goto(t, "sharedmutex")
          /\ UNCHANGED <<stateVars, owner, permits, raced>>

\* tryLockShared makes one strong exchange
JoinTryShared(t) ==
    /\ pc[t] = "tryshared"
    /\ \/ Join(t)
       \/ /\ ~(Welcome(t) /\ State = view[t])
          /\ Forget(t) /\ Goto(t, "trysharedmutex")
          /\ UNCHANGED <<stateVars, owner, permits, raced>>

SharedMutex(t) == pc[t] = "sharedmutex" /\ MutexLock(t, "join")
TrySharedMutex(t) ==
    /\ pc[t] = "trysharedmutex"
    /\ MutexLock(t, "join") \/ MutexRefused(t, "idle")

JoinUnderMutex(t) ==
    /\ pc[t] = "join" /\ readers' = readers + 1 /\ Goto(t, "joined")
    /\ UNCHANGED <<isWriting, writers, owner, permits, view, raced>>

Joined(t) == pc[t] = "joined" /\ MutexUnlock(t, "reading")

\* variant: looks at the count after the subtraction
LeaveShared_After(t) ==
    /\ pc[t] = "reading" /\ readers' = readers - 1
    /\ Goto(t, IF readers' = 1 /\ isWriting = 1 THEN "post" ELSE "idle")
    /\ UNCHANGED <<isWriting, writers, owner, permits, view, raced>>

\* fetch-sub of READER; the last reader wakes the writer
LeaveShared(t) ==
    /\ pc[t] = "reading" /\ readers' = readers - 1
    /\ Goto(t, IF readers = 1 /\ isWriting = 1 THEN "post" ELSE "idle")
    /\ UNCHANGED <<isWriting, writers, owner, permits, view, raced>>

Post(t) ==
    /\ pc[t] = "post" /\ permits' = permits + 1 /\ Goto(t, "idle")
    /\ UNCHANGED <<stateVars, owner, view, raced>>

-----------------------------------------------------------------------------
Locks(t) == WriterMutex(t) \/ SharedMutex(t)

Runs(t) ==
    \/ Mark(t) \/ SemaphoreWait(t) \/ TryLoad(t) \/ TryMark(t) \/ Unmark(t) \/ Unlock(t)
    \/ JoinShared(t) \/ JoinTryShared(t) \/ TrySharedMutex(t)
    \/ JoinUnderMutex(t) \/ Joined(t) \/ LeaveShared(t) \/ Post(t)

Next == \E t \in Threads :
    Ask(t) \/ TryLock(t) \/ LoadShared(t) \/ LoadTryShared(t) \/ Locks(t) \/ Runs(t)

Spec == Init /\ [][Next]_vars

\* Threads are scheduled and leave their critical sections, and a free mutex that
\* somebody waits for is taken: no more than ExclusiveLock promises, so that no thread
\* in particular gets it.  An exchange that fails without cause changes nothing, and
\* fairness makes it succeed; one may fail for ever because others change the word.
FairSpec ==
    /\ Spec
    /\ \A t \in Threads : WF_vars(Runs(t))
    /\ WF_vars(\E t \in Threads : Locks(t))

-----------------------------------------------------------------------------
Writing == {t \in Threads : pc[t] = "writing"}
Reading == {t \in Threads : pc[t] = "reading"}
Posting == {t \in Threads : pc[t] = "post"}
Due == \E t \in Threads : pc[t] = "semaphore"
Calling == {"asking", "mark", "semaphore", "shared", "sharedmutex", "join", "joined"}

\* "A lock that supports one writer": no two threads hold it exclusively,
\* whether they got it by lock or by tryLock.
OneWriter == \A t, u \in Writing : t = u

\* "one writer or many readers": nobody reads while somebody writes, unless
\* tryLock has marked over a reader.
NoReaderWithWriter == raced \/ Writing = {} \/ Reading = {}

\* "A lock that supports one writer or many readers" (RwLock.zig:1).
Exclusive == OneWriter /\ NoReaderWithWriter

\* The semaphore hands exactly one permit to a writer that waits for readers:
\* the last reader leaves one, or is about to, and none is left over to let a
\* later writer in among readers, unless tryLock has marked over a reader.
PermitsMatch ==
    raced \/
        /\ permits > 0 \/ Posting # {} <=> Due /\ readers = 0
        /\ permits <= 1 /\ (permits = 1 => Posting = {})
        /\ \A t, u \in Posting : t = u

\* lock and lockShared do not leave everybody outside: while somebody is in one of
\* them, somebody is inside again and again.  And a writer that has marked is let in,
\* whatever stream of readers comes after it.  One that still asks may be overtaken by
\* readers for ever, since they meet at a mutex which promises nobody a turn.
LetIn ==
    /\ (\E t \in Threads : pc[t] \in Calling) ~> Writing \cup Reading # {} \/ raced
    /\ \A t \in Threads : pc[t] = "semaphore" ~> pc[t] = "writing" \/ raced
=============================================================================
