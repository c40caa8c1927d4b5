-------------------------- MODULE ConditionProofs --------------------------
(***************************************************************************)
(* Proofs about Condition, for any finite set of waiters, any signalers    *)
(* and all three settings: the two counters that share a word are exact,   *)
(* so that neither half ever borrows from the other, and no signal that    *)
(* was reserved is forgotten.                                              *)
(***************************************************************************)
EXTENDS Condition, FiniteSetTheorems, TLAPS

Places == {"idle", "inside", "add", "unlock", "futex", "asleep", "reload", "restate",
           "consume", "timeout", "relock", "reserve", "bump", "wake", "done"}

\* where a registered waiter is
Within == {"unlock", "futex", "asleep", "reload", "restate", "consume", "timeout"}

PcType == pc \in [Threads -> Places]

Inv == PcType /\ signals \in Nat /\ SignalsCounted

-----------------------------------------------------------------------------
LEMMA RegisteredIs ==
    /\ Registered = {t \in Waiters : pc[t] \in Within}
    /\ IsFiniteSet(Registered) /\ Cardinality(Registered) \in Nat
<1>1. Registered = {t \in Waiters : pc[t] \in Within}
  BY DEF Registered, Blocked, Within
<1>2. IsFiniteSet(Registered)
  BY <1>1, FlagsAssumption, FS_Subset
<1> QED
  BY <1>1, <1>2, FS_CardinalityType

\* A step that moves nobody into or out of wait leaves the count.
LEMMA Stays ==
    ASSUME Inv, PcType', \A t \in Waiters : pc'[t] \in Within <=> pc[t] \in Within
    PROVE  Cardinality(Registered)' = Cardinality(Registered)
<1>1. Registered' = Registered
  BY DEF Registered, Blocked, Within
<1> QED
  BY <1>1

LEMMA Leaves ==
    ASSUME Inv, NEW t \in Waiters, pc[t] \in Within, Goto(t, "relock")
    PROVE  Cardinality(Registered)' = Cardinality(Registered) - 1
           /\ Cardinality(Registered) >= 1
<1>1. Registered' = Registered \ {t} /\ t \in Registered
  BY DEF Goto, Inv, PcType, Threads, Registered, Blocked, Within
<1>2. Cardinality(Registered)' = Cardinality(Registered) - 1
  BY <1>1, RegisteredIs, FS_RemoveElement
<1>3. Cardinality(Registered) # 0
  BY <1>1, RegisteredIs, FS_EmptySet
<1> QED
  BY <1>2, <1>3, RegisteredIs

LEMMA PcNext == ASSUME PcType, [Next]_vars PROVE PcType'
<1> USE DEF PcType, Goto, Threads, Places
<1>1. ASSUME NEW t \in Waiters, Enter(t) \/ StartWait(t) \/ Timeout(t) \/ Spurious(t)
      PROVE  PcType'
  BY <1>1 DEF Enter, StartWait, Timeout, Spurious, MutexLock
<1>2. ASSUME NEW t \in Waiters, Leave(t) \/ AddWaiter(t) \/ Unlock(t) \/ FutexWait(t)
      PROVE  PcType'
  BY <1>2 DEF Leave, AddWaiter, Unlock, FutexWait, MutexUnlock
<1>3. ASSUME NEW t \in Waiters, ReloadEpoch(t) \/ ReloadState(t) \/ Relock(t) PROVE PcType'
  BY <1>3 DEF ReloadEpoch, ReloadState, Relock, MutexLock
<1>4. ASSUME NEW t \in Waiters, Consume(t) \/ TimedOut(t) PROVE PcType'
  BY <1>4 DEF Consume, TimedOut, TakeSignal, GiveUp, ExchangeFails
<1>5. ASSUME NEW t \in Signalers, SignalLock(t) \/ Reserve(t) \/ Bump(t) \/ Return(t)
      PROVE  PcType'
  BY <1>5 DEF SignalLock, Reserve, Bump, Return, MutexLock
<1>6. ASSUME NEW t \in Signalers, NEW k \in {"one", "all"}, Call(t, k) PROVE PcType'
  BY <1>6 DEF Call
<1>7. ASSUME NEW t \in Signalers, Wake(t) PROVE PcType'
  BY <1>7 DEF Wake
<1>8. CASE UNCHANGED vars
  BY <1>8 DEF vars
<1> QED
  BY <1>1, <1>2, <1>3, <1>4, <1>5, <1>6, <1>7, <1>8 DEF Next, WaiterRuns, SignalerRuns

LEMMA InvNext == ASSUME Inv, [Next]_vars PROVE Inv'
<1> PcType'
  BY PcNext DEF Inv
<1>a. Waiters \subseteq Threads /\ Signalers \subseteq Threads
      /\ \A t \in Signalers, u \in Waiters : t # u
  BY FlagsAssumption DEF Threads
<1>0. ASSUME UNCHANGED <<waiters, signals>>,
             \A t \in Waiters : pc'[t] \in Within <=> pc[t] \in Within
      PROVE  Inv'
  BY <1>0, Stays DEF Inv, SignalsCounted
<1>1. ASSUME NEW t \in Waiters, Enter(t) \/ StartWait(t) \/ Timeout(t) \/ Spurious(t)
      PROVE  Inv'
  BY <1>1, <1>a, <1>0 DEF Enter, StartWait, Timeout, Spurious, MutexLock, Goto, Within, Inv,
                          PcType, condVars
<1>2. ASSUME NEW t \in Waiters, AddWaiter(t) PROVE Inv'
  <2>1. Registered' = Registered \cup {t} /\ t \notin Registered
    BY <1>2, <1>a DEF AddWaiter, Goto, Inv, PcType, Registered, Blocked
  <2>2. Cardinality(Registered)' = Cardinality(Registered) + 1
    BY <2>1, RegisteredIs, FS_AddElement
  <2> QED
    BY <1>2, <2>2, RegisteredIs DEF AddWaiter, Inv, SignalsCounted
<1>3. ASSUME NEW t \in Waiters,
             Leave(t) \/ Unlock(t) \/ FutexWait(t) \/ ReloadEpoch(t) \/ ReloadState(t) \/ Relock(t)
      PROVE  Inv'
  BY <1>3, <1>a, <1>0 DEF Leave, Unlock, FutexWait, ReloadEpoch, ReloadState, Relock,
                          MutexLock, MutexUnlock, Goto, Within, Inv, PcType, condVars
<1>4. ASSUME NEW t \in Waiters, Consume(t) \/ TimedOut(t) PROVE Inv'
  <2>1. CASE sstate[t].s > 0 /\ TakeSignal(t)
    <3>1. signals > 0
      BY <2>1 DEF TakeSignal, State
    <3>2. Cardinality(Registered)' = Cardinality(Registered) - 1 /\ Cardinality(Registered) >= 1
      BY <1>4, <2>1, Leaves DEF Consume, TimedOut, TakeSignal, Within
    <3> QED
      BY <2>1, <3>1, <3>2, RegisteredIs DEF TakeSignal, Inv, SignalsCounted
  <2>2. CASE GiveUp(t) /\ pc[t] = "timeout"
    <3>1. signals = 0
      BY <2>2 DEF GiveUp, State
    <3>2. Cardinality(Registered)' = Cardinality(Registered) - 1 /\ Cardinality(Registered) >= 1
      BY <2>2, Leaves DEF GiveUp, Within
    <3> QED
      BY <2>2, <3>1, <3>2, RegisteredIs DEF GiveUp, Inv, SignalsCounted
  <2>3. CASE ExchangeFails(t) \/ (pc[t] = "consume" /\ Goto(t, "futex") /\ UNCHANGED <<waiters, signals>>)
    BY <2>3, <1>a, <1>0 DEF ExchangeFails, Goto, Within, Inv, PcType
  <2> QED
    BY <1>4, <2>1, <2>2, <2>3 DEF Consume, TimedOut
<1>5. ASSUME NEW t \in Signalers, SignalLock(t) \/ Bump(t) \/ Return(t) PROVE Inv'
  BY <1>5, <1>a, <1>0 DEF SignalLock, Bump, Return, MutexLock, Goto, Inv, PcType, condVars
<1>6. ASSUME NEW t \in Signalers, NEW k \in {"one", "all"}, Call(t, k) PROVE Inv'
  BY <1>6, <1>a, <1>0 DEF Call, Goto, Inv, PcType, condVars
<1>7. ASSUME NEW t \in Signalers, Reserve(t) PROVE Inv'
  <2>1. \A u \in Waiters : pc'[u] = pc[u]
    BY <1>7, <1>a DEF Reserve, Goto, Inv, PcType
  <2>2. Cardinality(Registered)' = Cardinality(Registered)
    BY <2>1, Stays
  <2>3. CASE Wakeable(t) > 0 /\ State = sstate[t] /\ signals' = signals + Amount(t)
    <3>1. Wakeable(t) = waiters - signals
      BY <2>3 DEF Wakeable, State
    <3>2. Amount(t) \in Nat /\ Amount(t) <= waiters - signals
      BY <2>3, <3>1, RegisteredIs DEF Amount, Inv, SignalsCounted
    <3> QED
      BY <1>7, <2>2, <2>3, <3>2, RegisteredIs DEF Reserve, Inv, SignalsCounted
  <2>4. CASE UNCHANGED signals
    BY <1>7, <2>2, <2>4 DEF Reserve, Inv, SignalsCounted
  <2> QED
    BY <1>7, <2>3, <2>4 DEF Reserve
<1>8. ASSUME NEW t \in Signalers, Wake(t) PROVE Inv'
  <2>1. \A u \in Waiters : pc'[u] \in Within <=> pc[u] \in Within
    BY <1>8, <1>a DEF Wake, kSubset, Within, Inv, PcType
  <2> QED
    BY <1>8, <2>1, <1>0 DEF Wake, condVars
<1>9. CASE UNCHANGED vars
  BY <1>9, <1>0 DEF vars, condVars
<1> QED
  BY <1>1, <1>2, <1>3, <1>4, <1>5, <1>6, <1>7, <1>8, <1>9 DEF Next, WaiterRuns, SignalerRuns

LEMMA InvInit == Init => Inv
<1> SUFFICES ASSUME Init PROVE Inv
  OBVIOUS
<1>1. Registered = {}
  BY DEF Init, Registered, Blocked, Threads
<1> QED
  BY <1>1, FS_EmptySet DEF Init, Inv, PcType, Places, SignalsCounted

\* The waiters half counts the threads that are blocked or about to be, and there
\* are never more signals than waiters (SignalsCounted), whatever the timeouts,
\* spurious wakeups and weak exchanges.
THEOREM CountersExact == Spec => []SignalsCounted
<1>1. Inv => SignalsCounted
  BY DEF Inv
<1> QED
  BY <1>1, InvInit, InvNext, PTL DEF Spec

-----------------------------------------------------------------------------
(***************************************************************************)
(* No reserved signal is forgotten.  A signal is for a waiter that is      *)
(* awake (Up), or for one that a signaler has still to wake; it is for one *)
(* that registered before the last bump of the epoch (Old), or the bump of *)
(* its own signaler is still to come.  A waiter that goes to sleep on the  *)
(* current epoch saw no signals after it read that epoch.                  *)
(***************************************************************************)
Up == {t \in Waiters :
          \/ pc[t] \in {"reload", "restate", "consume", "timeout"}
          \/ pc[t] \in {"unlock", "futex"} /\ sepoch[t] # epoch}
Old == Up \cup {t \in Waiters : pc[t] = "asleep" /\ sepoch[t] # epoch}

\* the wakeups that signalers at these places have reserved: a pair for each
Reserved(places) ==
    {r \in Signalers \X Nat : pc[r[1]] \in places /\ r[2] \in 1 .. towake[r[1]]}
ToBump == Reserved({"bump"})
ToWake == Reserved({"bump", "wake"})

ViewType ==
    /\ epoch \in Nat /\ sepoch \in [Waiters -> Nat]
    /\ \A t \in Waiters : sepoch[t] <= epoch
    /\ towake \in [Signalers -> Nat] /\ DOMAIN sstate = Threads
    /\ IsFiniteSet(ToWake)

SawNone == \A t \in Waiters :
    pc[t] = "consume" /\ sstate[t].s = 0 /\ sepoch[t] = epoch
        => signals <= Cardinality(ToBump)
OldEnough == signals <= Cardinality(Old) + Cardinality(ToBump)
AwakeEnough == signals <= Cardinality(Up) + Cardinality(ToWake)

ReachInv == ViewType /\ SawNone /\ OldEnough /\ AwakeEnough


LEMMA Apart == /\ Waiters \subseteq Threads /\ Signalers \subseteq Threads
               /\ \A t \in Signalers, u \in Waiters : t # u
BY FlagsAssumption DEF Threads

LEMMA UpFacts ==
    /\ IsFiniteSet(Up) /\ IsFiniteSet(Old) /\ Up \subseteq Old
    /\ Cardinality(Up) \in Nat /\ Cardinality(Old) \in Nat
<1>1. Up \subseteq Old /\ Old \subseteq Waiters /\ Up \subseteq Waiters
  BY DEF Up, Old
<1>2. IsFiniteSet(Old) /\ IsFiniteSet(Up)
  BY <1>1, FlagsAssumption, FS_Subset
<1> QED
  BY <1>1, <1>2, FS_CardinalityType

LEMMA UpFactsNext ==
    /\ IsFiniteSet(Up') /\ IsFiniteSet(Old')
    /\ Cardinality(Up') \in Nat /\ Cardinality(Old') \in Nat
<1>1. Old' \subseteq Waiters /\ Up' \subseteq Waiters
  BY DEF Up, Old
<1>2. IsFiniteSet(Old') /\ IsFiniteSet(Up')
  BY <1>1, FlagsAssumption, FS_Subset
<1> QED
  BY <1>2, FS_CardinalityType

LEMMA TokenFacts ==
    ASSUME IsFiniteSet(ToWake)
    PROVE  /\ IsFiniteSet(ToBump) /\ Cardinality(ToBump) \in Nat
           /\ Cardinality(ToWake) \in Nat /\ Cardinality(ToBump) <= Cardinality(ToWake)
<1>1. ToBump \in SUBSET ToWake
  BY DEF ToBump, ToWake, Reserved
<1>2. IsFiniteSet(ToBump) /\ Cardinality(ToBump) <= Cardinality(ToWake)
  BY <1>1, FS_Subset
<1> QED
  BY <1>2, FS_CardinalityType

\* A signaler's wakeups are as many as it reserved.
LEMMA PlusTokens ==
    ASSUME NEW A, IsFiniteSet(A), NEW t, NEW n \in Nat, \A r \in A : r[1] # t
    PROVE  /\ IsFiniteSet(A \cup ({t} \X (1 .. n)))
           /\ Cardinality(A \cup ({t} \X (1 .. n))) = Cardinality(A) + n
<1> DEFINE B == {t} \X (1 .. n)
<1>1. IsFiniteSet(1 .. n) /\ Cardinality(1 .. n) = n
  BY FS_Interval
<1>2. IsFiniteSet({t}) /\ Cardinality({t}) = 1
  BY FS_Singleton
<1>3. IsFiniteSet(B) /\ Cardinality(B) = n
  <2>1. IsFiniteSet(B) /\ Cardinality(B) = Cardinality({t}) * Cardinality(1 .. n)
    BY <1>1, <1>2, FS_Product
  <2> QED
    BY <1>1, <1>2, <2>1
<1>4. A \cap B = {}
  OBVIOUS
<1>5. Cardinality(A \cap B) = 0
  BY <1>4, FS_EmptySet
<1>6. IsFiniteSet(A \cup B) /\ Cardinality(A \cup B) = Cardinality(A) + Cardinality(B) - 0
  <2> HIDE DEF B
  <2> QED
    BY <1>3, <1>5, FS_Union
<1>7. Cardinality(A) \in Nat
  BY FS_CardinalityType
<1> QED
  BY <1>3, <1>6, <1>7

\* Steps of anybody else leave the wakeups.
LEMMA TokensStay ==
    ASSUME \A t \in Signalers : pc[t] \in {"bump", "wake"} \/ pc'[t] \in {"bump", "wake"}
               => pc'[t] = pc[t] /\ towake'[t] = towake[t]
    PROVE  ToBump' = ToBump /\ ToWake' = ToWake
<1>1. \A t \in Signalers : pc'[t] \in {"bump"} <=> pc[t] \in {"bump"}
  OBVIOUS
<1>2. \A t \in Signalers : pc'[t] \in {"bump", "wake"} <=> pc[t] \in {"bump", "wake"}
  OBVIOUS
<1>3. \A t \in Signalers : pc[t] \in {"bump", "wake"} => towake'[t] = towake[t]
  OBVIOUS
<1> QED
  BY <1>1, <1>2, <1>3 DEF ToBump, ToWake, Reserved

\* The steps of a waiter, and those of a signaler before it reserves and after it wakes.
LEMMA TokensOf ==
    ASSUME Inv, NEW t \in Threads, NEW place, Goto(t, place),
           t \in Waiters \/ (pc[t] \notin {"bump", "wake"} /\ place \notin {"bump", "wake"}),
           \A u \in Signalers : towake'[u] = towake[u] \/ u = t
    PROVE  ToBump' = ToBump /\ ToWake' = ToWake
<1>1. \A u \in Signalers : u # t => pc'[u] = pc[u] /\ towake'[u] = towake[u]
  BY DEF Goto, Inv, PcType, Threads
<1>2. t \in Signalers => pc[t] \notin {"bump", "wake"} /\ pc'[t] \notin {"bump", "wake"}
  BY Apart DEF Goto, Inv, PcType
<1> QED
  BY <1>1, <1>2, TokensStay

LEMMA ReachFacts ==
    ASSUME Inv, ReachInv
    PROVE  /\ signals \in Nat /\ signals <= Cardinality(Registered)
           /\ Cardinality(Registered) \in Nat
           /\ Cardinality(ToBump) \in Nat /\ Cardinality(ToWake) \in Nat
           /\ Cardinality(ToBump) <= Cardinality(ToWake)
<1>1. signals \in Nat /\ signals <= Cardinality(Registered)
  BY DEF Inv, SignalsCounted
<1> QED
  BY <1>1, RegisteredIs, TokenFacts DEF ReachInv, ViewType

\* More waiters are awake, or old, for the same signals.
LEMMA MoreAwake ==
    ASSUME Inv, ReachInv, signals' = signals, ToBump' = ToBump, ToWake' = ToWake,
           Up \subseteq Up', Old \subseteq Old'
    PROVE  OldEnough' /\ AwakeEnough'
<1>1. Cardinality(Up) <= Cardinality(Up') /\ Cardinality(Old) <= Cardinality(Old')
  BY UpFactsNext, FS_Subset
<1> QED
  BY <1>1, UpFacts, UpFactsNext, ReachFacts DEF ReachInv, OldEnough, AwakeEnough

\* A waiter takes a signal, or one leaves when there is none.
LEMMA Taken ==
    ASSUME Inv, ReachInv, NEW t \in Waiters, t \in Up, signals' \in Nat,
           signals' = signals - 1 \/ signals' = 0,
           ToBump' = ToBump, ToWake' = ToWake, Up' = Up \ {t}, Old' = Old \ {t}
    PROVE  OldEnough' /\ AwakeEnough'
<1>1. Cardinality(Up \ {t}) = Cardinality(Up) - 1 /\ Cardinality(Old \ {t}) = Cardinality(Old) - 1
  BY UpFacts, FS_RemoveElement
<1> QED
  BY <1>1, UpFacts, UpFactsNext, ReachFacts DEF ReachInv, OldEnough, AwakeEnough


\* A step of a waiter moves that waiter only, and reserves nothing.
LEMMA WaiterStep ==
    ASSUME Inv, ReachInv, NEW t \in Waiters,
           Enter(t) \/ StartWait(t) \/ Timeout(t) \/ Spurious(t) \/ WaiterRuns(t)
    PROVE  /\ UNCHANGED <<epoch, towake>>
           /\ \A u \in Threads : u # t => pc'[u] = pc[u]
           /\ \A u \in Waiters : u # t => sepoch'[u] = sepoch[u] /\ sstate'[u] = sstate[u]
           /\ sepoch' \in {sepoch, [sepoch EXCEPT ![t] = epoch], [sepoch EXCEPT ![t] = 0]}
           /\ DOMAIN sstate' = DOMAIN sstate
           /\ ToBump' = ToBump /\ ToWake' = ToWake
<1>a. sepoch \in [Waiters -> Nat] /\ DOMAIN sstate = Threads /\ Waiters \subseteq Threads
  BY Apart DEF ReachInv, ViewType
<1> USE DEF Goto, Inv, PcType, condVars, viewVars, callVars
<1>1. CASE Enter(t) \/ StartWait(t) \/ Timeout(t) \/ Spurious(t)
  <2>1. /\ UNCHANGED <<epoch, towake>> /\ \A u \in Threads : u # t => pc'[u] = pc[u]
    BY <1>1 DEF Enter, StartWait, Timeout, Spurious, MutexLock
  <2>2. /\ \A u \in Waiters : u # t => sepoch'[u] = sepoch[u] /\ sstate'[u] = sstate[u]
        /\ sepoch' \in {sepoch, [sepoch EXCEPT ![t] = epoch], [sepoch EXCEPT ![t] = 0]}
        /\ DOMAIN sstate' = DOMAIN sstate
    BY <1>a, <1>1 DEF Enter, StartWait, Timeout, Spurious, MutexLock
  <2>3. ToBump' = ToBump /\ ToWake' = ToWake
    BY <2>1, Apart, TokensStay
  <2> QED
    BY <2>1, <2>2, <2>3
<1>2. CASE Leave(t) \/ AddWaiter(t) \/ Unlock(t) \/ FutexWait(t) \/ ReloadEpoch(t)
           \/ ReloadState(t) \/ Relock(t)
  <2>1. /\ UNCHANGED <<epoch, towake>> /\ \A u \in Threads : u # t => pc'[u] = pc[u]
    BY <1>2 DEF Leave, AddWaiter, Unlock, FutexWait, ReloadEpoch, ReloadState, Relock,
      MutexLock, MutexUnlock
  <2>2. /\ \A u \in Waiters : u # t => sepoch'[u] = sepoch[u] /\ sstate'[u] = sstate[u]
        /\ sepoch' \in {sepoch, [sepoch EXCEPT ![t] = epoch], [sepoch EXCEPT ![t] = 0]}
        /\ DOMAIN sstate' = DOMAIN sstate
    BY <1>a, <1>2 DEF Leave, AddWaiter, Unlock, FutexWait, ReloadEpoch, ReloadState, Relock,
      MutexLock, MutexUnlock, Look
  <2>3. ToBump' = ToBump /\ ToWake' = ToWake
    BY <2>1, Apart, TokensStay
  <2> QED
    BY <2>1, <2>2, <2>3
<1>3. CASE Consume(t) \/ TimedOut(t)
  <2>1. /\ UNCHANGED <<epoch, towake>> /\ \A u \in Threads : u # t => pc'[u] = pc[u]
    BY <1>3 DEF Consume, TimedOut, TakeSignal, GiveUp, ExchangeFails
  <2>2. /\ \A u \in Waiters : u # t => sepoch'[u] = sepoch[u] /\ sstate'[u] = sstate[u]
        /\ sepoch' \in {sepoch, [sepoch EXCEPT ![t] = epoch], [sepoch EXCEPT ![t] = 0]}
        /\ DOMAIN sstate' = DOMAIN sstate
    BY <1>a, <1>3 DEF Consume, TimedOut, TakeSignal, GiveUp, ExchangeFails, Look, Forget
  <2>3. ToBump' = ToBump /\ ToWake' = ToWake
    BY <2>1, Apart, TokensStay
  <2> QED
    BY <2>1, <2>2, <2>3
<1> QED
  BY <1>1, <1>2, <1>3 DEF WaiterRuns

\* What a step of a waiter does to what it saw of the epoch
LEMMA WaiterView ==
    ASSUME Inv, ReachInv, NEW t \in Waiters,
           Enter(t) \/ StartWait(t) \/ Timeout(t) \/ Spurious(t) \/ WaiterRuns(t)
    PROVE  ViewType'
<1>1. /\ epoch \in Nat /\ sepoch \in [Waiters -> Nat] /\ towake \in [Signalers -> Nat]
      /\ \A u \in Waiters : sepoch[u] <= epoch
      /\ IsFiniteSet(ToWake) /\ DOMAIN sstate = Threads
  BY DEF ReachInv, ViewType
<1>2. /\ UNCHANGED <<epoch, towake>> /\ ToWake' = ToWake /\ DOMAIN sstate' = DOMAIN sstate
      /\ sepoch' \in {sepoch, [sepoch EXCEPT ![t] = epoch], [sepoch EXCEPT ![t] = 0]}
  BY WaiterStep
<1>3. sepoch' \in [Waiters -> Nat] /\ \A u \in Waiters : sepoch'[u] <= epoch
  BY <1>1, <1>2
<1> QED
  BY <1>1, <1>2, <1>3 DEF ViewType

\* The steps of a waiter that take no signal
LEMMA WaiterQuiet ==
    ASSUME Inv, Inv', ReachInv, NEW t \in Waiters,
           \/ Enter(t) \/ StartWait(t) \/ Timeout(t) \/ Spurious(t) \/ Leave(t) \/ AddWaiter(t)
           \/ Unlock(t) \/ FutexWait(t) \/ ReloadEpoch(t) \/ ReloadState(t) \/ Relock(t)
    PROVE  ReachInv'
<1>1. /\ UNCHANGED epoch /\ \A u \in Waiters : u # t => pc'[u] = pc[u]
      /\ \A u \in Waiters : u # t => sepoch'[u] = sepoch[u] /\ sstate'[u] = sstate[u]
      /\ ToBump' = ToBump /\ ToWake' = ToWake
  BY WaiterStep, Apart DEF WaiterRuns
<1>2. signals' = signals
  BY DEF Enter, StartWait, Timeout, Spurious, Leave, AddWaiter, Unlock, FutexWait,
     ReloadEpoch,
    ReloadState, Relock, MutexLock, MutexUnlock, condVars
<1>3. (t \in Up => t \in Up') /\ (t \in Old => t \in Old')
  <2> USE Apart DEF Up, Old, Goto, Inv, PcType
  <2>1. CASE Enter(t) \/ StartWait(t) \/ Timeout(t) \/ Spurious(t) \/ Leave(t)
    BY <2>1 DEF Enter, StartWait, Timeout, Spurious, Leave, MutexLock, MutexUnlock
  <2>2. CASE AddWaiter(t) \/ Unlock(t) \/ ReloadEpoch(t) \/ ReloadState(t) \/ Relock(t)
    BY <2>2 DEF AddWaiter, Unlock, ReloadEpoch, ReloadState, Relock, MutexLock, MutexUnlock,
      condVars, viewVars
  <2>3. CASE FutexWait(t)
    BY <2>3 DEF FutexWait, condVars, viewVars
  <2> QED
    BY <2>1, <2>2, <2>3
<1>4. Up \subseteq Up' /\ Old \subseteq Old'
  BY <1>1, <1>3 DEF Up, Old
<1>5. OldEnough' /\ AwakeEnough'
  BY <1>1, <1>2, <1>4, MoreAwake
<1>6. pc'[t] = "consume" => sstate'[t].s = signals
  <2>1. pc'[t] = "consume" => ReloadState(t)
    BY Apart DEF Enter, StartWait, Timeout, Spurious, Leave, AddWaiter, Unlock, FutexWait,
      ReloadEpoch, ReloadState, Relock, MutexLock, MutexUnlock, Goto, Inv, PcType
  <2>2. sstate' = [sstate EXCEPT ![t] = State] => sstate'[t].s = signals
    BY Apart DEF State, ReachInv, ViewType
  <2> QED
    BY <2>1, <2>2 DEF ReloadState, Look
<1>7. SawNone'
  BY <1>1, <1>2, <1>6, ReachFacts DEF ReachInv, SawNone
<1> QED
  BY <1>5, <1>7, WaiterView DEF ReachInv, WaiterRuns


\* A waiter takes a reserved signal.
LEMMA WaiterTakes ==
    ASSUME Inv, ReachInv, NEW t \in Waiters, Consume(t) \/ TimedOut(t),
           sstate[t].s > 0, TakeSignal(t)
    PROVE  ReachInv'
<1>1. /\ UNCHANGED epoch /\ \A u \in Waiters : u # t => pc'[u] = pc[u]
      /\ \A u \in Waiters : u # t => sepoch'[u] = sepoch[u] /\ sstate'[u] = sstate[u]
      /\ ToBump' = ToBump /\ ToWake' = ToWake
  BY WaiterStep, Apart DEF WaiterRuns
<1>2. signals' = signals - 1 /\ signals > 0 /\ pc'[t] = "relock" /\ t \in Up
  BY Apart DEF TakeSignal, State, Goto, Consume, TimedOut, Up, Inv, PcType
<1>3. Up' = Up \ {t} /\ Old' = Old \ {t}
  BY <1>1, <1>2 DEF Up, Old
<1>4. OldEnough' /\ AwakeEnough'
  BY <1>1, <1>2, <1>3, Taken, ReachFacts
<1>5. SawNone'
  BY <1>1, <1>2, ReachFacts DEF ReachInv, SawNone
<1> QED
  BY <1>4, <1>5, WaiterView DEF ReachInv, WaiterRuns

\* One that timed out withdraws, as there is no signal.
LEMMA WaiterGivesUp ==
    ASSUME Inv, ReachInv, NEW t \in Waiters, TimedOut(t), GiveUp(t)
    PROVE  ReachInv'
<1>1. /\ UNCHANGED epoch /\ \A u \in Waiters : u # t => pc'[u] = pc[u]
      /\ ToBump' = ToBump /\ ToWake' = ToWake
  BY WaiterStep, Apart DEF WaiterRuns
<1>2. signals = 0 /\ signals' = 0
  BY DEF GiveUp, State
<1>3. OldEnough' /\ AwakeEnough' /\ SawNone'
  BY <1>1, <1>2, UpFactsNext, ReachFacts DEF OldEnough, AwakeEnough, SawNone
<1> QED
  BY <1>3, WaiterView DEF ReachInv, WaiterRuns

\* Its exchange fails, and it looks again; or it saw no signal and sleeps again.
LEMMA WaiterRetries ==
    ASSUME Inv, ReachInv, NEW t \in Waiters, Consume(t) \/ TimedOut(t),
           \/ ExchangeFails(t)
           \/ pc[t] = "consume" /\ sstate[t].s = 0 /\ Goto(t, "futex") /\ UNCHANGED <<waiters, signals, viewVars, histVars>>
    PROVE  ReachInv'
<1>1. /\ UNCHANGED epoch /\ \A u \in Waiters : u # t => pc'[u] = pc[u]
      /\ \A u \in Waiters : u # t => sepoch'[u] = sepoch[u] /\ sstate'[u] = sstate[u]
      /\ ToBump' = ToBump /\ ToWake' = ToWake
  BY WaiterStep, Apart DEF WaiterRuns
<1>2. signals' = signals /\ sepoch' = sepoch
  BY DEF ExchangeFails, viewVars
<1>3. CASE ExchangeFails(t)
  <2>1. Up' = Up /\ Old' = Old
    BY <1>1, <1>2, <1>3 DEF ExchangeFails, Up, Old
  <2>2. sstate'[t].s = signals
    BY <1>3, Apart DEF ExchangeFails, Look, State, ReachInv, ViewType
  <2>3. SawNone'
    BY <1>1, <1>2, <2>2, ReachFacts DEF ReachInv, SawNone
  <2> QED
    BY <1>1, <1>2, <2>1, <2>3, MoreAwake, WaiterView DEF ReachInv, WaiterRuns
<1>4. CASE pc[t] = "consume" /\ sstate[t].s = 0 /\ pc'[t] = "futex"
  <2>1. SawNone'
    BY <1>1, <1>2, <1>4 DEF ReachInv, SawNone
  <2>2. CASE sepoch[t] = epoch
    <3>1. signals <= Cardinality(ToBump)
      BY <1>4, <2>2 DEF ReachInv, SawNone
    <3>2. OldEnough' /\ AwakeEnough'
      BY <1>1, <1>2, <3>1, UpFactsNext, ReachFacts DEF OldEnough, AwakeEnough
    <3> QED
      BY <2>1, <3>2, WaiterView DEF ReachInv, WaiterRuns
  <2>3. CASE sepoch[t] # epoch
    <3>1. Up' = Up /\ Old' = Old
      BY <1>1, <1>2, <1>4, <2>3 DEF Up, Old
    <3> QED
      BY <1>1, <1>2, <2>1, <3>1, MoreAwake, WaiterView DEF ReachInv, WaiterRuns
  <2> QED
    BY <2>2, <2>3
<1> QED
  BY <1>3, <1>4, Apart DEF Goto, Inv, PcType

-----------------------------------------------------------------------------
\* A signaler that reserves nothing in this step, nor bumps nor wakes
LEMMA SignalerQuiet ==
    ASSUME Inv, ReachInv, NEW t \in Signalers,
           \/ SignalLock(t) \/ (\E k \in {"one", "all"} : Call(t, k)) \/ Return(t)
           \/ Reserve(t) /\ UNCHANGED signals /\ pc'[t] # "bump"
    PROVE  ReachInv'
<1> USE Apart DEF Goto
<1>1. /\ UNCHANGED <<signals, epoch, sepoch>>
      /\ \A u \in Threads : u # t => pc'[u] = pc[u]
      /\ \A u \in Waiters : sstate'[u] = sstate[u]
      /\ pc[t] \notin {"bump", "wake"} /\ pc'[t] \notin {"bump", "wake"}
      /\ DOMAIN sstate' = DOMAIN sstate
  BY DEF SignalLock, Call, Return, Reserve, MutexLock, Look, condVars, viewVars, Inv,
     PcType,
    ReachInv, ViewType
<1>2. /\ towake' \in [Signalers -> Nat]
      /\ \A u \in Signalers : u # t => towake'[u] = towake[u]
  <2>1. CASE SignalLock(t) \/ \E k \in {"one", "all"} : Call(t, k)
    BY <2>1 DEF SignalLock, Call, MutexLock, callVars, ReachInv, ViewType
  <2>2. CASE Return(t)
    BY <2>2 DEF Return, ReachInv, ViewType
  <2>3. CASE Reserve(t) /\ UNCHANGED signals /\ pc'[t] # "bump"
    <3>1. UNCHANGED towake
      BY <2>3 DEF Reserve, Inv, PcType
    <3> QED
      BY <3>1 DEF ReachInv, ViewType
  <2> QED
    BY <2>1, <2>2, <2>3
<1>3. ToBump' = ToBump /\ ToWake' = ToWake
  BY <1>1, <1>2, TokensStay
<1>4. Up' = Up /\ Old' = Old
  BY <1>1 DEF Up, Old
<1>5. OldEnough' /\ AwakeEnough'
  BY <1>1, <1>3, <1>4, MoreAwake
<1>6. ViewType' /\ SawNone'
  BY <1>1, <1>2, <1>3 DEF ReachInv, ViewType, SawNone
<1> QED
  BY <1>5, <1>6 DEF ReachInv

\* A signaler reserves: as many signals as it owes wakeups.
LEMMA SignalerReserves ==
    ASSUME Inv, Inv', ReachInv, NEW t \in Signalers, Reserve(t), Wakeable(t) > 0, State = sstate[t],
           signals' = signals + Amount(t), towake' = [towake EXCEPT ![t] = Amount(t)],
           Goto(t, "bump"), UNCHANGED sstate
    PROVE  ReachInv'
<1> DEFINE n == Amount(t)  New == {t} \X (1 .. n)
<1> USE Apart
<1>1. n \in Nat
  BY ReachFacts DEF Amount, Wakeable, State, Inv, SignalsCounted
<1>2. /\ UNCHANGED <<epoch, sepoch>> /\ pc[t] = "reserve" /\ pc'[t] = "bump"
      /\ \A u \in Threads : u # t => pc'[u] = pc[u]
      /\ towake' \in [Signalers -> Nat] /\ towake'[t] = n
      /\ \A u \in Signalers : u # t => towake'[u] = towake[u]
  BY <1>1 DEF Reserve, Goto, Inv, PcType, ReachInv, ViewType
<1>3. \A r \in ToWake : r[1] # t
  BY <1>2 DEF ToWake, Reserved
<1>4. \A r \in ToBump : r[1] # t
  BY <1>2 DEF ToBump, Reserved
<1>5. ToWake' = ToWake \cup New
  BY <1>1, <1>2 DEF ToWake, Reserved
<1>6. ToBump' = ToBump \cup New
  BY <1>1, <1>2 DEF ToBump, Reserved
<1>7. IsFiniteSet(ToWake) /\ IsFiniteSet(ToBump)
  BY TokenFacts DEF ReachInv, ViewType
<1>8. IsFiniteSet(ToWake') /\ Cardinality(ToWake') = Cardinality(ToWake) + n
  BY <1>1, <1>3, <1>5, <1>7, PlusTokens
<1>9. Cardinality(ToBump') = Cardinality(ToBump) + n
  BY <1>1, <1>4, <1>6, <1>7, PlusTokens
<1>10. Up' = Up /\ Old' = Old /\ signals' = signals + n
  BY <1>2 DEF Up, Old
<1> HIDE DEF n, New
<1>11. OldEnough' /\ AwakeEnough'
  BY <1>1, <1>8, <1>9, <1>10, UpFacts, ReachFacts DEF ReachInv, OldEnough, AwakeEnough
<1>12. SawNone'
  BY <1>1, <1>2, <1>9, <1>10, ReachFacts DEF ReachInv, SawNone
<1>13. ViewType'
  BY <1>2, <1>8 DEF ReachInv, ViewType
<1> QED
  BY <1>11, <1>12, <1>13 DEF ReachInv

\* After a bump of the epoch whoever is registered is old.
LEMMA SignalerBumps ==
    ASSUME Inv, ReachInv, NEW t \in Signalers, Bump(t)
    PROVE  ReachInv'
<1> USE Apart
<1>1. /\ epoch' = epoch + 1 /\ UNCHANGED <<signals, sepoch, sstate, towake>>
      /\ pc[t] = "bump" /\ pc'[t] = "wake" /\ \A u \in Threads : u # t => pc'[u] = pc[u]
  BY DEF Bump, Goto, viewVars, callVars, Inv, PcType
<1>2. /\ epoch \in Nat /\ sepoch \in [Waiters -> Nat] /\ towake \in [Signalers -> Nat]
      /\ \A u \in Waiters : sepoch[u] <= epoch
      /\ IsFiniteSet(ToWake) /\ DOMAIN sstate = Threads
  BY DEF ReachInv, ViewType
<1>3. \A u \in Waiters : sepoch'[u] # epoch' /\ sepoch'[u] <= epoch'
  BY <1>1, <1>2
<1>4. ToWake' = ToWake
  BY <1>1 DEF ToWake, Reserved
<1>5. ToBump' \subseteq ToWake
  BY <1>1 DEF ToBump, ToWake, Reserved
<1>6. Cardinality(ToBump') \in Nat
  BY <1>2, <1>5, FS_Subset, FS_CardinalityType
<1>7. Registered \subseteq Old' /\ Up \subseteq Up'
  BY <1>1, <1>3, RegisteredIs DEF Within, Up, Old
<1>8. Cardinality(Registered) <= Cardinality(Old') /\ Cardinality(Up) <= Cardinality(Up')
  BY <1>7, UpFactsNext, FS_Subset
<1>9. OldEnough' /\ AwakeEnough'
  BY <1>1, <1>4, <1>6, <1>8, UpFacts, UpFactsNext, ReachFacts DEF ReachInv, OldEnough,
     AwakeEnough
<1>10. SawNone'
  BY <1>3 DEF SawNone
<1>11. ViewType'
  BY <1>1, <1>2, <1>3, <1>4 DEF ViewType
<1> QED
  BY <1>9, <1>10, <1>11 DEF ReachInv

\* A signaler wakes as many as it reserved, or all who sleep: then the old are all awake.
LEMMA SignalerWakes ==
    ASSUME Inv, ReachInv, NEW t \in Signalers, Wake(t)
    PROVE  ReachInv'
<1> DEFINE asleep == {u \in Waiters : pc[u] = "asleep"}
           Mine == {t} \X (1 .. towake[t])
           n == IF towake[t] < Cardinality(asleep) THEN towake[t] ELSE Cardinality(asleep)
<1> USE Apart
<1>1. PICK woken \in SUBSET asleep :
        /\ Cardinality(woken) = n
        /\ pc' = [u \in Threads |-> IF u \in woken THEN "reload" ELSE IF u = t THEN "done" ELSE pc[u]]
  BY DEF Wake, kSubset
<1>2. UNCHANGED <<signals, epoch, sepoch, sstate, towake>> /\ pc[t] = "wake"
  BY DEF Wake, condVars, viewVars, callVars
<1>3. /\ pc'[t] = "done" /\ \A u \in Waiters \ woken : pc'[u] = pc[u]
      /\ \A u \in woken : pc'[u] = "reload" /\ pc[u] = "asleep"
      /\ \A u \in Signalers : u # t => pc'[u] = pc[u]
  BY <1>1
<1>4. towake[t] \in Nat /\ IsFiniteSet(ToWake)
  BY DEF ReachInv, ViewType
<1>5. IsFiniteSet(asleep) /\ Cardinality(asleep) \in Nat
  BY FlagsAssumption, FS_Subset, FS_CardinalityType
<1>6. IsFiniteSet(woken)
  BY <1>1, <1>5, FS_Subset
<1>7. ToBump' = ToBump /\ ToWake' \subseteq ToWake /\ ToWake = ToWake' \cup Mine
  BY <1>2, <1>3, <1>4 DEF ToBump, ToWake, Reserved
<1>8. \A r \in ToWake' : r[1] # t
  BY <1>3 DEF ToWake, Reserved
<1>9. IsFiniteSet(ToWake')
  BY <1>4, <1>7, FS_Subset
<1>10. Cardinality(ToWake) = Cardinality(ToWake') + towake[t]
  BY <1>4, <1>7, <1>8, <1>9, PlusTokens
<1>11. ToBump \subseteq ToWake'
  BY <1>3, <1>7, <1>2 DEF ToBump, ToWake, Reserved
<1>12. Cardinality(ToBump) <= Cardinality(ToWake') /\ Cardinality(ToWake') \in Nat
  BY <1>9, <1>11, FS_Subset, FS_CardinalityType
<1>13. Up' = Up \cup woken /\ Up \cap woken = {} /\ Old \subseteq Old'
  BY <1>2, <1>3 DEF Up, Old
<1>14. Cardinality(Old) <= Cardinality(Old')
  BY <1>13, UpFactsNext, FS_Subset
<1>15. OldEnough'
  BY <1>2, <1>7, <1>14, UpFacts, UpFactsNext, ReachFacts DEF ReachInv, OldEnough
<1>16. ASSUME n = towake[t] PROVE AwakeEnough'
  <2>1. Cardinality(Up') = Cardinality(Up) + n
    <3>1. Cardinality(Up \cap woken) = 0
      BY <1>13, FS_EmptySet
    <3>2. Cardinality(Up \cup woken) = Cardinality(Up) + Cardinality(woken) - Cardinality(Up \cap woken)
      BY <1>6, UpFacts, FS_Union
    <3> HIDE DEF n
    <3>3. n \in Nat
      BY <1>4, <1>16
    <3> QED
      BY <1>1, <1>13, <3>1, <3>2, <3>3, UpFacts
  <2> HIDE DEF n
  <2>2. AwakeEnough'
    BY <1>2, <1>4, <1>10, <1>12, <1>16, <2>1, UpFacts, ReachFacts DEF ReachInv, AwakeEnough
  <2> QED
    BY <2>2
<1>17. ASSUME n = Cardinality(asleep) PROVE AwakeEnough'
  <2>1. woken = asleep
    BY <1>1, <1>5, <1>17, FS_Subset
  <2>2. Old \subseteq Up'
    BY <1>13, <2>1 DEF Old
  <2>3. Cardinality(Old) <= Cardinality(Up')
    BY <2>2, UpFactsNext, FS_Subset
  <2> QED
    BY <1>2, <1>12, <2>3, UpFacts, UpFactsNext, ReachFacts DEF ReachInv, OldEnough,
       AwakeEnough
<1>18. SawNone'
  BY <1>2, <1>3, <1>7 DEF ReachInv, SawNone
<1>19. ViewType'
  BY <1>2, <1>9 DEF ReachInv, ViewType
<1> QED
  BY <1>15, <1>16, <1>17, <1>18, <1>19 DEF ReachInv

LEMMA ReachNext == ASSUME Inv, ReachInv, [Next]_vars PROVE ReachInv'
<1> Inv'
  BY InvNext
<1>1. ASSUME NEW t \in Waiters, Consume(t) \/ TimedOut(t) PROVE ReachInv'
  BY <1>1, WaiterTakes, WaiterGivesUp, WaiterRetries DEF Consume, TimedOut
<1>2. ASSUME NEW t \in Signalers, Reserve(t) PROVE ReachInv'
  <2>1. CASE /\ Wakeable(t) > 0 /\ State = sstate[t] /\ signals' = signals + Amount(t)
             /\ towake' = [towake EXCEPT ![t] = Amount(t)] /\ Goto(t, "bump") /\ UNCHANGED sstate
    BY <1>2, <2>1, SignalerReserves
  <2>2. CASE UNCHANGED signals /\ (UNCHANGED pc \/ Goto(t, "done"))
    <3>1. pc'[t] # "bump"
      BY <1>2, <2>2, Apart DEF Reserve, Goto, Inv, PcType
    <3> QED
      BY <1>2, <2>2, <3>1, SignalerQuiet
  <2> QED
    BY <1>2, <2>1, <2>2 DEF Reserve
<1>3. CASE UNCHANGED vars
  <2>1. /\ ToBump' = ToBump /\ ToWake' = ToWake /\ Up' = Up /\ Old' = Old
        /\ UNCHANGED <<signals, epoch, sepoch, sstate, towake, pc>>
    BY <1>3 DEF vars, condVars, viewVars, callVars, ToBump, ToWake, Reserved, Up, Old
  <2> QED
    BY <2>1 DEF ReachInv, ViewType, SawNone, OldEnough, AwakeEnough
<1> QED
  BY <1>1, <1>2, <1>3, WaiterQuiet, SignalerQuiet, SignalerBumps, SignalerWakes
  DEF Next, WaiterRuns, SignalerRuns

LEMMA ReachInit == Init => ReachInv
<1> SUFFICES ASSUME Init PROVE ReachInv
  OBVIOUS
<1> USE Apart DEF Init
<1>1. ToWake = {} /\ ToBump = {} /\ Up = {} /\ Old = {}
  BY DEF ToWake, ToBump, Reserved, Up, Old
<1>2. IsFiniteSet({}) /\ Cardinality({}) = 0
  BY FS_EmptySet
<1> QED
  BY <1>1, <1>2 DEF ReachInv, ViewType, SawNone, OldEnough, AwakeEnough

\* For every reserved signal there is a waiter awake to take it, or a signaler that has
\* still to wake one (SignalsReach): no wakeup gets lost between the epoch and the signals.
THEOREM SignalsArrive == Spec => []SignalsReach
<1>1. Inv /\ ReachInv => SignalsReach
  <2> SUFFICES ASSUME Inv, ReachInv, ~\E t \in Signalers : pc[t] \in {"bump", "wake"}
               PROVE  signals <= Cardinality(Up)
    BY DEF SignalsReach, Up
  <2>1. ToWake = {}
    BY DEF ToWake, Reserved
  <2>2. Cardinality(ToWake) = 0
    BY <2>1, FS_EmptySet
  <2> QED
    BY <2>2, UpFacts, ReachFacts DEF ReachInv, AwakeEnough
<1> QED
  BY <1>1, InvInit, InvNext, ReachInit, ReachNext, PTL DEF Spec

-----------------------------------------------------------------------------
(***************************************************************************)
(* Every step is a step of ConditionVariable: the waiters are those in     *)
(* wait, and a call takes effect when it reserves its signals, or when it  *)
(* looks again and finds that every waiter has one.                        *)
(***************************************************************************)
KindType == kind \in [Signalers -> {"one", "all"}] /\ DOMAIN sstate = Threads

OwedBy == [t \in Signalers |-> Owed(t)]

\* The abstract module brings its own copy of the operator.
LEMMA SameCardinality == ASSUME NEW S PROVE Abstract!Cardinality(S) = Cardinality(S)
BY Zenon DEF Abstract!Cardinality, Cardinality

LEMMA KindNext == ASSUME KindType, [Next]_vars PROVE KindType'
<1> USE DEF KindType, callVars, viewVars
<1>1. ASSUME NEW t \in Waiters, Enter(t) \/ StartWait(t) \/ Timeout(t) \/ Spurious(t)
                                \/ WaiterRuns(t)
      PROVE  KindType'
  BY <1>1 DEF Enter, StartWait, Timeout, Spurious, WaiterRuns, Leave, AddWaiter, Unlock,
     FutexWait, ReloadEpoch, ReloadState, Consume, TimedOut, Relock, MutexLock, MutexUnlock,
     TakeSignal, GiveUp, ExchangeFails, Look, Forget
<1>2. ASSUME NEW t \in Signalers, SignalLock(t) \/ (\E k \in {"one", "all"} : Call(t, k))
                                  \/ SignalerRuns(t)
      PROVE  KindType'
  BY <1>2 DEF SignalLock, Call, SignalerRuns, Reserve, Bump, Wake, Return, MutexLock, Look
<1>3. CASE UNCHANGED vars
  BY <1>3 DEF vars
<1> QED
  BY <1>1, <1>2, <1>3 DEF Next

\* What is owed depends on a signaler's place, view and kind of call.
LEMMA OwedStays ==
    ASSUME \A u \in Signalers : pc'[u] = pc[u] /\ sstate'[u] = sstate[u] /\ kind'[u] = kind[u]
    PROVE  OwedBy' = OwedBy
BY DEF OwedBy, Owed, Wakeable

LEMMA OwedOf ==
    ASSUME NEW t \in Signalers,
           \A u \in Signalers : u # t =>
               pc'[u] = pc[u] /\ sstate'[u] = sstate[u] /\ kind'[u] = kind[u]
    PROVE  OwedBy' = [OwedBy EXCEPT ![t] = Owed(t)']
BY DEF OwedBy, Owed, Wakeable

\* A step of a waiter
LEMMA WaiterRefines ==
    ASSUME Inv, KindType, NEW t \in Waiters,
           Enter(t) \/ StartWait(t) \/ Timeout(t) \/ Spurious(t) \/ WaiterRuns(t)
    PROVE  [Abstract!Next]_(Abstract!vars)
<1> USE Apart DEF Goto, Inv, PcType, KindType
<1>1. /\ \A u \in Threads : u # t => pc'[u] = pc[u]
      /\ \A u \in Signalers : sstate'[u] = sstate[u] /\ kind'[u] = kind[u]
  BY DEF Enter, StartWait, Timeout, Spurious, WaiterRuns, Leave, AddWaiter, Unlock,
     FutexWait, ReloadEpoch, ReloadState, Consume, TimedOut, Relock, MutexLock, MutexUnlock,
     TakeSignal, GiveUp, ExchangeFails, Look, Forget, callVars, viewVars
<1>2. OwedBy' = OwedBy
  BY <1>1, OwedStays
<1>3. ASSUME pc'[t] \in Within <=> pc[t] \in Within, signals' = signals
      PROVE  UNCHANGED Abstract!vars
  <2>1. Registered' = Registered
    BY <1>1, <1>3 DEF Registered, Blocked, Within
  <2> QED
    BY <1>2, <1>3, <2>1 DEF Abstract!vars, OwedBy
<1>4. CASE AddWaiter(t)
  <2>1. Registered' = Registered \cup {t} /\ t \notin Registered /\ signals' = signals
    BY <1>4 DEF AddWaiter, Registered, Blocked
  <2>2. Abstract!Wait(t)
    BY <1>2, <2>1 DEF Abstract!Wait, OwedBy
  <2> QED
    BY <2>2 DEF Abstract!Next
<1>5. CASE (Consume(t) \/ TimedOut(t)) /\ sstate[t].s > 0 /\ TakeSignal(t)
  <2>1. signals > 0 /\ signals' = signals - 1
    BY <1>5 DEF TakeSignal, State
  <2>2. Registered' = Registered \ {t} /\ t \in Registered
    BY <1>5 DEF Consume, TimedOut, TakeSignal, Registered, Blocked
  <2>3. Abstract!Unblock(t)
    BY <1>2, <2>1, <2>2 DEF Abstract!Unblock, OwedBy
  <2> QED
    BY <2>3 DEF Abstract!Next
<1>6. CASE TimedOut(t) /\ GiveUp(t)
  <2>1. signals = 0 /\ signals' = signals
    BY <1>6 DEF GiveUp, State
  <2>2. Registered' = Registered \ {t} /\ t \in Registered
    BY <1>6 DEF TimedOut, GiveUp, Registered, Blocked
  <2>3. Cardinality(Registered) > 0
    <3>1. Cardinality(Registered) # 0
      BY <2>2, RegisteredIs, FS_EmptySet
    <3> QED
      BY <3>1, RegisteredIs
  <2>4. Abstract!GoBack(t)
    BY <1>2, <2>1, <2>2, <2>3, RegisteredIs, SameCardinality DEF Abstract!GoBack, Abstract!Unsignaled, OwedBy
  <2> QED
    BY <2>4 DEF Abstract!Next
<1>7. CASE \/ (Consume(t) \/ TimedOut(t)) /\ ExchangeFails(t)
           \/ Consume(t) /\ Goto(t, "futex") /\ UNCHANGED signals
  BY <1>3, <1>7 DEF Consume, TimedOut, ExchangeFails, Within
<1>8. CASE \/ Enter(t) \/ StartWait(t) \/ Timeout(t) \/ Spurious(t) \/ Leave(t) \/ Unlock(t)
           \/ FutexWait(t) \/ ReloadEpoch(t) \/ ReloadState(t) \/ Relock(t)
  BY <1>3, <1>8 DEF Enter, StartWait, Timeout, Spurious, Leave, Unlock, FutexWait, ReloadEpoch,
     ReloadState, Relock, MutexLock, MutexUnlock, Within, condVars
<1>9. ASSUME Consume(t) \/ TimedOut(t) PROVE [Abstract!Next]_(Abstract!vars)
  BY <1>9, <1>5, <1>6, <1>7 DEF Consume, TimedOut
<1> QED
  BY <1>4, <1>8, <1>9 DEF WaiterRuns

\* A step of a signaler
LEMMA SignalerRefines ==
    ASSUME Inv, KindType, NEW t \in Signalers,
           SignalLock(t) \/ (\E k \in {"one", "all"} : Call(t, k)) \/ SignalerRuns(t)
    PROVE  [Abstract!Next]_(Abstract!vars)
<1> USE Apart DEF Goto, Inv, PcType, KindType
<1>1. /\ \A u \in Signalers : u # t =>
            pc'[u] = pc[u] /\ sstate'[u] = sstate[u] /\ kind'[u] = kind[u]
      /\ \A u \in Waiters : pc'[u] \in Within <=> pc[u] \in Within
  <2>1. CASE Wake(t)
    BY <2>1 DEF Wake, kSubset, Within, viewVars, callVars
  <2>2. CASE SignalLock(t) \/ (\E k \in {"one", "all"} : Call(t, k)) \/ Reserve(t) \/ Bump(t)
             \/ Return(t)
    BY <2>2 DEF SignalLock, Call, Reserve, Bump, Return, MutexLock, Look, viewVars, callVars
  <2> QED
    BY <2>1, <2>2 DEF SignalerRuns
<1>2. Registered' = Registered
  BY <1>1 DEF Registered, Blocked, Within
<1>3. OwedBy' = [OwedBy EXCEPT ![t] = Owed(t)']
  BY <1>1, OwedOf
<1>4. DOMAIN OwedBy = Signalers /\ OwedBy[t] = Owed(t)
      /\ \A f : f = [OwedBy EXCEPT ![t] = Owed(t)] => f = OwedBy
  BY DEF OwedBy
<1>5. ASSUME Owed(t)' = Owed(t), signals' = signals PROVE UNCHANGED Abstract!vars
  BY <1>2, <1>3, <1>4, <1>5 DEF Abstract!vars, OwedBy
<1>6. CASE SignalLock(t) \/ Bump(t) \/ Wake(t) \/ Return(t)
  <2>1. pc[t] # "reserve" /\ pc'[t] # "reserve" /\ signals' = signals
    BY <1>6 DEF SignalLock, Bump, Wake, Return, MutexLock, condVars, kSubset
  <2>2. Owed(t)' = Owed(t)
    BY <2>1 DEF Owed
  <2> QED
    BY <1>5, <2>1, <2>2
<1>7. ASSUME NEW k \in {"one", "all"}, Call(t, k) PROVE [Abstract!Next]_(Abstract!vars)
  <2>1. pc[t] # "reserve" /\ kind'[t] = k /\ UNCHANGED signals
    BY <1>7 DEF Call, condVars
  <2>2. Owed(t) = "nothing" /\ (Owed(t)' = "nothing" \/ Owed(t)' = k)
    BY <2>1 DEF Owed
  <2>3. CASE Owed(t)' = k
    <3>1. Abstract!Call(t, k)
      BY <1>2, <1>3, <1>4, <2>1, <2>2, <2>3 DEF Abstract!Call, OwedBy
    <3> QED
      BY <3>1 DEF Abstract!Next
  <2> QED
    BY <1>5, <2>1, <2>2, <2>3
<1>8. CASE Reserve(t)
  <2>0. kind'[t] = kind[t] /\ kind[t] \in {"one", "all"} /\ pc[t] = "reserve" /\ waiters' = waiters
        /\ waiters = Cardinality(Registered) /\ signals <= waiters /\ waiters \in Nat
    BY <1>8, RegisteredIs DEF Reserve, SignalsCounted
  <2>1. CASE Wakeable(t) > 0 /\ State = sstate[t] /\ signals' = signals + Amount(t)
             /\ Goto(t, "bump")
    <3>1. Owed(t) = kind[t] /\ Owed(t)' = "nothing"
      BY <2>0, <2>1 DEF Owed
    <3>2. Wakeable(t) = waiters - signals
      BY <2>1 DEF Wakeable, State
    <3>3. signals' = IF Owed(t) = "all" THEN Cardinality(Registered)
                     ELSE IF Cardinality(Registered) - signals > 0 THEN signals + 1 ELSE signals
      BY <2>0, <2>1, <3>1, <3>2 DEF Amount
    <3>4. Abstract!Notify(t)
      BY <1>2, <1>3, <1>4, <2>0, <3>1, <3>3, SameCardinality
      DEF Abstract!Notify, Abstract!Unsignaled, OwedBy
    <3> QED
      BY <3>4 DEF Abstract!Next
  <2>2. CASE Wakeable(t) > 0 /\ Look(t) /\ UNCHANGED <<signals, pc>>
    <3>1. Owed(t) = kind[t] /\ sstate'[t] = State /\ pc'[t] = "reserve"
      BY <2>0, <2>2 DEF Owed, Look
    <3>2. CASE waiters - signals > 0
      <4>1. Wakeable(t)' > 0
        BY <3>1, <3>2 DEF Wakeable, State
      <4>2. Owed(t)' = Owed(t)
        BY <2>0, <3>1, <4>1 DEF Owed
      <4> QED
        BY <1>5, <2>2, <4>2
    <3>3. CASE ~(waiters - signals > 0)
      <4>1. ~(Wakeable(t)' > 0)
        BY <3>1, <3>3 DEF Wakeable, State
      <4>2. Owed(t)' = "nothing"
        BY <3>1, <4>1 DEF Owed
      <4>3. Cardinality(Registered) = signals
        BY <2>0, <3>3
      <4>4. Abstract!Notify(t)
        BY <1>2, <1>3, <1>4, <2>0, <2>2, <3>1, <4>2, <4>3, SameCardinality
        DEF Abstract!Notify, Abstract!Unsignaled, OwedBy
      <4> QED
        BY <4>4 DEF Abstract!Next
    <3> QED
      BY <3>2, <3>3
  <2>3. CASE Wakeable(t) = 0 /\ Goto(t, "done") /\ UNCHANGED signals
    <3>1. Owed(t)' = Owed(t)
      BY <2>0, <2>3 DEF Owed
    <3> QED
      BY <1>5, <2>3, <3>1
  <2> QED
    BY <1>8, <2>1, <2>2, <2>3 DEF Reserve
<1> QED
  BY <1>6, <1>7, <1>8 DEF SignalerRuns

\* The four accesses of signal and broadcast, and the seven of wait, behave as the
\* operations of ConditionVariable (ImplementsCondition), for any number of waiters and
\* signalers, with timeouts, spurious wakeups and exchanges that fail for no reason.
THEOREM Implements == Spec => ImplementsCondition
<1>1. Init => Inv /\ KindType /\ Abstract!Init
  <2> SUFFICES ASSUME Init PROVE Inv /\ KindType /\ Abstract!Init
    OBVIOUS
  <2>1. Registered = {}
    BY Apart DEF Init, Registered, Blocked
  <2>2. \A t \in Signalers : Owed(t) = "nothing"
    BY Apart DEF Init, Owed
  <2> QED
    BY <2>1, <2>2, InvInit DEF Init, KindType, Abstract!Init
<1>2. Inv /\ KindType /\ [Next]_vars => [Abstract!Next]_(Abstract!vars)
  <2>1. CASE UNCHANGED vars
    <3>1. UNCHANGED <<pc, sstate, kind, signals>>
      BY <2>1 DEF vars, condVars, viewVars, callVars
    <3>2. OwedBy' = OwedBy /\ Registered' = Registered
      BY <3>1 DEF OwedBy, Owed, Wakeable, Registered, Blocked
    <3>3. UNCHANGED Abstract!vars
      BY <3>1, <3>2 DEF Abstract!vars, OwedBy
    <3> QED
      BY <3>3
  <2> QED
    BY <2>1, WaiterRefines, SignalerRefines DEF Next
<1>3. Spec => [](Inv /\ KindType)
  BY <1>1, InvNext, KindNext, PTL DEF Spec
<1> QED
  BY <1>1, <1>2, <1>3, PTL DEF Spec, ImplementsCondition, Abstract!Spec
=============================================================================
