-------------------------- MODULE WaitGroupProofs --------------------------
(***************************************************************************)
(* Proofs about WaitGroup, for any finite set of tasks and any number of   *)
(* rounds: a wait returns when all tasks finished, nothing writes to the   *)
(* group afterwards, and the event's assert holds.                         *)
(***************************************************************************)
EXTENDS WaitGroup, FiniteSetTheorems, TLAPS

Places == {"working", "isset", "enter", "exchange", "futex", "asleep", "check",
           "timeout", "returned", "reset", "gone"}
\* where the owner is inside of wait, and after it
Within == {"isset", "enter", "exchange", "futex", "asleep", "check", "timeout"}
After == {"returned", "reset", "gone"}

Running == {t \in Tasks : task[t] = "running"}

Types ==
    /\ task \in [Tasks -> {"off", "running", "set", "wake", "done"}]
    /\ wpc \in Places /\ event \in {"unset", "waiting", "is_set"}
    /\ isWaiting \in {0, 1} /\ round \in 1 .. MaxRounds

\* `state` counts the tasks that run.
Counted == pending = Cardinality(Running)

\* The event is set by one task at most, the last one, while the owner is within
\* wait; the owner leaves when it is set.
Handover ==
    /\ isWaiting = 1 => wpc \in Within \cup {"returned", "gone"}
    /\ wpc \in Within => isWaiting = 1
    /\ wpc \in After => Running = {}
    /\ \A t \in Tasks : task[t] = "set" =>
          wpc \in Within /\ Running = {} /\ event # "is_set"
    /\ \A t, u \in Tasks : task[t] = "set" /\ task[u] = "set" => t = u
    /\ event = "is_set" => Running = {} /\ wpc \in Within \cup After
    /\ wpc \in {"working", "exchange"} => event # "waiting"
    /\ wpc \in {"futex", "asleep", "check", "timeout"} => event # "unset"

Inv == Types /\ Counted /\ Handover

-----------------------------------------------------------------------------
LEMMA RunningFinite == \A S \in SUBSET Tasks : IsFiniteSet(S) /\ Cardinality(S) \in Nat
BY WgAssumption, FS_Subset, FS_CardinalityType

LEMMA NoneRunning == Counted => pending \in Nat /\ (pending = 0 <=> Running = {})
BY RunningFinite, FS_EmptySet DEF Counted, Running

LEMMA OneRunning ==
    ASSUME Counted, NEW t \in Tasks, task[t] = "running", pending = 1
    PROVE  Running = {t}
<1>1. t \in Running /\ IsFiniteSet(Running)
  BY RunningFinite DEF Running
<1>2. Cardinality(Running \ {t}) = Cardinality(Running) - 1
  BY <1>1, FS_RemoveElement
<1>3. Cardinality(Running \ {t}) = 0
  BY <1>2 DEF Counted
<1> QED
  BY <1>1, <1>3, RunningFinite, FS_EmptySet DEF Running

LEMMA InvInit == Init => Inv
<1> SUFFICES ASSUME Init PROVE Inv
  OBVIOUS
<1>1. Running = {}
  BY DEF Init, Running
<1> QED
  BY <1>1, WgAssumption, FS_EmptySet
  DEF Init, Inv, Types, Counted, Handover, Places, Within, After

LEMMA StartStep == ASSUME Inv, NEW ts \in SUBSET Tasks, Start(ts) PROVE Inv'
<1>1. Running' = Running \cup ts /\ Running \cap ts = {}
  BY DEF Start, Running, Inv, Types
<1>2. Cardinality(Running \cup ts) = Cardinality(Running) + Cardinality(ts)
  <2>1. Cardinality(Running \cup ts) = Cardinality(Running) + Cardinality(ts) - Cardinality({})
    BY <1>1, RunningFinite, FS_Union DEF Running
  <2> QED
    BY <2>1, FS_EmptySet, RunningFinite DEF Running
<1>3. Counted'
  BY <1>1, <1>2 DEF Start, Inv, Counted
<1>4. wpc = "working" \/ Running # {}
  BY DEF Start, Running
<1>5. Types'
  BY DEF Start, Inv, Types
<1>6. Handover'
  BY <1>1, <1>4 DEF Start, Inv, Types, Handover, Within, After
<1> QED
  BY <1>3, <1>5, <1>6 DEF Inv

LEMMA FinishStep == ASSUME Inv, NEW t \in Tasks, Finish(t) PROVE Inv'
<1>1. Running' = Running \ {t} /\ t \in Running
  BY DEF Finish, Move, Running, Inv, Types
<1>2. Counted'
  BY <1>1, RunningFinite, FS_RemoveElement DEF Finish, Inv, Counted, Running
<1>3. Types'
  BY DEF Finish, Move, Inv, Types
<1>4. wpc \notin After /\ event # "is_set" /\ \A u \in Tasks : task[u] # "set"
  BY <1>1 DEF Inv, Handover
<1>5. Handover'
  <2>1. CASE pending = 1 /\ isWaiting = 1
    <3>1. Running' = {} /\ wpc \in Within
      BY <1>1, <1>4, <2>1, OneRunning DEF Inv, Handover, Finish, After
    <3> QED
      BY <1>4, <2>1, <3>1 DEF Finish, Move, Inv, Types, Handover, After
  <2>2. CASE ~(pending = 1 /\ isWaiting = 1)
    BY <1>1, <1>4, <2>2 DEF Finish, Move, Inv, Types, Handover
  <2> QED
    BY <2>1, <2>2
<1> QED
  BY <1>2, <1>3, <1>5 DEF Inv

LEMMA EventStep ==
    ASSUME Inv, NEW t \in Tasks, EventSet(t) \/ EventWake(t) PROVE Inv'
<1>1. Running' = Running /\ pending' = pending
  BY DEF EventSet, EventWake, Move, Running, Inv, Types
<1>2. Counted'
  BY <1>1 DEF Inv, Counted
<1>3. Types'
  BY DEF EventSet, EventWake, Move, Inv, Types, Places
<1>4. Handover'
  BY <1>1 DEF EventSet, EventWake, Move, Inv, Types, Handover, Within, After
<1> QED
  BY <1>2, <1>3, <1>4 DEF Inv

LEMMA OwnerStep ==
    ASSUME Inv, IsDone \/ Wait \/ Waits \/ Spurious \/ Timeout \/ Free PROVE Inv'
<1> USE DEF Inv, Goto
<1>1. Running' = Running /\ pending' = pending /\ task' = task /\ round' = round
  BY DEF IsDone, Wait, Waits, IsSet, Enter, Exchange, FutexWait, Check, Spurious, Timeout,
         Free, Running
<1>2. Counted'
  BY <1>1 DEF Counted
<1>3. CASE IsDone \/ Wait
  <2>1. Types' /\ Handover'
    BY <1>1, <1>3, NoneRunning DEF IsDone, Wait, Types, Handover, Places, Within, After
  <2> QED
    BY <1>2, <2>1
<1>4. CASE IsSet \/ Enter \/ Exchange
  <2>1. Types' /\ Handover'
    BY <1>1, <1>4 DEF IsSet, Enter, Exchange, Types, Handover, Places, Within, After
  <2> QED
    BY <1>2, <2>1
<1>5. CASE FutexWait \/ Check \/ Spurious \/ Timeout \/ Free
  <2>1. Types' /\ Handover'
    BY <1>1, <1>5
    DEF FutexWait, Check, Spurious, Timeout, Free, Types, Handover, Places, Within, After
  <2> QED
    BY <1>2, <2>1
<1> QED
  BY <1>3, <1>4, <1>5 DEF Waits

LEMMA ResetStep == ASSUME Inv, ResetState \/ ResetEvent PROVE Inv'
<1> USE DEF Inv, Goto
<1>1. Running = {} /\ wpc \in After
  BY DEF ResetState, ResetEvent, Handover, After
<1>2. Running' = {}
  BY <1>1 DEF ResetState, ResetEvent, Running, Types
<1>3. pending' = 0
  BY <1>1, NoneRunning DEF ResetState, ResetEvent
<1>4. Counted'
  BY <1>2, <1>3, FS_EmptySet DEF Counted
<1>5. Types'
  BY WgAssumption DEF ResetState, ResetEvent, Types, Places
<1>6. Handover'
  BY <1>1, <1>2 DEF ResetState, ResetEvent, Handover, Types, Within, After
<1> QED
  BY <1>4, <1>5, <1>6

LEMMA InvNext == Inv /\ [Next]_vars => Inv'
<1> SUFFICES ASSUME Inv, [Next]_vars PROVE Inv'
  OBVIOUS
<1>1. CASE UNCHANGED vars
  BY <1>1 DEF vars, Inv, Types, Counted, Handover, Running
<1> QED
  BY <1>1, StartStep, FinishStep, EventStep, OwnerStep, ResetStep DEF Next

-----------------------------------------------------------------------------
LEMMA InvSuffices == Inv => AllFinished /\ NoUseAfterWait
BY DEF Inv, Types, Handover, AllFinished, NoUseAfterWait, Within, After, Running

\* wait returns when every task has finished and the event is set (WaitsForAll), for any
\* number of tasks and rounds; the assert at the end of timedWaitInner never fails.
THEOREM WaitCorrect == Spec => WaitsForAll
<1>1. Inv /\ [Next]_vars =>
          (wpc' = "returned" /\ wpc \in {"exchange", "check", "timeout"} => event = "is_set")
  <2> SUFFICES ASSUME Inv, [Next]_vars, wpc' = "returned",
                      wpc \in {"exchange", "check", "timeout"}
               PROVE  event = "is_set"
    OBVIOUS
  <2>1. Exchange \/ Check
    BY DEF Next, vars, Start, Finish, EventSet, EventWake, IsDone, Wait, Waits, IsSet, Enter,
           FutexWait, Spurious, Timeout, ResetState, ResetEvent, Free, Goto
  <2> QED
    BY <2>1 DEF Exchange, Check, Goto, Inv, Types, Handover
<1>2. Inv' => AllFinished'
  BY InvSuffices, PTL
<1> QED
  BY <1>1, <1>2, InvInit, InvNext, PTL DEF Spec, WaitsForAll

\* After wait returned no task still writes to the group (NoUseAfterWait): the
\* owner may reset it or free its memory.
THEOREM NothingAfterWait == Spec => []NoUseAfterWait
BY InvSuffices, InvInit, InvNext, PTL DEF Spec
=============================================================================
