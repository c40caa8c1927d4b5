------------------------------ MODULE WaitGroup ------------------------------
(***************************************************************************)
(* std.Thread.WaitGroup with the ResetEvent it waits on, one action per    *)
(* atomic access and futex call.  One thread owns the group: it starts     *)
(* tasks, polls isDone, waits, and then resets the group or lets its       *)
(* memory go.  A task may start others before it finishes.  `state` packs  *)
(* the bit is_waiting and the count of pending tasks; wait adds the bit,   *)
(* so that it would carry if it were set.                                  *)
(***************************************************************************)
EXTENDS Naturals, FiniteSets

CONSTANTS
    Tasks,
    MaxRounds,      \* bound on the uses of the group between resets
    Timed           \* the owner waits on the event with timedWait, and retries

ASSUME WgAssumption ==
    IsFiniteSet(Tasks) /\ MaxRounds \in Nat \ {0} /\ Timed \in BOOLEAN

VARIABLES
    isWaiting, pending,     \* the two fields of `state`
    event,                  \* the ResetEvent
    task,                   \* where each task is
    wpc,                    \* where the owner is
    round

vars == <<isWaiting, pending, event, task, wpc, round>>

Init ==
    /\ isWaiting = 0 /\ pending = 0 /\ event = "unset"
    /\ task = [t \in Tasks |-> "off"]
    /\ wpc = "working" /\ round = 1

Goto(place) == wpc' = place
Move(t, place) == task' = [task EXCEPT ![t] = place]

-----------------------------------------------------------------------------
\* start, and startMany: the owner before it waits, or a task that is running
Start(ts) ==
    /\ ts # {} /\ \A t \in ts : task[t] = "off"
    /\ wpc = "working" \/ \E u \in Tasks : task[u] = "running" /\ Cardinality(ts) = 1
    /\ pending' = pending + Cardinality(ts)
    /\ task' = [t \in Tasks |-> IF t \in ts THEN "running" ELSE task[t]]
    /\ UNCHANGED <<isWaiting, event, wpc, round>>

\* variant: whoever finishes last sets the event
Finish_Before(t) ==
    /\ task[t] = "running"
    /\ pending' = pending - 1
    /\ Move(t, IF pending = 1 THEN "set" ELSE "done")
    /\ UNCHANGED <<isWaiting, event, wpc, round>>

\* fetchSub of one_pending: the last one sets the event if somebody waits
Finish(t) ==
    /\ task[t] = "running"
    /\ pending' = pending - 1
    /\ Move(t, IF pending = 1 /\ isWaiting = 1 THEN "set" ELSE "done")
    /\ UNCHANGED <<isWaiting, event, wpc, round>>

\* ResetEvent.set: exchange, then wake
EventSet(t) ==
    /\ task[t] = "set" /\ event' = "is_set"
    /\ Move(t, IF event = "waiting" THEN "wake" ELSE "done")
    /\ UNCHANGED <<isWaiting, pending, wpc, round>>

EventWake(t) ==
    /\ task[t] = "wake" /\ Move(t, "done")
    /\ wpc' = IF wpc = "asleep" THEN "check" ELSE wpc
    /\ UNCHANGED <<isWaiting, pending, event, round>>

-----------------------------------------------------------------------------
\* isDone: the owner goes on as if it had waited
IsDone ==
    /\ wpc = "working" /\ pending = 0 /\ Goto("returned")
    /\ UNCHANGED <<isWaiting, pending, event, task, round>>

\* variant: the waiting thread does not say so
Wait_Unmarked ==
    /\ wpc = "working"
    /\ Goto(IF pending > 0 THEN "isset" ELSE "returned")
    /\ UNCHANGED <<isWaiting, pending, event, task, round>>

\* waitStateless: fetchAdd of is_waiting
Wait ==
    /\ wpc = "working" /\ isWaiting' = isWaiting + 1
    /\ Goto(IF pending > 0 THEN "isset" ELSE "returned")
    /\ UNCHANGED <<pending, event, task, round>>

\* ResetEvent.wait: a load, a load and an exchange, then the futex
IsSet ==
    /\ wpc = "isset" /\ Goto(IF event = "is_set" THEN "returned" ELSE "enter")
    /\ UNCHANGED <<isWaiting, pending, event, task, round>>

Enter ==
    /\ wpc = "enter"
    /\ Goto(CASE event = "is_set" -> "returned" [] event = "waiting" -> "futex"
            [] OTHER -> "exchange")
    /\ UNCHANGED <<isWaiting, pending, event, task, round>>

Exchange ==
    /\ wpc = "exchange"
    /\ \/ event = "unset" /\ event' = "waiting" /\ Goto("futex")
       \/ event # "unset" /\ UNCHANGED event /\ Goto("returned")
    /\ UNCHANGED <<isWaiting, pending, task, round>>

FutexWait ==
    /\ wpc = "futex" /\ Goto(IF event = "waiting" THEN "asleep" ELSE "check")
    /\ UNCHANGED <<isWaiting, pending, event, task, round>>

Spurious ==
    /\ wpc = "asleep" /\ Goto("check")
    /\ UNCHANGED <<isWaiting, pending, event, task, round>>

Timeout ==
    /\ Timed /\ wpc = "asleep" /\ Goto("timeout")
    /\ UNCHANGED <<isWaiting, pending, event, task, round>>

\* "Check if the ResetEvent was set before possibly reporting error.Timeout"
Check ==
    /\ wpc \in {"check", "timeout"}
    /\ Goto(CASE event # "waiting" -> "returned" [] wpc = "check" -> "futex"
            [] OTHER -> "isset")
    /\ UNCHANGED <<isWaiting, pending, event, task, round>>

\* reset: a store to `state`, then a store to the event
ResetState ==
    /\ wpc = "returned" /\ round < MaxRounds
    /\ isWaiting' = 0 /\ pending' = 0 /\ round' = round + 1
    /\ Goto("reset")
    /\ UNCHANGED <<event, task>>

\* variant: the event stays set
ResetEvent_Keep ==
    /\ wpc = "reset" /\ Goto("working")
    /\ task' = [t \in Tasks |-> IF task[t] = "done" THEN "off" ELSE task[t]]
    /\ UNCHANGED <<isWaiting, pending, event, round>>

ResetEvent ==
    /\ wpc = "reset" /\ event' = "unset" /\ Goto("working")
    /\ task' = [t \in Tasks |-> IF task[t] = "done" THEN "off" ELSE task[t]]
    /\ UNCHANGED <<isWaiting, pending, round>>

\* the memory is let go
Free ==
    /\ wpc = "returned" /\ Goto("gone")
    /\ UNCHANGED <<isWaiting, pending, event, task, round>>

-----------------------------------------------------------------------------
Waits == IsSet \/ Enter \/ Exchange \/ FutexWait \/ Check

Next ==
    \/ \E ts \in SUBSET Tasks : Start(ts)
    \/ \E t \in Tasks : Finish(t) \/ EventSet(t) \/ EventWake(t)
    \/ IsDone \/ Wait \/ Waits \/ Spurious \/ Timeout
    \/ ResetState \/ ResetEvent \/ Free

Spec == Init /\ [][Next]_vars

\* Threads are scheduled, and tasks finish.
FairSpec ==
    /\ Spec /\ WF_vars(Waits)
    /\ \A t \in Tasks : WF_vars(Finish(t)) /\ WF_vars(EventSet(t)) /\ WF_vars(EventWake(t))

-----------------------------------------------------------------------------
\* Once wait has returned every task has finished.
AllFinished ==
    wpc \in {"returned", "reset", "gone"} =>
        \A t \in Tasks : task[t] \in {"off", "set", "wake", "done"}

\* wait returns when every task finished, and no earlier; and if it did wait for the event,
\* the event is set then, as the assert at the end of timedWaitInner says.
WaitsForAll ==
    [][/\ AllFinished'
       /\ wpc' = "returned" /\ wpc \in {"exchange", "check", "timeout"} => event = "is_set"]_vars

\* Once wait returned nothing writes to the group any more: it may be reset, or
\* lie on the stack of the function that waited.  (A waker may still pass the
\* address to the futex, which does not touch the memory.)
NoUseAfterWait ==
    wpc \in {"returned", "reset", "gone"} => \A t \in Tasks : task[t] # "set"

\* When tasks finish, whoever waits for them goes on.
WaitReturns == wpc \in {"isset", "futex", "asleep"} ~> wpc = "returned"
=============================================================================
