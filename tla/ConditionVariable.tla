------------------------- MODULE ConditionVariable -------------------------
(***************************************************************************)
(* What std.Thread.Condition promises to those who use it, as one step     *)
(* per operation.  A thread that waits is unblocked when it takes one of   *)
(* the signals reserved for the waiters, whichever that is, or goes back   *)
(* of itself, at a timeout or for no reason, but never with a signal that  *)
(* is needed by the others.  A call of signal reserves one more signal if  *)
(* there is a waiter without one, a call of broadcast one for every        *)
(* waiter: at one moment between the call and its return.                  *)
(***************************************************************************)
EXTENDS Naturals, FiniteSets

CONSTANTS Waiters, Signalers

VARIABLES
    waiting,    \* who is inside wait
    signals,    \* how many of them may go
    owed        \* the call a signaler has begun and that has no effect yet

vars == <<waiting, signals, owed>>

Unsignaled == Cardinality(waiting) - signals

Init == waiting = {} /\ signals = 0 /\ owed = [s \in Signalers |-> "nothing"]

Wait(t) ==
    /\ t \notin waiting /\ waiting' = waiting \cup {t}
    /\ UNCHANGED <<signals, owed>>

Unblock(t) ==
    /\ t \in waiting /\ signals > 0
    /\ waiting' = waiting \ {t} /\ signals' = signals - 1 /\ UNCHANGED owed

GoBack(t) ==
    /\ t \in waiting /\ Unsignaled > 0
    /\ waiting' = waiting \ {t} /\ UNCHANGED <<signals, owed>>

Call(s, kind) ==
    /\ owed[s] = "nothing" /\ owed' = [owed EXCEPT ![s] = kind]
    /\ UNCHANGED <<waiting, signals>>

Notify(s) ==
    /\ owed[s] # "nothing" /\ owed' = [owed EXCEPT ![s] = "nothing"]
    /\ signals' = IF owed[s] = "all" THEN Cardinality(waiting)
                  ELSE IF Unsignaled > 0 THEN signals + 1 ELSE signals
    /\ UNCHANGED waiting

Next ==
    \/ \E t \in Waiters : Wait(t) \/ Unblock(t) \/ GoBack(t)
    \/ \E s \in Signalers : (\E kind \in {"one", "all"} : Call(s, kind)) \/ Notify(s)

Spec == Init /\ [][Next]_vars
=============================================================================
