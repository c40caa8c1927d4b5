--------------------------- MODULE ExclusiveLock ---------------------------
(***************************************************************************)
(* What std.Thread.Mutex promises: at most one thread is inside, and a     *)
(* free lock somebody waits for is taken.  It does not promise that a      *)
(* particular waiting thread is ever served.                               *)
(***************************************************************************)
CONSTANT Threads

VARIABLES
    wants,      \* threads blocked in lock()
    inside      \* threads that returned from lock() or tryLock() with the lock

lockVars == <<wants, inside>>

Init == wants = {} /\ inside = {}

Ask(t) ==
    /\ t \notin wants \cup inside
    /\ wants' = wants \cup {t} /\ UNCHANGED inside

Take(t) ==
    /\ inside = {} /\ inside' = {t}
    /\ wants' = wants \ {t}

Leave(t) ==
    /\ t \in inside
    /\ inside' = inside \ {t} /\ UNCHANGED wants

Next == \E t \in Threads : Ask(t) \/ Take(t) \/ Leave(t)

Serve == \E t \in wants : Take(t)

Spec == Init /\ [][Next]_lockVars
FairSpec == Spec /\ WF_lockVars(Serve)
=============================================================================
