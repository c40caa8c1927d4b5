-------------------------------- MODULE Pool --------------------------------
(***************************************************************************)
(* std.Thread.Pool.  A critical section of the pool's mutex is one step:   *)
(* run_queue, ids and is_running are touched under it only.  The condition *)
(* is what Condition implements, two counters: a signal is reserved for    *)
(* one waiter and any waiter may take it, one that came later included.    *)
(* Calls nest (a task spawns tasks, and runs them itself when there is no  *)
(* memory for a closure), so a thread is a stack of frames.  Main owns the *)
(* pool and a wait group; a task may have a group of its own, for which it *)
(* waits before it returns (Package.Fetch does).  Manager is a thread      *)
(* outside of the pool (WaitGroup.spawnManager) that spawns tasks, too.    *)
(***************************************************************************)
EXTENDS Naturals, Sequences, FiniteSets, SequencesExt

CONSTANTS
    Workers, Main, Manager,
    Tasks, NoTask,
    Kinds,          \* of calls made: subset of {"wg", "wgid", "plain"}
    TrackIds,
    ManagerSpawns,  \* the manager thread uses the pool
    Oom             \* allocations and Thread.spawn may fail

ASSUME PoolAssumption ==
    /\ {TrackIds, ManagerSpawns, Oom} \subseteq BOOLEAN
    /\ Kinds \subseteq {"wg", "wgid", "plain"}
    /\ "wgid" \in Kinds => TrackIds     \* spawnWgId requires it
    /\ Workers # {} /\ IsFiniteSet(Workers)
    /\ Main # Manager /\ {Main, Manager} \cap Workers = {}
    /\ Tasks \cap {NoTask, Main, "ids", "threads"} = {}

VARIABLES
    runQueue, isRunning, ids,   \* run_queue, is_running, and ids in order
    waiters, signals,           \* of cond
    memory,                     \* which allocations are live
    spawned,                    \* the threads init started, in order
    stack,                      \* per thread, frames with a place and a task
    pending,                    \* the count of each wait group
    kind,                       \* how each task was spawned
    group,                      \* and into which group
    ran                         \* history: how often each task was called

condVars == <<waiters, signals>>
taskVars == <<pending, kind, group, ran>>
poolVars == <<runQueue, isRunning, ids, memory, spawned>>
vars == <<poolVars, condVars, stack, taskVars>>

Threads == Workers \cup {Main, Manager}
Groups == Tasks \cup {Main}
Frame(place, k) == [at |-> place, task |-> k]
At(t) == Last(stack[t]).at
Task(t) == Last(stack[t]).task

Init ==
    /\ runQueue = <<>> /\ isRunning = TRUE /\ ids = <<>>
    /\ waiters = 0 /\ signals = 0 /\ memory = {} /\ spawned = <<>>
    /\ stack = [t \in Threads |-> <<Frame(
          IF t = Main THEN "init" ELSE IF t = Manager THEN "outside" ELSE "unborn",
          NoTask)>>]
    /\ pending = [g \in Groups |-> 0] /\ kind = [k \in Tasks |-> "new"]
    /\ group = [k \in Tasks |-> Main] /\ ran = [k \in Tasks |-> 0]

\* The current frame moves to a place, or calls, or returns to its caller.
Goto(t, place) == stack' = [stack EXCEPT ![t] = Append(Front(@), Frame(place, Task(t)))]
Call(t, place, k) == stack' = [stack EXCEPT ![t] = Append(@, Frame(place, k))]
Return(t) == stack' = [stack EXCEPT ![t] = Front(@)]

-----------------------------------------------------------------------------
(***************************************************************************)
(* init, deinit and join                                                   *)
(***************************************************************************)
InitIds ==
    /\ At(Main) = "init"
    /\ \/ /\ TrackIds /\ ids' = <<Main>> /\ memory' = {"ids"}
          /\ Goto(Main, "allocthreads")
       \/ TrackIds /\ Oom /\ Goto(Main, "failed") /\ UNCHANGED <<ids, memory>>
       \/ ~TrackIds /\ Goto(Main, "allocthreads") /\ UNCHANGED <<ids, memory>>
    /\ UNCHANGED <<runQueue, isRunning, spawned, condVars, taskVars>>

InitThreads ==
    /\ At(Main) = "allocthreads"
    /\ \/ memory' = memory \cup {"threads"} /\ Goto(Main, "spawning")
       \/ Oom /\ Goto(Main, "failed") /\ UNCHANGED memory
    /\ UNCHANGED <<runQueue, isRunning, ids, spawned, condVars, taskVars>>

\* which worker is the next is of no importance
SpawnThread(w) ==
    /\ At(Main) = "spawning" /\ w = CHOOSE u \in Workers : At(u) = "unborn"
    /\ spawned' = Append(spawned, w)
    /\ stack' = [stack EXCEPT ![w] = <<Frame("start", NoTask)>>,
                   ![Main] = <<Frame(IF Len(spawned) + 1 = Cardinality(Workers)
                                     THEN "main" ELSE "spawning", NoTask)>>]
    /\ UNCHANGED <<runQueue, isRunning, ids, memory, condVars, taskVars>>

\* errdefer pool.join(spawned)
SpawnThreadFails ==
    /\ Oom /\ At(Main) = "spawning" /\ Goto(Main, "errjoin")
    /\ UNCHANGED <<poolVars, condVars, taskVars>>

\* deinit: nobody else outside of the pool uses it any more
Deinit ==
    /\ At(Main) = "main" /\ At(Manager) \in {"outside", "left"}
    /\ Goto(Main, "join")
    /\ UNCHANGED <<poolVars, condVars, taskVars>>

Stop ==
    /\ At(Main) \in {"join", "errjoin"} /\ isRunning' = FALSE
    /\ Goto(Main, IF At(Main) = "join" THEN "broadcast" ELSE "errbroadcast")
    /\ UNCHANGED <<runQueue, ids, memory, spawned, condVars, taskVars>>

\* variant: only one sleeper is told
Broadcast_One ==
    /\ At(Main) \in {"broadcast", "errbroadcast"}
    /\ signals' = IF waiters > signals THEN signals + 1 ELSE signals
    /\ Goto(Main, IF At(Main) = "broadcast" THEN "joining" ELSE "errjoining")
    /\ UNCHANGED <<poolVars, waiters, taskVars>>

Broadcast ==
    /\ At(Main) \in {"broadcast", "errbroadcast"} /\ signals' = waiters
    /\ Goto(Main, IF At(Main) = "broadcast" THEN "joining" ELSE "errjoining")
    /\ UNCHANGED <<poolVars, waiters, taskVars>>

\* variant: the first to exit stands for all
Joined_Any == \E i \in DOMAIN spawned : At(spawned[i]) = "exited"

Joined == \A i \in DOMAIN spawned : At(spawned[i]) = "exited"

\* the spawned threads are joined and `threads` freed; deinit frees `ids`, too
JoinThreads ==
    /\ Joined
    /\ \/ /\ At(Main) = "joining" /\ memory' = memory \ {"threads", "ids"}
          /\ Goto(Main, "gone")
       \/ /\ At(Main) = "errjoining" /\ memory' = memory \ {"threads"}
          /\ Goto(Main, "failed")
    /\ UNCHANGED <<runQueue, isRunning, ids, spawned, condVars, taskVars>>

-----------------------------------------------------------------------------
(***************************************************************************)
(* spawnWg, spawnWgId and spawn                                            *)
(***************************************************************************)
\* where user code calls the pool, and the groups it may use
MayCall(t) == At(t) \in {"main", "manager", "run"}
GroupsOf(t) == IF At(t) = "run" THEN {Main, Task(t)} ELSE {Main}

\* wait_group.start(); spawn has no group
Spawn(t, k, how, g) ==
    /\ MayCall(t) /\ kind[k] = "new" /\ g \in GroupsOf(t)
    /\ kind' = [kind EXCEPT ![k] = how] /\ group' = [group EXCEPT ![k] = g]
    /\ pending' = [pending EXCEPT ![g] = IF how = "plain" THEN @ ELSE @ + 1]
    /\ Call(t, "queue", k)
    /\ UNCHANGED <<poolVars, condVars, ran>>

\* create the closure and prepend it
Enqueue(t) ==
    /\ At(t) = "queue"
    /\ runQueue' = <<Task(t)>> \o runQueue
    /\ memory' = memory \cup {Task(t)}
    /\ Goto(t, "signal")
    /\ UNCHANGED <<isRunning, ids, spawned, condVars, taskVars>>

\* no memory: call the function here, or return the error
EnqueueFails(t) ==
    /\ Oom /\ At(t) = "queue"
    /\ \/ /\ kind[Task(t)] # "plain" /\ Goto(t, "run")
          /\ ran' = [ran EXCEPT ![Task(t)] = @ + 1] /\ UNCHANGED kind
       \/ /\ kind[Task(t)] = "plain" /\ Return(t)
          /\ kind' = [kind EXCEPT ![Task(t)] = "refused"] /\ UNCHANGED ran
    /\ UNCHANGED <<poolVars, condVars, pending, group>>

\* variant: sleeping workers are not told
Signal_Never(t) ==
    /\ At(t) = "signal" /\ Return(t)
    /\ UNCHANGED <<poolVars, condVars, taskVars>>

\* cond.signal()
Signal(t) ==
    /\ At(t) = "signal"
    /\ signals' = IF waiters > signals THEN signals + 1 ELSE signals
    /\ Return(t)
    /\ UNCHANGED <<poolVars, waiters, taskVars>>

-----------------------------------------------------------------------------
(***************************************************************************)
(* A task: the function, wait_group.finish, and closures are destroyed     *)
(***************************************************************************)
\* a function with a group of its own has waited for it
FunctionReturns(t) ==
    /\ At(t) = "run" /\ pending[Task(t)] = 0
    /\ Goto(t, IF kind[Task(t)] = "plain" THEN "destroy" ELSE "finish")
    /\ UNCHANGED <<poolVars, condVars, taskVars>>

\* variant: only closures finish
Finish_Closures(t) ==
    /\ At(t) = "finish"
    /\ IF Task(t) \in memory
       THEN /\ pending' = [pending EXCEPT ![group[Task(t)]] = @ - 1]
            /\ Goto(t, "destroy")
       ELSE UNCHANGED pending /\ Return(t)
    /\ UNCHANGED <<poolVars, condVars, kind, group, ran>>

\* a task called for want of memory has no closure to destroy
Finish(t) ==
    /\ At(t) = "finish" /\ pending' = [pending EXCEPT ![group[Task(t)]] = @ - 1]
    /\ IF Task(t) \in memory THEN Goto(t, "destroy") ELSE Return(t)
    /\ UNCHANGED <<poolVars, condVars, kind, group, ran>>

Destroy(t) ==
    /\ At(t) = "destroy" /\ memory' = memory \ {Task(t)} /\ Return(t)
    /\ UNCHANGED <<runQueue, isRunning, ids, spawned, condVars, taskVars>>

-----------------------------------------------------------------------------
(***************************************************************************)
(* worker                                                                  *)
(***************************************************************************)
\* pop the first task and call it from the frame at `place`
Pop(t, place) ==
    /\ runQueue # <<>> /\ runQueue' = Tail(runQueue)
    /\ stack' = [stack EXCEPT ![t] = Append(Front(@), Frame(place, Task(t)))
                                     \o <<Frame("run", Head(runQueue))>>]
    /\ ran' = [ran EXCEPT ![Head(runQueue)] = @ + 1]
    /\ UNCHANGED waiters

\* variant: a pool that stops drops what is queued
Turn_Stops(w) ==
    \/ isRunning /\ Pop(w, "loop")
    \/ /\ runQueue = <<>> /\ isRunning /\ waiters' = waiters + 1
       /\ Goto(w, "asleep") /\ UNCHANGED <<runQueue, ran>>
    \/ ~isRunning /\ Goto(w, "exited") /\ UNCHANGED <<runQueue, ran, waiters>>

\* one turn of the loop under the mutex: run a task, sleep, or stop
Turn(w) ==
    \/ Pop(w, "loop")
    \/ /\ runQueue = <<>> /\ isRunning /\ waiters' = waiters + 1
       /\ Goto(w, "asleep") /\ UNCHANGED <<runQueue, ran>>
    \/ /\ runQueue = <<>> /\ ~isRunning
       /\ Goto(w, "exited") /\ UNCHANGED <<runQueue, ran, waiters>>

\* a thread's first turn, with its registration in ids
WorkerStarts(w) ==
    /\ At(w) = "start" /\ Turn(w)
    /\ ids' = IF ids = <<>> THEN ids ELSE Append(ids, w)
    /\ UNCHANGED <<isRunning, memory, spawned, signals, pending, kind, group>>

WorkerTurns(w) ==
    /\ At(w) = "loop" /\ Turn(w)
    /\ UNCHANGED <<isRunning, ids, memory, spawned, signals, pending, kind, group>>

\* cond.wait returns: a signal reserved for a waiter is taken
Awake(w) ==
    /\ At(w) = "asleep" /\ waiters' = waiters - 1 /\ Goto(w, "loop")
    /\ signals > 0 /\ signals' = signals - 1
    /\ UNCHANGED <<poolVars, taskVars>>

\* or it returns for no reason
AwakeSpuriously(w) ==
    /\ At(w) = "asleep" /\ waiters' = waiters - 1 /\ Goto(w, "loop")
    /\ signals < waiters
    /\ UNCHANGED <<poolVars, signals, taskVars>>

-----------------------------------------------------------------------------
(***************************************************************************)
(* waitAndWork                                                             *)
(***************************************************************************)
WaitAndWork(t, g) ==
    /\ At(t) = "main" \/ (At(t) = "run" /\ pending[g] > 0)
    /\ g \in IF At(t) = "run" THEN {Task(t)} ELSE {Main}
    /\ Call(t, "poll", g)
    /\ UNCHANGED <<poolVars, condVars, taskVars>>

\* wait_group.isDone()
Poll(t) ==
    /\ At(t) = "poll"
    /\ IF pending[Task(t)] = 0 THEN Return(t) ELSE Goto(t, "work")
    /\ UNCHANGED <<poolVars, condVars, taskVars>>

Work(t) ==
    /\ At(t) = "work"
    /\ \/ Pop(t, "poll")
       \/ runQueue = <<>> /\ Goto(t, "await") /\ UNCHANGED <<runQueue, ran, waiters>>
    /\ UNCHANGED <<isRunning, ids, memory, spawned, signals, pending, kind, group>>

\* wait_group.wait()
Await(t) ==
    /\ At(t) = "await" /\ pending[Task(t)] = 0 /\ Return(t)
    /\ UNCHANGED <<poolVars, condVars, taskVars>>

-----------------------------------------------------------------------------
\* Main starts the manager thread, and it ends
ManagerStarts ==
    /\ ManagerSpawns /\ At(Main) = "main" /\ At(Manager) = "outside"
    /\ Goto(Manager, "manager")
    /\ UNCHANGED <<poolVars, condVars, taskVars>>

ManagerEnds ==
    /\ At(Manager) = "manager" /\ Goto(Manager, "left")
    /\ UNCHANGED <<poolVars, condVars, taskVars>>

-----------------------------------------------------------------------------
MainRuns == InitIds \/ InitThreads \/ Stop \/ Broadcast \/ JoinThreads

TaskRuns(t) ==
    Enqueue(t) \/ EnqueueFails(t) \/ Signal(t) \/ Finish(t) \/ Destroy(t)
    \/ Poll(t) \/ Work(t) \/ Await(t)

WorkerRuns(w) == WorkerStarts(w) \/ WorkerTurns(w)

Next ==
    \/ MainRuns \/ (\E w \in Workers : SpawnThread(w)) \/ SpawnThreadFails \/ Deinit
    \/ ManagerStarts \/ ManagerEnds
    \/ \E t \in Threads :
          \/ TaskRuns(t) \/ FunctionReturns(t)
          \/ \E k \in Tasks, how \in Kinds, g \in Groups : Spawn(t, k, how, g)
          \/ \E g \in Groups : WaitAndWork(t, g)
    \/ \E w \in Workers : WorkerRuns(w) \/ Awake(w) \/ AwakeSpuriously(w)

Spec == Init /\ [][Next]_vars

\* Threads are scheduled and get the mutex, and functions return: one that has a
\* group waits for it.  A signal of the condition is taken by some waiter, not by each.
FairSpec ==
    /\ Spec /\ WF_vars(MainRuns)
    /\ \A t \in Threads :
          /\ WF_vars(TaskRuns(t)) /\ WF_vars(FunctionReturns(t))
          /\ WF_vars(At(t) = "run" /\ WaitAndWork(t, Task(t)))
    /\ \A w \in Workers : WF_vars(WorkerRuns(w))
    /\ WF_vars(\E w \in Workers : Awake(w))

-----------------------------------------------------------------------------
\* A task is called once at most, and by a thread that has an id if it takes one:
\* "The first argument passed to `func` is a dense `usize` thread id" (Pool.zig:156).  That
\* is said of the pool's threads and its owner; a thread from outside has no id, and when
\* it has to call such a task for want of memory the code unwraps a null (:196-198).  When
\* the pool is gone every task it took was called, also those that were called at once
\* for want of memory and those that tasks spawned while it was being joined.
EachTaskOnce ==
    /\ \A k \in Tasks : ran[k] <= 1
    /\ \A t \in Threads \ {Manager} :
          At(t) = "run" /\ kind[Task(t)] = "wgid" => \E i \in DOMAIN ids : ids[i] = t
    /\ At(Main) = "gone" =>
          \A k \in Tasks : kind[k] \notin {"new", "refused"} => ran[k] = 1

\* Nothing of the pool is touched when it is gone, nor a closure that is
\* destroyed: no thread is inside a task, and all memory was returned.
PoolOutlivesTasks ==
    At(Main) = "gone" =>
        memory = {} /\ \A t \in Threads : At(t) \in {"gone", "outside", "left", "exited"}

\* The tasks of a group that have not finished: about to be queued, queued, or called.
Unfinished(g) == {k \in Tasks :
    /\ group[k] = g /\ kind[k] \in {"wg", "wgid"}
    /\ \/ \E i \in DOMAIN runQueue : runQueue[i] = k
       \/ \E t \in Threads : \E i \in DOMAIN stack[t] :
             stack[t][i].task = k /\ stack[t][i].at \in {"queue", "run", "finish"}}

\* The count of a wait group is the number of its unfinished tasks, wherever they are
\* (in the queue, on the stack of a worker or of the caller, below other calls): a wait
\* returns neither early nor late, and no count underflows.
GroupsExact == \A g \in Groups : pending[g] = Cardinality(Unfinished(g))

\* Threads that do nothing of themselves: users', those that sleep unsignaled, and those
\* that have not started or have ended; and threads that wait for others.
Rests(t) ==
    \/ At(t) \in {"main", "gone", "failed", "outside", "manager", "left", "unborn", "exited"}
    \/ At(t) = "asleep" /\ signals = 0
Waits(t) ==
    \/ At(t) = "await" /\ pending[Task(t)] > 0
    \/ At(t) \in {"joining", "errjoining"} /\ ~Joined

\* The pool never comes to a standstill with something to do: when no thread can go on,
\* none waits for a group or for threads to end, every task was called, and all wait groups
\* are down to zero.  So tasks may wait for tasks, although a thread that waits runs
\* others on the same stack, no matter how many workers there are.
NobodyStuck ==
    (\A t \in Threads : Rests(t) \/ Waits(t)) =>
        /\ \A t \in Threads : ~Waits(t)
        /\ \A k \in Tasks : kind[k] \in Kinds => ran[k] = 1
        /\ \A g \in Groups : pending[g] = 0

\* What the pool does with its condition are steps of a condition variable: the workers
\* wait, whoever queues a task has a call of signal to make, and who stops the pool one of
\* broadcast.
Cond == INSTANCE ConditionVariable
    WITH Waiters <- Workers, Signalers <- Threads, signals <- signals,
         waiting <- {w \in Workers : At(w) = "asleep"},
         owed <- [t \in Threads |-> IF At(t) = "signal" THEN "one"
                                    ELSE IF At(t) \in {"broadcast", "errbroadcast"} THEN "all"
                                    ELSE "nothing"]
UsesCondition == Cond!Spec

\* Whatever is queued is called, as long as there are threads to do it: no task
\* sleeps in the queue while all workers sleep on the condition.
QueuedRuns == \A k \in Tasks :
    kind[k] \in Kinds ~> ran[k] = 1 \/ kind[k] = "refused"

\* join returns, from deinit and from an init that failed, and waitAndWork returns,
\* however calls nest on the stacks of the workers.
WaitsReturn ==
    /\ At(Main) \in {"join", "errjoin"} ~> At(Main) \in {"gone", "failed"}
    /\ \A g \in Groups :
          (\E t \in Threads : At(t) = "await" /\ Task(t) = g)
              ~> ~\E t \in Threads : At(t) = "await" /\ Task(t) = g
=============================================================================
