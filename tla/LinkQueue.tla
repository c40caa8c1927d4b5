------------------------------ MODULE LinkQueue ------------------------------
(***************************************************************************)
(* The queue of link tasks of the Zig compiler (src/link/Queue.zig) with   *)
(* the threads that use it: the main thread running Compilation.update,    *)
(* the codegen workers, the jobs that build prelink inputs, and the link   *)
(* thread itself.                                                          *)
(*                                                                         *)
(* Everything between q.mutex.lock() and the matching unlock is one step.  *)
(* Work a thread does outside the mutex is a step of its own, so the       *)
(* window between setting `state` to running and spawnWgId is explicit.    *)
(* Each variable named as a field of Queue stands for that field.          *)
(***************************************************************************)
EXTENDS Integers, Sequences, FiniteSets, Functions

CONSTANTS
    LinkFuncs,      \* functions whose ZcuTask is a link_func
    OtherTasks,     \* ZcuTasks of the other kinds (link_nav, link_type, ...)
    PrelinkItems,   \* jobs bracketed by startPrelinkItem / finishPrelinkItem
    CmdLine,        \* the prelink tasks Compilation.create queues itself
    AirBytes,       \* size of the AIR of each function
    MaxAirBytes,    \* max_air_bytes_in_flight
    AllocMayFail,   \* whether growing a queue may report OutOfMemory
    NoTask

Tasks == LinkFuncs \cup OtherTasks

ASSUME ConstantsAssumption ==
    /\ IsFiniteSet(LinkFuncs) /\ IsFiniteSet(PrelinkItems)
    /\ LinkFuncs \cap OtherTasks = {}
    /\ NoTask \notin Tasks
    /\ MaxAirBytes \in Nat
    /\ AirBytes \in [LinkFuncs -> Nat \ {0}]
    /\ AllocMayFail \in BOOLEAN

VARIABLES
    prelink_wait_count, queued_prelink, wip_prelink,
    queued_zcu, wip_zcu, wip_zcu_idx,
    air_bytes_in_flight, air_bytes_waiting,
    air_signaled,       \* air_bytes_cond was signaled since the main thread slept
    state, wait_for,    \* the tag of `state`, and the payload of wait_for_mir
    flush_jobs,         \* flushTaskQueue closures in the thread pool's run queue
    wg,                 \* pending count of link_task_wait_group
    lpc, have_idle_tasks,   \* the link thread
    post_prelink,       \* link.File.post_prelink
    mpc, cur,           \* the main thread, and the task it is enqueueing
    failed,             \* this update will end without reaching flush
    left,               \* tasks analysis may still dispatch in this update
    mir,                \* SharedMir of each function: its status, or freed
    cg, item,           \* codegen worker of each function; each prelink job
    enqueued, linked    \* history of this update: ZCU tasks queued, and run

preVars  == <<prelink_wait_count, queued_prelink, wip_prelink>>
zcuVars  == <<queued_zcu, wip_zcu, wip_zcu_idx, enqueued, linked>>
airVars  == <<air_bytes_in_flight, air_bytes_waiting, air_signaled>>
runVars  == <<state, wait_for>>
poolVars == <<flush_jobs, wg>>
linkVars == <<lpc, have_idle_tasks, post_prelink>>
mainVars == <<mpc, cur, left>>
vars == <<preVars, zcuVars, airVars, runVars, poolVars, linkVars, mainVars,
          failed, mir, cg, item>>

-----------------------------------------------------------------------------
\* max_air_bytes_in_flight -| n: saturating subtraction
MaxInFlight(n) == IF n <= MaxAirBytes THEN MaxAirBytes - n ELSE 0

\* variant: the status is never looked at
IsPending_Unchecked(t) == FALSE

IsPending(t) == t \in LinkFuncs /\ mir[t] = "pending"

\* q.state = .running, after which the caller owes a SpawnFlush
SetRunning == state' = "running" /\ UNCHANGED wait_for

\* variant: spawned without WaitGroup.start
SpawnFlush_Uncounted == flush_jobs' = flush_jobs + 1 /\ UNCHANGED wg

\* thread_pool.spawnWgId(&link_task_wait_group, flushTaskQueue, ...)
SpawnFlush == flush_jobs' = flush_jobs + 1 /\ wg' = wg + 1

Init ==
    /\ prelink_wait_count = 0           \* undefined until start
    /\ queued_prelink \in {<<>>, <<CmdLine>>}
    /\ wip_prelink = <<>>
    /\ queued_zcu = <<>> /\ wip_zcu = <<>> /\ wip_zcu_idx = 0
    /\ air_bytes_in_flight = 0 /\ air_bytes_waiting = 0 /\ air_signaled = FALSE
    /\ state = "finished" /\ wait_for = NoTask
    /\ flush_jobs = 0 /\ wg = 0
    /\ lpc = "idle" /\ have_idle_tasks = TRUE /\ post_prelink = FALSE
    /\ mpc = "idle" /\ cur = NoTask /\ failed = FALSE /\ left = {}
    /\ mir = [f \in LinkFuncs |-> "none"]
    /\ cg = [f \in LinkFuncs |-> "none"]
    /\ item = [p \in PrelinkItems |-> "none"]
    /\ enqueued = <<>> /\ linked = <<>>

(***************************************************************************)
(* A definition named X_V is a faulty variant of X: the same operation     *)
(* with a plausible mistake in it.  Nothing uses it; putting it in place   *)
(* of X shows that a property notices the mistake.                         *)
(***************************************************************************)

-----------------------------------------------------------------------------
(***************************************************************************)
(* The main thread: update / performAllTheWork.                            *)
(***************************************************************************)

\* link_task_wait_group.reset() and Queue.start: a new update begins
Start ==
    /\ mpc = "idle"
    /\ prelink_wait_count' = 1
    /\ IF queued_prelink # <<>>
          THEN SetRunning /\ flush_jobs' = flush_jobs + 1 /\ wg' = 1
          ELSE UNCHANGED <<runVars, flush_jobs>> /\ wg' = 0
    /\ mpc' = "items" /\ failed' = FALSE /\ left' = Tasks
    /\ mir' = [f \in LinkFuncs |-> "none"]
    /\ cg' = [f \in LinkFuncs |-> "none"]
    /\ item' = [p \in PrelinkItems |-> "none"]
    /\ enqueued' = <<>> /\ linked' = <<>>
    /\ UNCHANGED <<queued_prelink, wip_prelink, queued_zcu, wip_zcu,
                   wip_zcu_idx, airVars, linkVars, cur>>

\* startPrelinkItem, then spawnManager or spawnWg of the job
StartPrelinkItem(p) ==
    /\ mpc = "items" /\ item[p] = "none"
    /\ prelink_wait_count' = prelink_wait_count + 1
    /\ wg' = wg + 1
    /\ item' = [item EXCEPT ![p] = "running"]
    /\ UNCHANGED <<queued_prelink, wip_prelink, zcuVars, airVars, runVars,
                   flush_jobs, linkVars, mainVars, failed, mir, cg>>

\* variant: restarts a link thread that is running
FinishPrelinkItem_Twice(restart) ==
    /\ prelink_wait_count' = prelink_wait_count - 1
    /\ restart = (prelink_wait_count' = 0)
    /\ IF restart THEN SetRunning ELSE UNCHANGED runVars
    /\ UNCHANGED <<queued_prelink, wip_prelink>>

\* variant: restarts the link thread only if there are ZCU tasks
FinishPrelinkItem_Lazy(restart) ==
    /\ prelink_wait_count' = prelink_wait_count - 1
    /\ restart = /\ prelink_wait_count' = 0 /\ state = "finished"
                 /\ queued_zcu # <<>>
    /\ IF restart THEN SetRunning ELSE UNCHANGED runVars
    /\ UNCHANGED <<queued_prelink, wip_prelink>>

\* Queue.finishPrelinkItem up to the unlock; `restart` tells whether the
\* caller must go on to spawn the link thread.  In state wait_for_mir the
\* code has `unreachable`: see QueueAsserts.
FinishPrelinkItem(restart) ==
    /\ prelink_wait_count' = prelink_wait_count - 1
    /\ restart = (prelink_wait_count' = 0 /\ state = "finished")
    /\ IF restart THEN SetRunning ELSE UNCHANGED runVars
    /\ UNCHANGED <<queued_prelink, wip_prelink>>

\* "We aren't going to queue any more prelink tasks."
FinishItems ==
    /\ mpc = "items"
    /\ \E restart \in BOOLEAN :
          /\ FinishPrelinkItem(restart)
          /\ mpc' = IF restart THEN "spawn" ELSE "work"
    /\ UNCHANGED <<zcuVars, airVars, poolVars, linkVars, cur, left, failed,
                   mir, cg, item>>

\* skip_analysis_this_update, or an error returned before finishPrelinkItem
GiveUp ==
    /\ mpc = "items"
    /\ mpc' = "wait" /\ failed' = TRUE
    /\ UNCHANGED <<preVars, zcuVars, airVars, runVars, poolVars, linkVars,
                   cur, left, mir, cg, item>>

\* processOneJob of link_nav, link_type or update_line_number
DispatchOther(t) ==
    /\ mpc = "work" /\ t \in left \cap OtherTasks
    /\ mpc' = "enqueue" /\ cur' = t /\ left' = left \ {t}
    /\ UNCHANGED <<preVars, zcuVars, airVars, runVars, poolVars, linkVars,
                   failed, mir, cg, item>>

\* processOneJob of codegen_func: create the SharedMir, spawn the worker
DispatchFunc(f) ==
    /\ mpc = "work" /\ f \in left \cap LinkFuncs
    /\ mpc' = "enqueue" /\ cur' = f /\ left' = left \ {f}
    /\ mir' = [mir EXCEPT ![f] = "pending"]
    /\ cg' = [cg EXCEPT ![f] = "running"]
    /\ wg' = wg + 1
    /\ UNCHANGED <<preVars, zcuVars, airVars, runVars, flush_jobs, linkVars,
                   failed, item>>

\* variant: compares the bytes in flight with the cap itself
MustWait_NotCounting(t) ==
    t \in LinkFuncs /\ air_bytes_in_flight > MaxAirBytes

\* the loop of enqueueZcu finds too many bytes in flight: sleep
MustWait(t) ==
    t \in LinkFuncs /\ air_bytes_in_flight > MaxInFlight(AirBytes[t])
SleepForAir(t) ==
    /\ MustWait(t)
    /\ air_bytes_waiting' = AirBytes[t]
    /\ air_signaled' = FALSE /\ mpc' = "air_wait"
    /\ UNCHANGED <<air_bytes_in_flight, zcuVars, runVars, cur, failed>>

\* variant: a function larger than the cap is counted with the cap
CountAir_Clamped(t) ==
    air_bytes_in_flight' =
        IF t \notin LinkFuncs THEN air_bytes_in_flight
        ELSE IF AirBytes[t] > MaxAirBytes THEN MaxAirBytes
        ELSE air_bytes_in_flight + AirBytes[t]

\* the bytes are counted before the append is attempted
CountAir(t) ==
    air_bytes_in_flight' =
        IF t \in LinkFuncs THEN air_bytes_in_flight + AirBytes[t]
        ELSE air_bytes_in_flight

\* variant: prelink tasks still to come are forgotten
Restarts_DuringPrelink == state = "finished"

\* whether a new ZCU task finds the link thread stopped and able to run it
Restarts == state = "finished" /\ prelink_wait_count = 0

\* append the task, and restart the link thread unless it would block
AppendZcu(t) ==
    /\ ~MustWait(t) /\ CountAir(t)
    /\ queued_zcu' = Append(queued_zcu, t)
    /\ enqueued' = Append(enqueued, t)
    /\ IF ~Restarts THEN UNCHANGED runVars /\ mpc' = "work"
       ELSE IF IsPending(t)
          THEN state' = "wait_for_mir" /\ wait_for' = t /\ mpc' = "work"
          ELSE SetRunning /\ mpc' = "spawn"
    /\ cur' = NoTask
    /\ air_bytes_waiting' = 0 /\ air_signaled' = FALSE
    /\ UNCHANGED <<wip_zcu, wip_zcu_idx, linked, failed>>

\* the append fails: dispatchZcuLinkTask must deinit the task
AppendFails(t) ==
    /\ AllocMayFail /\ ~MustWait(t) /\ CountAir(t)
    /\ mpc' = "deinit" /\ failed' = TRUE
    /\ air_bytes_waiting' = 0 /\ air_signaled' = FALSE
    /\ UNCHANGED <<zcuVars, runVars, cur>>

EnqueueSection ==
    /\ SleepForAir(cur) \/ AppendZcu(cur) \/ AppendFails(cur)
    /\ UNCHANGED <<preVars, poolVars, linkVars, left, mir, cg, item>>

EnqueueZcu == mpc = "enqueue" /\ EnqueueSection

\* air_bytes_cond.wait returns, signaled or spuriously, and the loop repeats
AirWake == mpc = "air_wait" /\ EnqueueSection

\* task.deinit in dispatchZcuLinkTask.  On a pending MIR the code has
\* `unreachable` (link.zig:1321): the model has no such step, so the main thread
\* stays there until the MIR is stored.
DeinitTask ==
    /\ mpc = "deinit" /\ ~IsPending(cur)
    /\ mir' = IF cur \in LinkFuncs THEN [mir EXCEPT ![cur] = "freed"] ELSE mir
    /\ mpc' = "work" /\ cur' = NoTask
    /\ UNCHANGED <<preVars, zcuVars, airVars, runVars, poolVars, linkVars,
                   left, failed, cg, item>>

MainSpawn ==
    /\ mpc = "spawn"
    /\ SpawnFlush /\ mpc' = "work"
    /\ UNCHANGED <<preVars, zcuVars, airVars, runVars, linkVars, cur, left,
                   failed, mir, cg, item>>

\* the work queues are empty, or processOneJob returned an error
EndWork ==
    /\ mpc = "work"
    /\ mpc' = "wait" /\ (UNCHANGED failed \/ failed' = TRUE)
    /\ UNCHANGED <<preVars, zcuVars, airVars, runVars, poolVars, linkVars,
                   cur, left, mir, cg, item>>

\* link_task_wait_group.wait() returns; flush unless there were errors
Wait ==
    /\ mpc = "wait" /\ wg = 0
    /\ mpc' = IF failed THEN "idle" ELSE "flush"
    /\ UNCHANGED <<preVars, zcuVars, airVars, runVars, poolVars, linkVars,
                   cur, left, failed, mir, cg, item>>

\* Compilation.flush; it asserts post_prelink: see FlushReady
Flush ==
    /\ mpc = "flush" /\ mpc' = "idle"
    /\ UNCHANGED <<preVars, zcuVars, airVars, runVars, poolVars, linkVars,
                   cur, left, failed, mir, cg, item>>

-----------------------------------------------------------------------------
(***************************************************************************)
(* A prelink job (workerUpdateCObject, buildRt, ...): it may enqueue its   *)
(* output as a prelink task, and always ends with finishPrelinkItem.       *)
(***************************************************************************)

\* Queue.enqueuePrelink up to the unlock; asserts are in QueueAsserts
EnqueuePrelink(p) ==
    /\ item[p] = "running"
    /\ queued_prelink' = Append(queued_prelink, p)
    /\ IF state = "finished"
          THEN SetRunning /\ item' = [item EXCEPT ![p] = "spawn_enqueue"]
          ELSE UNCHANGED runVars /\ item' = [item EXCEPT ![p] = "finish"]
    /\ UNCHANGED <<prelink_wait_count, wip_prelink, zcuVars, airVars, poolVars,
                   linkVars, mainVars, failed, mir, cg>>

\* the job has nothing to link (workerUpdateWin32Resource), it failed, or
\* enqueuePrelink ran out of memory
NoPrelinkOutput(p) ==
    /\ item[p] = "running"
    /\ item' = [item EXCEPT ![p] = "finish"]
    /\ UNCHANGED failed \/ failed' = TRUE
    /\ UNCHANGED <<preVars, zcuVars, airVars, runVars, poolVars, linkVars,
                   mainVars, mir, cg>>

ItemSpawn(p) ==
    /\ item[p] \in {"spawn_enqueue", "spawn_finish"}
    /\ SpawnFlush
    /\ item' = [item EXCEPT ![p] =
                  IF item[p] = "spawn_enqueue" THEN "finish" ELSE "exit"]
    /\ UNCHANGED <<preVars, zcuVars, airVars, runVars, linkVars, mainVars,
                   failed, mir, cg>>

ItemFinish(p) ==
    /\ item[p] = "finish"
    /\ \E restart \in BOOLEAN :
          /\ FinishPrelinkItem(restart)
          /\ item' = [item EXCEPT ![p] =
                        IF restart THEN "spawn_finish" ELSE "exit"]
    /\ UNCHANGED <<zcuVars, airVars, poolVars, linkVars, mainVars, failed,
                   mir, cg>>

\* variant: the closure is not finished
ItemExit_Unfinished(p) ==
    /\ item[p] = "exit" /\ item' = [item EXCEPT ![p] = "done"]
    /\ UNCHANGED <<preVars, zcuVars, airVars, runVars, poolVars, linkVars,
                   mainVars, failed, mir, cg>>

\* wait_group.finish() of the job's closure
ItemExit(p) ==
    /\ item[p] = "exit"
    /\ item' = [item EXCEPT ![p] = "done"] /\ wg' = wg - 1
    /\ UNCHANGED <<preVars, zcuVars, airVars, runVars, flush_jobs, linkVars,
                   mainVars, failed, mir, cg>>

-----------------------------------------------------------------------------
(***************************************************************************)
(* A codegen worker: workerZcuCodegen, runCodegen, mirReady.               *)
(***************************************************************************)

\* out.status.store(...): from here on the MIR belongs to the task
CodegenStore(f) ==
    /\ cg[f] = "running"
    /\ \E status \in {"ready", "failed"} : mir' = [mir EXCEPT ![f] = status]
    /\ cg' = [cg EXCEPT ![f] = "stored"]
    /\ UNCHANGED <<preVars, zcuVars, airVars, runVars, poolVars, linkVars,
                   mainVars, failed, item>>

\* variant: nobody is told
MirReady_Untold(f) ==
    /\ cg[f] = "stored" /\ cg' = [cg EXCEPT ![f] = "exit"]
    /\ UNCHANGED <<preVars, zcuVars, airVars, runVars, poolVars, linkVars,
                   mainVars, failed, mir, item>>

\* Queue.mirReady up to the unlock
MirReady(f) ==
    /\ cg[f] = "stored"
    /\ IF state = "wait_for_mir" /\ wait_for = f
          THEN SetRunning /\ cg' = [cg EXCEPT ![f] = "spawn"]
          ELSE UNCHANGED runVars /\ cg' = [cg EXCEPT ![f] = "exit"]
    /\ UNCHANGED <<preVars, zcuVars, airVars, poolVars, linkVars, mainVars,
                   failed, mir, item>>

CodegenSpawn(f) ==
    /\ cg[f] = "spawn"
    /\ SpawnFlush /\ cg' = [cg EXCEPT ![f] = "exit"]
    /\ UNCHANGED <<preVars, zcuVars, airVars, runVars, linkVars, mainVars,
                   failed, mir, item>>

CodegenExit(f) ==
    /\ cg[f] = "exit"
    /\ cg' = [cg EXCEPT ![f] = "done"] /\ wg' = wg - 1
    /\ UNCHANGED <<preVars, zcuVars, airVars, runVars, flush_jobs, linkVars,
                   mainVars, failed, mir, item>>

-----------------------------------------------------------------------------
(***************************************************************************)
(* The link thread: flushTaskQueue.  One program counter is enough, since  *)
(* SingleLinkThread says that a second job never starts while one runs.    *)
(***************************************************************************)

\* the return sites: flush_safety is unlocked and the closure is finished
LinkReturn(tag, f) ==
    state' = tag /\ wait_for' = f /\ lpc' = "idle" /\ wg' = wg - 1

\* a pool thread takes the job
FlushStart ==
    /\ flush_jobs > 0 /\ lpc = "idle"
    /\ flush_jobs' = flush_jobs - 1
    /\ lpc' = "prelink_swap" /\ have_idle_tasks' = TRUE
    /\ UNCHANGED <<preVars, zcuVars, airVars, runVars, wg, post_prelink,
                   mainVars, failed, mir, cg, item>>

PrelinkSwap ==
    /\ lpc = "prelink_swap"
    /\ wip_prelink' = queued_prelink /\ queued_prelink' = wip_prelink
    /\ \/ /\ queued_prelink # <<>>
          /\ lpc' = "prelink_run" /\ UNCHANGED <<runVars, wg>>
       \/ /\ queued_prelink = <<>> /\ prelink_wait_count = 0
          /\ lpc' = "prelink_call" /\ UNCHANGED <<runVars, wg>>
       \/ /\ queued_prelink = <<>> /\ prelink_wait_count > 0
          /\ have_idle_tasks
          /\ lpc' = "prelink_idle" /\ UNCHANGED <<runVars, wg>>
       \/ /\ queued_prelink = <<>> /\ prelink_wait_count > 0
          /\ ~have_idle_tasks
          /\ LinkReturn("finished", wait_for)
    /\ UNCHANGED <<prelink_wait_count, zcuVars, airVars, flush_jobs,
                   have_idle_tasks, post_prelink, mainVars, failed, mir, cg,
                   item>>

\* doIdleTask: more work left, or none, or an error treated as none
DoIdleTask(more) ==
    /\ lpc \in {"prelink_idle", "zcu_idle"}
    /\ have_idle_tasks' = more
    /\ lpc' = IF lpc = "prelink_idle" THEN "prelink_swap" ELSE "zcu_swap"
    /\ UNCHANGED <<preVars, zcuVars, airVars, runVars, poolVars, post_prelink,
                   mainVars, failed, mir, cg, item>>

\* doPrelinkTask of every task of wip_prelink, in order
PrelinkRun ==
    /\ lpc = "prelink_run"
    /\ wip_prelink' = <<>> /\ have_idle_tasks' = TRUE
    /\ lpc' = "prelink_swap"
    /\ UNCHANGED <<prelink_wait_count, queued_prelink, zcuVars, airVars,
                   runVars, poolVars, post_prelink, mainVars, failed, mir, cg,
                   item>>

\* variant: a rest of wip_zcu is swapped away
NextZcu_AlwaysSwap(i) == "zcu_swap"

\* the head of the ZCU loop: swap when wip_zcu is used up
NextZcu(i) == IF i = Len(wip_zcu) THEN "zcu_swap" ELSE "zcu_task"

\* link.File.prelink, once: a failure is recorded and leaves post_prelink
PrelinkCall ==
    /\ lpc = "prelink_call"
    /\ \/ post_prelink /\ UNCHANGED <<post_prelink, failed>>
       \/ ~post_prelink /\ post_prelink' = TRUE /\ UNCHANGED failed
       \/ ~post_prelink /\ failed' = TRUE /\ UNCHANGED post_prelink
    /\ lpc' = NextZcu(wip_zcu_idx)
    /\ UNCHANGED <<preVars, zcuVars, airVars, runVars, poolVars,
                   have_idle_tasks, mainVars, mir, cg, item>>

ZcuSwap ==
    /\ lpc = "zcu_swap"
    /\ wip_zcu' = queued_zcu /\ queued_zcu' = <<>> /\ wip_zcu_idx' = 0
    /\ \/ /\ queued_zcu # <<>>
          /\ lpc' = "zcu_task" /\ UNCHANGED <<runVars, wg>>
       \/ /\ queued_zcu = <<>> /\ have_idle_tasks
          /\ lpc' = "zcu_idle" /\ UNCHANGED <<runVars, wg>>
       \/ /\ queued_zcu = <<>> /\ ~have_idle_tasks
          /\ LinkReturn("finished", wait_for)
    /\ UNCHANGED <<preVars, enqueued, linked, airVars, flush_jobs,
                   have_idle_tasks, post_prelink, mainVars, failed, mir, cg,
                   item>>

WipTask == wip_zcu[wip_zcu_idx + 1]

\* the unlocked check of the MIR's status, doing idle work while it is pending
ZcuTask ==
    /\ lpc = "zcu_task"
    /\ IF IsPending(WipTask)
          THEN \/ have_idle_tasks /\ UNCHANGED <<have_idle_tasks, lpc>>
               \/ have_idle_tasks' = FALSE /\ lpc' = "zcu_lock"
          ELSE lpc' = "zcu_run" /\ UNCHANGED have_idle_tasks
    /\ UNCHANGED <<preVars, zcuVars, airVars, runVars, poolVars, post_prelink,
                   mainVars, failed, mir, cg, item>>

\* variant: the status is not checked again under the mutex
ZcuLock_Unchecked ==
    /\ lpc = "zcu_lock" /\ LinkReturn("wait_for_mir", WipTask)
    /\ UNCHANGED <<preVars, zcuVars, airVars, flush_jobs, have_idle_tasks,
                   post_prelink, mainVars, failed, mir, cg, item>>

\* the check under the mutex: run the task, or stop until mirReady
ZcuLock ==
    /\ lpc = "zcu_lock"
    /\ IF IsPending(WipTask)
          THEN LinkReturn("wait_for_mir", WipTask)
          ELSE lpc' = "zcu_run" /\ UNCHANGED <<runVars, wg>>
    /\ UNCHANGED <<preVars, zcuVars, airVars, flush_jobs, have_idle_tasks,
                   post_prelink, mainVars, failed, mir, cg, item>>

\* wip_zcu_idx += 1 and back to the head of the loop
Advance ==
    /\ wip_zcu_idx' = wip_zcu_idx + 1
    /\ have_idle_tasks' = TRUE
    /\ lpc' = NextZcu(wip_zcu_idx + 1)

\* doZcuTask and task.deinit
ZcuRun ==
    /\ lpc = "zcu_run"
    /\ linked' = Append(linked, WipTask)
    /\ IF WipTask \in LinkFuncs
          THEN /\ mir' = [mir EXCEPT ![WipTask] = "freed"]
               /\ lpc' = "zcu_dec" /\ UNCHANGED <<wip_zcu_idx, have_idle_tasks>>
          ELSE Advance /\ UNCHANGED mir
    /\ UNCHANGED <<preVars, queued_zcu, wip_zcu, enqueued, airVars, runVars,
                   poolVars, post_prelink, mainVars, failed, cg, item>>

\* the waiting task, if there is one, fits with `bytes` in flight
SignalsAir(bytes) ==
    /\ air_bytes_waiting # 0 /\ bytes <= MaxInFlight(air_bytes_waiting)
    /\ mpc = "air_wait"

\* give the bytes back; signal when the waiting task now fits
ZcuDec ==
    /\ lpc = "zcu_dec"
    /\ air_bytes_in_flight' = air_bytes_in_flight - AirBytes[WipTask]
    /\ IF SignalsAir(air_bytes_in_flight') THEN air_signaled' = TRUE
       ELSE UNCHANGED air_signaled
    /\ Advance
    /\ UNCHANGED <<preVars, queued_zcu, wip_zcu, enqueued, linked,
                   air_bytes_waiting, runVars, poolVars, post_prelink,
                   mainVars, failed, mir, cg, item>>

-----------------------------------------------------------------------------
Dispatch == \E t \in OtherTasks : DispatchOther(t)
CodegenFunc == \E f \in LinkFuncs : DispatchFunc(f)

MainNext ==
    \/ Start \/ FinishItems \/ GiveUp \/ Dispatch \/ CodegenFunc
    \/ EnqueueZcu \/ AirWake \/ DeinitTask \/ MainSpawn \/ EndWork \/ Wait
    \/ Flush
    \/ \E p \in PrelinkItems : StartPrelinkItem(p)

ItemNext(p) ==
    EnqueuePrelink(p) \/ NoPrelinkOutput(p) \/ ItemSpawn(p) \/ ItemFinish(p)
    \/ ItemExit(p)

CodegenNext(f) ==
    CodegenStore(f) \/ MirReady(f) \/ CodegenSpawn(f) \/ CodegenExit(f)

LinkNext ==
    \/ FlushStart \/ PrelinkSwap \/ PrelinkRun \/ PrelinkCall
    \/ ZcuSwap \/ ZcuTask \/ ZcuLock \/ ZcuRun \/ ZcuDec
    \/ \E more \in BOOLEAN : DoIdleTask(more)

Next ==
    \/ MainNext
    \/ \E p \in PrelinkItems : ItemNext(p)
    \/ \E f \in LinkFuncs : CodegenNext(f)
    \/ LinkNext

Spec == Init /\ [][Next]_vars

(***************************************************************************)
(* Fairness.  Every thread that can run does: pool threads take queued     *)
(* jobs, jobs end, and the main thread goes on.  The main thread's sleep   *)
(* on air_bytes_cond is only required to end when it was signaled, and     *)
(* starting another update is never required.  Idle work is finite: each   *)
(* call of File.idle does one piece and reports whether any remains.       *)
(***************************************************************************)
MainProgress ==
    \/ FinishItems \/ EnqueueZcu \/ DeinitTask \/ MainSpawn \/ EndWork \/ Wait
    \/ Flush

Fairness ==
    /\ WF_vars(MainProgress)
    /\ WF_vars(air_signaled /\ AirWake)
    /\ \A p \in PrelinkItems : WF_vars(ItemNext(p))
    /\ \A f \in LinkFuncs : WF_vars(CodegenNext(f))
    /\ WF_vars(LinkNext)
    /\ SF_vars(DoIdleTask(FALSE))

FairSpec == Spec /\ Fairness

-----------------------------------------------------------------------------
ZcuPcs == {"zcu_swap", "zcu_idle", "zcu_task", "zcu_lock", "zcu_run", "zcu_dec"}
TaskPcs == {"zcu_task", "zcu_lock", "zcu_run", "zcu_dec"}
LinkPcs == {"idle", "prelink_swap", "prelink_idle", "prelink_run",
            "prelink_call"} \cup ZcuPcs

\* Types of the queue, its threads and the histories.  That the counters never
\* go below zero is said by AirAccounting and WaitGroupExact.
PrelinkType ==
    /\ prelink_wait_count \in Int
    /\ queued_prelink \in Seq(PrelinkItems \cup {CmdLine})
    /\ wip_prelink \in Seq(PrelinkItems \cup {CmdLine})
ZcuType ==
    /\ queued_zcu \in Seq(Tasks) /\ wip_zcu \in Seq(Tasks)
    /\ wip_zcu_idx \in 0 .. Len(wip_zcu)
    /\ enqueued \in Seq(Tasks) /\ linked \in Seq(Tasks)
AirType ==
    /\ air_bytes_in_flight \in Int /\ air_bytes_waiting \in Nat
    /\ air_signaled \in BOOLEAN
RunType ==
    /\ state \in {"running", "finished", "wait_for_mir"}
    /\ wait_for \in Tasks \cup {NoTask}
    /\ flush_jobs \in Nat /\ wg \in Int
LinkType ==
    /\ lpc \in LinkPcs /\ have_idle_tasks \in BOOLEAN /\ post_prelink \in BOOLEAN
    /\ lpc \in TaskPcs => wip_zcu_idx < Len(wip_zcu)
    /\ lpc = "zcu_dec" => WipTask \in LinkFuncs
MainType ==
    /\ mpc \in {"idle", "items", "work", "enqueue", "air_wait", "deinit",
                "spawn", "wait", "flush"}
    /\ cur \in Tasks \cup {NoTask}
    /\ mpc \in {"enqueue", "air_wait", "deinit"} => cur \in Tasks
    /\ left \subseteq Tasks /\ failed \in BOOLEAN
WorkerType ==
    /\ mir \in [LinkFuncs -> {"none", "pending", "ready", "failed", "freed"}]
    /\ cg \in [LinkFuncs -> {"none", "running", "stored", "spawn", "exit", "done"}]
    /\ item \in [PrelinkItems -> {"none", "running", "spawn_enqueue", "finish",
                                  "spawn_finish", "exit", "done"}]
TypeOK ==
    /\ PrelinkType /\ ZcuType /\ AirType /\ RunType /\ LinkType /\ MainType
    /\ WorkerType

-----------------------------------------------------------------------------
\* Who is running the link thread or owes its start: the job in the pool, the
\* running thread, and every thread between setting `state` and spawnWgId.
Agents == {"pool", "link", "main"} \X {NoTask}
          \cup {"item"} \X PrelinkItems \cup {"codegen"} \X LinkFuncs
Runs(a) ==
    \/ a[1] = "pool" /\ flush_jobs > 0
    \/ a[1] = "link" /\ lpc # "idle"
    \/ a[1] = "main" /\ mpc = "spawn"
    \/ a[1] = "item" /\ item[a[2]] \in {"spawn_enqueue", "spawn_finish"}
    \/ a[1] = "codegen" /\ cg[a[2]] = "spawn"

\* "There must be at most one link thread active at a time": the link thread
\* is started, queued or running in exactly one place while `state` is
\* running and in none otherwise, whoever found the queue stopped.
SingleLinkThread ==
    /\ flush_jobs <= 1
    /\ \A a, b \in Agents : Runs(a) /\ Runs(b) => a = b
    /\ (\E a \in Agents : Runs(a)) <=> state = "running"

\* The tasks of wip_zcu the link thread has not run
WipRest == SubSeq(wip_zcu, wip_zcu_idx + IF lpc = "zcu_dec" THEN 2 ELSE 1,
                  Len(wip_zcu))

\* The link_func tasks whose bytes are counted in air_bytes_in_flight
InFlight ==
    LinkFuncs \cap (Range(queued_zcu)
        \cup {wip_zcu[i] : i \in wip_zcu_idx + 1 .. Len(wip_zcu)})
AirPairs == UNION {{f} \X (1 .. AirBytes[f]) : f \in InFlight}

\* air_bytes_in_flight is what its comment says: the sum of the bytes of the
\* queued link_func tasks.  (The bytes of a task whose append failed stay
\* counted: AirAccounting is checked with AllocMayFail = FALSE.)
AirAccounting == air_bytes_in_flight = Cardinality(AirPairs)

\* The cap on AIR in flight holds, except that a function larger than the cap
\* is let in alone.
AirBound ==
    air_bytes_in_flight > MaxAirBytes => Cardinality(InFlight) = 1

\* The link thread stopped for a MIR is always restarted: the worker of that
\* function has still to take the mutex in mirReady, and the function is the
\* next task of the queue.
NoLostMir ==
    state = "wait_for_mir" =>
        /\ wait_for \in LinkFuncs /\ cg[wait_for] \in {"running", "stored"}
        /\ LET rest == WipRest \o queued_zcu IN
              rest # <<>> /\ Head(rest) = wait_for

\* SharedMir is never touched after it is freed nor freed before it is
\* written: the worker stores into a live pending MIR, the assert in mirReady
\* reads a live one, and doZcuTask finds it populated.
MirOwnership ==
    /\ \A f \in LinkFuncs :
          /\ cg[f] = "running" => mir[f] = "pending"
          /\ cg[f] = "spawn" => mir[f] \in {"ready", "failed"}
    /\ lpc \in {"zcu_task", "zcu_lock", "zcu_run"} /\ WipTask \in LinkFuncs =>
          /\ mir[WipTask] \in {"pending", "ready", "failed"}
          /\ lpc = "zcu_run" => mir[WipTask] # "pending"

\* The asserts and unreachables of Queue.zig, each at the step that reaches it:
\* start, startPrelinkItem, enqueuePrelink, finishPrelinkItem, flushTaskQueue.
QueueAsserts ==
    /\ mpc = "idle" => state = "finished" /\ queued_zcu = <<>>
    /\ mpc = "items" => prelink_wait_count > 0
    /\ \A p \in PrelinkItems : item[p] = "running" =>
          prelink_wait_count > 0 /\ state # "wait_for_mir"
    /\ (mpc = "items" \/ \E p \in PrelinkItems : item[p] = "finish") =>
          /\ prelink_wait_count > 0
          /\ prelink_wait_count = 1 => state # "wait_for_mir"
          /\ prelink_wait_count = 1 /\ state = "finished" => queued_prelink = <<>>
    /\ flush_jobs > 0 => state = "running" /\ wip_prelink = <<>>

\* link_task_wait_group counts exactly the work that is still live, so that the
\* main thread's wait never ends early although jobs spawn further jobs.
LiveItems == {p \in PrelinkItems : item[p] \notin {"none", "done"}}
LiveCodegen == {f \in LinkFuncs : cg[f] \notin {"none", "done"}}
WaitGroupExact ==
    wg = flush_jobs + (IF lpc = "idle" THEN 0 ELSE 1)
         + Cardinality(LiveItems) + Cardinality(LiveCodegen)

\* When flush runs, it finds what it asserts and what it relies on: prelink was
\* called, every dispatched task was linked, no link thread is left and no MIR
\* leaked.
FlushReady ==
    mpc = "flush" =>
        /\ post_prelink /\ state = "finished"
        /\ Range(enqueued) = Tasks \ left /\ linked = enqueued
        /\ queued_prelink = <<>> /\ wip_prelink = <<>>
        /\ \A f \in LinkFuncs : mir[f] \in {"none", "freed"}

-----------------------------------------------------------------------------
(***************************************************************************)
(* The queue implements LinkPipeline.                                      *)
(***************************************************************************)
Pipeline == INSTANCE LinkPipeline WITH
    Inputs <- PrelinkItems \cup {CmdLine},
    inputs <- wip_prelink \o queued_prelink,
    open <- prelink_wait_count > 0,
    submitted <- enqueued,
    done <- linked

\* Every step of the threads is a step of the pipeline or changes nothing it
\* sees: no input after the last, no ZCU task before, none out of order.
ImplementsPipeline == Pipeline!Spec

\* With fair threads every queued task is linked, whatever MIR it waits for:
\* no restart of the link thread is ever lost.
ImplementsFairPipeline == Pipeline!Spec /\ Pipeline!Progress

-----------------------------------------------------------------------------
\* Every update ends: codegen, prelink jobs and the link thread never wait on
\* each other for ever.
UpdateEnds == mpc # "idle" ~> mpc = "idle"

=============================================================================
