# TLA+ models of the Zig compiler's concurrent core

This directory holds TLA+ specifications of the parts of this repository whose
correctness depends on the order of many steps: the compiler's queue of link
tasks, the bookkeeping that decides what an incremental update analyses again,
the scheduler of the build runner, and the primitives of `std.Thread` that they
are built on. TLC checks small instances of them; TLAPS proves the central
properties for every value of the constants.

The repository is a bootstrap tree. Its own program is `src/zig`: the compiler
(`src/zig/src`), the standard library (`src/zig/lib/std`) and the tools shipped
as source (`src/zig/lib/compiler`). The rest is LLVM, Clang, LLD, zlib, zstd and
siphash, imported from their own projects, and scripts that call cmake. Paths
below are relative to `src/zig` unless they begin with `src/zig`.

Contents: 1 inventory, 2 modules, 3 reading a module, 4 runs and bounds,
5 fairness, 6 proofs, 7 disagreements found, 8 assumptions and what is not
modelled, 9 plan.

## 1. Inventory

### Modelled

**Link task queue** (`src/link/Queue.zig`, driven by `src/Compilation.zig` and
`src/link.zig`).
State: the count of prelink jobs not yet finished, the lists of queued and
in-progress prelink and ZCU tasks, the bytes of AIR in flight with what the main
thread waits for, and `state` (running, finished, wait_for_mir), all under one
mutex; the wait group of link jobs; the status of each function's `SharedMir`.
Operations: `start`, `startPrelinkItem`, `finishPrelinkItem`, `enqueuePrelink`,
`enqueueZcu`, `mirReady`, `flushTaskQueue`.
Interaction: the main thread analyses and enqueues; codegen workers of the
thread pool store a MIR and call `mirReady`; prelink jobs enqueue inputs;
whoever finds the queue stopped and something to do spawns the link thread,
which runs the tasks and stops by itself.
Hard: `state` is set under the mutex but the job is spawned after it; the link
thread stops for a MIR that may be stored at that moment; the main thread sleeps
for AIR bytes that only the link thread gives back; appends can fail; updates
can be given up.
Correct when: one link thread at most; tasks run in the order in which they were
queued, after all prelink input, none lost; a MIR is not read before it is
there nor touched when freed; the wait group covers all that still spawns; an
update ends, and flush finds everything linked.

**Incremental update tracking** (`src/Zcu.zig` 3037-3253, `src/Zcu/PerThread.zig`
ensure*UpToDate, the dependency lists of `src/InternPool.zig`).
State: the sets `outdated`, `potentially_outdated` (PO) and `outdated_ready` of
the units of analysis, with the number of PO dependees each of them waits for;
who depends on whom; the stack of units being analysed.
Operations: `updateZirRefs` marks what an edit touches, and all that is
downstream of it; the work loop takes jobs and asks `findOutdatedToAnalyze` for
more; the `ensure*UpToDate` functions analyse a unit, which follows its
dependencies recursively and registers them anew, and then tell its dependers
whether its result changed.
Interaction: the work loop belongs to Compilation.update; Sema declares
dependencies and calls back into `ensure*UpToDate`; functions that were analysed
go to the link queue.
Hard: verdicts reach units that were marked before, are being analysed, or have
been analysed already; units are taken out of turn when others need them, and to
break loops; a value resolves a type on the way; what is PO at the end is
declared up to date.
Correct when: the counts are exact; what read something that changed is analysed
again, and nothing is analysed twice in an update; an update ends.

**std.Thread.Mutex** (`lib/std/Thread/Mutex.zig`, FutexImpl). One word:
unlocked, locked, contended; `lock`, `tryLock`, `unlock` over the futex. Hard: a
sleeper must never be left without somebody to wake it. Correct when it excludes
and a free mutex is taken by somebody who waits.

**std.Thread.Condition** (`lib/std/Thread/Condition.zig`, FutexImpl). A word of
two 16 bit counters (waiters, signals) and an epoch, which is the futex. Hard:
signals race with timeouts and with the sleep itself. Correct when the counters
are exact, every reserved signal reaches a thread, whoever uses it sees no
more than waiters and signals, each operation at one moment, and a wakeup wakes
one of those it was meant for.

**std.Thread.RwLock and Semaphore** (`DefaultRwLock`). Counts of writers and
readers and an IS_WRITING bit in one word, a mutex and a semaphore. Hard: the
hand-over between the last reader and a waiting writer. Correct when one writer
or many readers are inside, nobody waits for ever while nobody is inside, and a
writer that has marked itself is let in.

**std.Thread.WaitGroup and ResetEvent**. A count with an is_waiting bit and a
three-valued event. Hard: the group may lie on the waiter's stack, so the last
finisher must not write to it after the wait returns; it is reset and reused.

**std.Thread.Pool**. A mutex, a condition, a LIFO run queue, `is_running`, the
ids; `init`, `deinit`, three spawns, `worker`, `waitAndWork`. Hard: missed
wakeups, tasks that spawn tasks while the pool is joined, tasks that wait for
tasks, allocation failure, which makes the caller run the task itself. Correct
when every task runs once, the pool outlives its tasks, wait groups count what
is unfinished, and the threads never all wait while something is left to do.

**Build step graph** (`lib/compiler/build_runner.zig`, `lib/std/Build/Step.zig`).
State: each step's `state` and `dependants`, `step_stack`, `claimed_rss` and
`memory_blocked_steps` under `max_rss_mutex`. Operations: `prepare` with the
check for loops, `runStepNames`, `workerMakeOneStep`, `recursiveReset`, the
rebuild loop. Hard: one step is queued by the main thread, by each dependency
and by whoever gives memory back. Correct when a step is made once, after its
dependencies, within the memory limit, and none is forgotten.

How they fit together: Queue and build_runner run jobs on Pool and wait with
WaitGroup; Pool uses Mutex and Condition; WaitGroup uses ResetEvent; Condition
and RwLock take a Mutex; Mutex, Condition and ResetEvent sleep on Futex.

### Not modelled

| part | state and hazards | decision |
|---|---|---|
| InternPool (`src/InternPool.zig` 7689-7783) | sharded hash tables, read without a lock, replaced when they grow; correct when a key has one index | planned |
| std.Progress (`lib/std/Progress.zig` 207-335) | lock-free freelist with a 24 bit generation | planned |
| Build.Cache (`lib/std/Build/Cache.zig` 491-656) | manifest under a shared or exclusive file lock, two processes | planned |
| std.Io Queue and Threaded (`lib/std/Io.zig` 1243-1447) | putters, getters and cancelation | planned |
| SmpAllocator (`lib/std/heap/SmpAllocator.zig`) | per-thread freelists, slots taken over by other threads | planned |
| Package.Fetch (`src/Package/Fetch.zig`) | job queue and table of packages; its nested waits are a task kind of Pool | planned |
| Futex.PosixImpl, Mutex.Recursive, Semaphore.timedWait | buckets of waiters; other variants of the same interfaces | planned |
| MappedFile, register_manager, toml of ziggy-gui | sequential data structures | last |
| the rest of Zcu (`updateZirRefs` beyond its marking, file table, exports, retryable failures) | what maps to what between two versions of a file | data, section 8 |
| Sema, AstGen, code generation, linker formats, parser, aro, resinator, translate-c | pure translations: their state is the program being compiled, and their hazards are in the data | out of TLC's reach |
| command line, libc builders, debug server, install scripts | process set-up, lists of files | no state worth a model |
| vendored code | | other projects |

## 2. Modules

| module | what | lines of code it stands for |
|---|---|---|
| `LinkPipeline` | abstract: inputs are loaded while they are open, then tasks are done in the order they were submitted | promise of Queue |
| `LinkQueue` | Queue.zig with the main thread, codegen workers, prelink jobs and link thread | Queue.zig, and the callers in Compilation.zig and link.zig |
| `IncrementalUpdate` | which units an update analyses again | Zcu.zig 3037-3253, Zcu/PerThread.zig, Sema.zig declareDependency, InternPool.zig dependencies |
| `ExclusiveLock` | abstract: wanting, inside, outside | promise of Mutex |
| `FutexMutex` | FutexImpl of Mutex | Mutex.zig 146-208, Futex |
| `ConditionVariable` | abstract: who waits, how many signals are reserved, which calls have begun | promise of Condition |
| `Condition` | FutexImpl of Condition | Condition.zig 189-289 |
| `RwLock` | DefaultRwLock with its semaphore | RwLock.zig 171-255, Semaphore.zig |
| `WaitGroup` | WaitGroup with ResetEvent inside | WaitGroup.zig, Thread.zig 40-139 |
| `Pool` | Pool with its wait groups and ids | Pool.zig |
| `StepGraph` | the scheduler of steps | build_runner.zig 574-832, 1271-1457, Step.zig |
| `XProofs` | the theorems about X | |
| `MCX` | model values and small inputs for X | |

The layers are composed by what each promises. LinkQueue, Condition, RwLock,
Pool and StepGraph take a mutex to be an owner, or a critical section to be one
step, which `FutexMutex` justifies (it implements `ExclusiveLock`). Pool's use of its
condition is a behaviour of `ConditionVariable` (`UsesCondition`), which
`Condition` implements. LinkQueue and StepGraph take the pool to be its run queue
and the wait group to be a count, which `Pool` (`GroupsExact`) and `WaitGroup`
justify.

Refinement is stated three times: `LinkQueue` implements `LinkPipeline`,
`FutexMutex` implements `ExclusiveLock`, and `Condition` implements
`ConditionVariable`, each with INSTANCE and a mapping of the variables.

## 3. Reading a module

An action is what one thread does between two points at which another can come
in: a critical section, one atomic access, or one call that sleeps. Program
counters are strings named for the place. Fields keep the source's names where
the module has little else; Zig's `camelCase` functions become `CamelCase`
actions.

A definition named `X_V`, with a comment that begins with *variant*, is X with a
plausible mistake. No specification uses it. Put in place of X it makes the
property named in PROJECT.json fail, which shows that the property is about
something the code could get wrong.

History variables record what no field of the program does and never guard an
action: `enqueued` and `linked` (LinkQueue), `fresh` and `stale` (IncrementalUpdate: the
units analysed in this update, and those that read something which has changed
since), `debts` (Condition: the groups of
sleepers that a call of signal or broadcast owes a wakeup) and `stolen` (a waiter
that was in no such group took a signal while one was owed), `raced` (RwLock:
tryLock marked over a reader), `ran` (Pool), `made` and `stale` (StepGraph).

**LinkQueue.** The main thread's `mpc` walks through an update: `Start`, the
prelink items, `work` (dispatch, wait for AIR, or give up), `wait` for
link_task_wait_group, `flush`. `SetRunning` and `SpawnFlush` are separate steps
of whoever restarts the link thread, as in the code. The link thread's `lpc`
follows flushTaskQueue: prelink swap, idle, run, call; then ZCU swap, idle,
task, lock, run, dec. Formats are not modelled: linking a task appends it to
`linked`; `prelink` and idle tasks may fail.

**IncrementalUpdate.** One thread runs all of this, so the steps are not those of
threads: the module cuts the code where its order is not determined, or where
something of interest holds only halfway through. The loops over dependers and
their recursion (`markDependeeOutdated`, `markPoDependeeUpToDate`,
`markTransitiveDependersPotentiallyOutdated`) are pending iterations in `visits`,
taken in any order, before anything else happens. `stack` holds the units whose
`ensure*UpToDate` is under way, and `awaited` those among them that have
`was_outdated`. A function in `early` waits for the declaration that owns it, and
keeps the dependencies it had until its body begins (`BeginBody`); if its owner has
failed, or declares another function by now, it ends without that and keeps them.
What analysis does is a choice: the unit on top of the stack uses
any unit that `MayUse` allows, one after another, and its result may have changed
or not. Dependencies are a set of pairs, though the code keeps lists with
duplicates filtered. A container type is recreated under a new index by the code;
here the old and the new one share a name, all dependers of the old one being
marked at once. `nav_val` and `nav_ty` are units of the kind "nav"; `ValueOf`
names those whose type comes from the value. `Edit` may be repeated before the
analysis starts: an update in which a file does not parse marks and analyses
nothing. `IesLoops` is FALSE for programs in which no two functions come to need
each other's inferred error set, and TRUE in the run that shows what such do.

**FutexMutex, Condition, WaitGroup.** The futex is what its interface promises:
`wait` returns at once when the word differs, else sleeps until woken or, at
any time, spuriously; `wake` wakes up to n sleepers. Compare-exchange is weak
where the code's is. To its users a thread waits from the addition that
counts it to the exchange that takes it out again, and a call of signal or
broadcast takes effect with its exchange, or with the failed one that shows it
that everybody has a signal; if it reads that in the first place it has nothing
to do. That is the mapping of `Condition` to `ConditionVariable`.

**RwLock.** The word is kept as its three fields, since every access is a
single atomic one that adds, sets or clears a field. The permit count of the
semaphore and the mutex are explicit.

**Pool.** The owner (`Main`), an outside thread (`Manager`, a spawnManager
thread) and the workers. Each thread is a stack of frames, for a task may spawn
others, run them itself when there is no memory for the closure, and wait for a
group of its own in `waitAndWork`. `kind` is the function a task was spawned
with. `memory` names the allocations, so that a use after `deinit` shows. For
`ConditionVariable` the sleeping workers wait, a thread about to signal has begun
a call for one, and who stops the pool a call for all.

**StepGraph.** A `project` is a record (dependencies, max_rss per step, limit,
skip option, targets) chosen in the initial state. The frames of the recursive
check for loops are an explicit stack and dependencies are taken in any order,
as the shuffles do. `Scan` is one turn of the loop that queues blocked steps;
the worker holds the mutex from `GiveBack` to its end. The states of all
dependencies are read in one step: each is final unless it ends the loop, so
the last read sees what the earlier ones saw. Dependencies are lists, as in the
code, where `dependOn` appends without a look at what is there: a step may name
one twice, is then told of by it twice, and queued by it twice. Where the code walks `recursiveReset`,
`Downstream` is the set it reaches: a step that is precheck_done has been walked
before, since none is when a build is over.

## 4. Runs and bounds

Times are for two TLC workers on an idle machine; they vary by a factor of two.

| run | checks | states | time |
|---|---|---|---|
| `LinkQueue_core` | one link thread, no lost MIR, MIR ownership, the asserts, the wait group, flush, implements LinkPipeline | 1,686,550 | 95 s |
| `LinkQueue_live` | AIR accounting and bound, every queued task is linked, every update ends | 183,210 | 75 s |
| `IncrementalUpdate_all` | exact counts, nothing stale is missed, nothing analysed twice, every update ends | 282,231 | 82 s |
| `IncrementalUpdate_loop` | expected to fail, section 7 | | |
| `FutexMutex_all` | exclusion, sleepers covered, implements ExclusiveLock with its fairness | 4,503 | 3 s |
| `Condition_all` | counters exact, a reserved signal has somebody to take it, implements ConditionVariable, a wakeup that is due arrives unless a later waiter took it | 478,418 | 110 s |
| `Condition_stolen` | expected to fail, section 7 | | |
| `RwLock_all` | one writer or many readers, permits match, somebody is let in and a marked writer is | 66,076 | 20 s |
| `WaitGroup_all` | wait waits for all and the assert holds, nobody writes after it, wait returns | 2,390 | 2 s |
| `Pool_all` | a task runs once and with a known id, the pool outlives its tasks, wait groups are exact, no standstill, queued tasks run, join and nested waits return | 147,362 | 155 s |
| `StepGraph_all` | graph built, made once, dependencies first, memory, nothing forgotten, builds end | 447,562 | 165 s |
| `StepGraph_blocked` | expected to fail, section 7 | | |

Why the bounds are enough:

* *LinkQueue.* Two functions, one of which alone exceeds the AIR cap (5 bytes of
  4), make the main thread sleep both because of the other function and because
  of itself; one task of another kind mixes with link_funcs; one prelink job and
  the command line's inputs are two sources of prelink tasks. Updates are not
  bounded: `post_prelink` and what a given-up update left queued are carried
  over and the state space is finite all the same. The invariants are about one
  link thread and at most three agents that restart it, all present. The
  liveness run has no failing allocations, because with them AIR accounting is
  false (section 7).
* *IncrementalUpdate.* Seven units over two sources: two functions, either of which
  may need the other's error set; the declaration that owns each, one function being
  an instance of a generic one, so that it asks for its owner and does not depend on
  it; the type of one of those declarations, which comes from its value, and a
  container type that this value refers to and that refers back to it, the loop that
  `findOutdatedToAnalyze` must break; and a comptime block. Edits, updates and
  re-analyses are not bounded, nor is what each analysis comes across within
  `MayUse`.
* *FutexMutex.* Four threads: a holder, two sleepers and a newcomer, the
  situation in which a wake can go to the wrong one.
* *Condition.* Two waiters and a signaler with two calls, each for one or for
  all; timeouts, spurious wakes and calls outside the mutex are all enabled. With
  two waiters one comes back while the other's signal is pending, and with two
  calls a signal meets the reservation of another. `MaxCalls` bounds the epoch,
  which does not wrap. Two signalers at once are left to the theorems, which hold
  for any set of them: with two calls in all they make a run of more than five
  minutes. `Condition_stolen` needs one call, with the mutex held, and timeouts.
* *RwLock.* Three threads are a writer, a waiting writer and a reader, or a
  writer and two readers. A permit is left over only by the race of section 7;
  `MaxPermits` 1 keeps tryLock from piling up a second one, without which the
  count would grow for ever.
* *WaitGroup.* Three tasks that start each other, and `MaxRounds` 3: a round
  meets the waker of the last one and that of the one before.
* *Pool.* Two workers and two tasks, one of which the other spawns and may wait
  for, so that one worker at most is held by a waiting task; that tasks wait on
  all workers is left to the theorem `NoStandstill`, which holds for any number of
  both. Workers start in a fixed order, for they are alike.
* *StepGraph.* Four steps in five projects: `Crowd` (three steps share the
  memory, two fit), `Tight` (one fits), `Skipping` and `Oversize` (a diamond with
  a step too large that is skipped, or only reported; in `Skipping` a step names a
  dependency twice), `Loop`. `MaxBuilds` 2 has
  one rebuild from any outcome of the first, with any set of changed inputs.

Deadlock checking is off where the system may stop: IncrementalUpdate (in
`IncrementalUpdate_loop` it stops at a null that is unwrapped), Condition (the calls are
spent), WaitGroup (the rounds are), Pool (it is gone), StepGraph (the builds are
spent, a loop was found or the assertion failed).

## 5. Fairness

Each thread is scheduled: weak fairness of what it does by itself. User actions
(start an update, dispatch a task, call a lock, spawn, change a file), failures,
timeouts and spurious returns are never fair, and no liveness property relies on
them. A function, a codegen job or a step that runs comes to its end: that is
its author's duty. Beyond that:

* LinkQueue: the main thread's sleep for AIR ends only when it was signaled.
  Strong fairness that idle work reports nothing more to do: each call of
  `File.idle` does one piece of a finite amount.
* IncrementalUpdate: weak fairness of `Progress`, what the thread does by itself
  once an update has begun: pending iterations, the end of an analysis, the work
  loop's search. No edit and no use of another unit is forced, and no job for an
  outdated unit: the search must find it. That an analysis comes to its end needs
  no more, since it declares a dependency once.
* FutexMutex: weak fairness only. It promises that *some* thread gets a free
  mutex, as `ExclusiveLock` says; a futex mutex has no order among its waiters.
* Condition: weak fairness of each thread, in which a thread that wants the mutex
  counts as running while the mutex is free; that gives no thread in particular a
  turn, and none is needed. Strong fairness of the success of compare-exchange
  loops, which fail only because somebody else succeeded, or spuriously where the
  exchange is weak: the code is lock-free and not wait-free, so that no thread is
  overtaken for ever is an assumption. Without it TLC has a woken thread whose
  exchange fails for ever because the other waiter comes and goes.
* RwLock: weak fairness of each thread once it has the mutex, and that *some*
  thread gets a free mutex, which is what `ExclusiveLock` promises. An exchange
  may fail for ever because others change the word; that one fails for ever
  without a cause is excluded.
* Pool and StepGraph: weak fairness. A critical section is one step there and
  whoever wants it is served in the end, as above. A signal of Pool's condition
  is taken by some sleeping worker, not by each: a condition has no order among
  its waiters.

## 6. Proofs

| theorem | says |
|---|---|
| `LinkQueueProofs!TypeCorrect` | the types of all variables; the link thread indexes `wip_zcu` within its bounds |
| `LinkQueueProofs!OneLinkThread` | at most one link thread, from the moment `state` is set to running |
| `LinkQueueProofs!WaitGroupCorrect` | the wait group counts exactly the live jobs |
| `LinkQueueProofs!AssertsHold` | no assert or unreachable of Queue.zig fails |
| `LinkQueueProofs!MirNotLost` | a link thread that stopped for a MIR is always restarted |
| `LinkQueueProofs!MirOwned` | no MIR is touched before it is written or after it is freed |
| `LinkQueueProofs!PipelineKept` | the queue implements `LinkPipeline`: no input after the last, no ZCU task before, none out of order |
| `LinkQueueProofs!ReadyToFlush` | flush finds prelink called, every dispatched task linked, no link thread and no MIR left |
| `LinkQueueProofs!AirCounted`, `!AirCapped` | while memory lasts (`~AllocMayFail`), the bytes in flight are the sum over the queued functions, and exceed the cap only by one function that exceeds it alone |
| `LinkQueueProofs!AirSleeperTold` | no wakeup for AIR is lost: who sleeps without a signal has a task that does not fit |
| `LinkQueueProofs!AirSleeperServed` | while memory lasts, the main thread does not sleep for AIR alone: a link thread works or is about to, an input is to come, or a codegen worker has it to restart |
| `IncrementalUpdateProofs!Counted` | in the middle of every marking the count of a unit is the number of the dependees it waits for, and `outdated_ready` is exact, for every dependency graph |
| `IncrementalUpdateProofs!NoneMissed` | what read something that changed is in `outdated` when no marking is under way |
| `IncrementalUpdateProofs!AnalysedOnce` | no unit is marked again in the update that analysed it |
| `FutexMutexProofs!Exclusive`, `!NoForgottenSleeper`, `!Refinement` | exclusion; sleepers are covered; every step is a step of ExclusiveLock |
| `ConditionProofs!CountersExact` | neither half of the packed word borrows from the other |
| `ConditionProofs!SignalsArrive` | no reserved signal is forgotten: somebody is awake to take it, or a signaler has still to bump or wake |
| `ConditionProofs!Implements` | every step of Condition is a step of ConditionVariable, or none |
| `RwLockProofs!WriterAlone`, `!ReadersApart`, `!PermitExact` | one writer at most; until tryLock marks over a reader, readers and writers never meet, and the semaphore's permit is exact |
| `WaitGroupProofs!WaitCorrect`, `!NothingAfterWait` | wait returns when every task finished, and the assert in ResetEvent never fails; nothing writes to the group afterwards |
| `PoolProofs!TasksCalledOnce` | a task is called once at most, by a thread that has an id if it takes one; when the pool is gone every task it took was called |
| `PoolProofs!PoolGone` | when the pool is gone no thread is inside a task and no memory is left |
| `PoolProofs!WaitGroupsExact` | every wait group counts the tasks that were spawned with it and have not finished |
| `PoolProofs!NoStandstill` | for any number of workers and tasks: when every thread rests or waits, none waits for anything but a new task, every task taken was called and every group is down to zero |
| `PoolProofs!SleepersTold` | while a worker sleeps without a signal, every queued task has a thread that will take or tell of it; once the pool is joined every sleeper has a signal |
| `PoolProofs!PoolUsesCondition` | what the pool does with its condition are steps of ConditionVariable |
| `StepGraphProofs!MakesOnce` | no step is made twice in a build |
| `StepGraphProofs!LoopsFound` | for every graph a loop is reported exactly when the targets need one; otherwise the stack has what they need and every step has as dependants those that depend on it, as often as they name it |
| `StepGraphProofs!DependenciesFirst` | a step is made after its dependencies, over rebuilds too |
| `StepGraphProofs!BudgetKept` | what is claimed is what the steps being made declared, and stays within the limit |
| `StepGraphProofs!NoneLeft` | when a build is over no step that could be made is left, unless memory was set aside for a step that had run |

The invariants, and why the property alone is not inductive:

* *LinkQueue*: `RunInv` = types, `WaitGroupExact`, `SingleLinkThread`,
  `IdleQuiet` (between updates nothing runs) and `LeftFresh` (a function not
  dispatched has no worker). That a job is spawned once needs the wait group to
  cover it, the count is exact only if no job survives an update, and that needs
  the wait to have returned at zero.
  `PreInv` makes the prelink count exact: it is the number of unfinished items
  plus at most one, held by the main thread until its own `finishPrelinkItem`.
  So once the count is zero no input comes any more, and a link thread that has
  stopped left nothing behind. `MirInv` says that the tasks still to be linked are
  distinct, that none can be dispatched again and that each has a live MIR, and
  that the function the stopped link thread waits for is the next of them. Without
  the distinctness a MIR could be freed while a second task still needs it.
  For the order, `InOrder`: what was linked, the rest of `wip_zcu` and
  `queued_zcu` are, one after the other, the tasks enqueued in this update; the
  swap keeps it because the link thread swaps only a `wip_zcu` that is used up
  (`SwapAtEnd`). For flush, `FlushInv`: a link thread past prelink called it
  (`Prelinked`), an update that did not close prelink failed (`Closed`), what
  analysis dispatched is enqueued or the main thread holds it (`Dispatched`),
  and so is the owner of every MIR not freed (`MirHeld`). For the AIR each byte in
  flight is a pair of a function and a number; the function whose bytes are about
  to be given back is freed (`DecFreed`), so it is counted once and is not the one
  the main thread enqueues. Who sleeps for AIR has a task that does not fit, so
  bytes are in flight, so a function is queued (`AirComes`): with the prelink over
  and the link thread stopped that contradicts `Drained`, or it waits for a MIR
  whose worker has yet to come.
* *IncrementalUpdate*: `IInv` adds to the three properties the types, what the
  stack, the phase and the pending visits say of each other, and `Closed`: while a
  unit is outdated, PO or being analysed again, whatever depends on it is marked
  too, unless it was analysed in this update or the marking has yet to reach it.
  `Closed` is what makes a verdict find a unit that counted it, and what makes a
  unit that changed find its dependers marked: without it neither the counts nor
  `NothingStale` is inductive.
* *FutexMutex*: types with exclusion; `SleepersCovered` is inductive with the
  types: the word is contended, or somebody is on the way to mark or wake.
* *Condition*: the places of the waiters, signals in Nat, and the count. For
  `SignalsArrive`, `ReachInv`: the signals are at most the waiters that are awake
  plus the wakeups signalers still owe (`AwakeEnough`), and at most the waiters
  that registered before the last bump plus the wakeups whose bump is to come
  (`OldEnough`). The second carries the first through a wake that finds fewer
  sleepers than it owes, for it then wakes all of them. Neither survives a waiter
  going to sleep without `SawNone`: who is about to sleep on the current epoch
  left no signal behind but those not yet bumped. For `Implements` the count and
  the kinds of the calls suffice: a wait that is taken back at a timeout left a
  waiter without a signal, because an exchange that succeeds found the word that
  was read, and with it the signals of then.
* *RwLock*: the places, who owns the mutex, the counts of the word, and `raced`
  or: a writer inside is marked, its readers are out, and a permit is there only
  for the writer whose last reader left. `raced` once true stays.
* *WaitGroup*: types, the count of unfinished tasks, and the hand-over: the
  event is set, or the last finisher is about to set it, exactly when the count
  fell to zero with a waiter marked.
* *Pool*: stacks have no bound, so the invariant speaks of their frames: `Shape`
  says which frames may be where. `OnTheWay` follows a task: it is uncalled and
  about to be queued by one thread, or uncalled and once in the queue, or called.
  `Held`: of every closure that is live the task is queued or a frame is inside
  it. `Life` ties the places of the threads to each other, to `spawned` and to
  `is_running`; its heart is that while something is queued some worker has not
  ended: a worker ends with an empty queue, and who queues a task is a worker
  that has not ended or has a pool that is not stopped. `Known`: the owner has an
  id from the start and a worker from its first turn on.
  `NobodyStuck` needs more, `CalmInv`. `CallInv`: a task is inside one frame at
  most and was called (`Single`, `Called`), who waits for a group does so in the
  task that owns it (`Nested`), only a task that runs spawns into its group
  (`Own`), and all tasks of a group were called once its owner waits without
  working (`Awaited`). `NoCycle`: a task leads to those of its group, which it
  waits for, and to those its thread took up above it; every set of tasks has one
  that leads to none of the set. This is well-foundedness without an order, and
  it is kept because a task that is spawned or called leads nowhere yet. `Counted`:
  a group is the number of its tasks that have not finished. `Told` (with
  `Stopped`: nobody joins a pool that is still running): the words of
  `SleepersTold`. If then no thread can go on, a task that is being run and leads
  to no other such task waits for one that has been called and is unfinished,
  which it does lead to; so no task is being run, the workers sleep without a
  signal, `Told` has the queue empty, and what was spawned has been called.
* *StepGraph*: for `MakesOnce`, a step that may be made has not been made in this
  build, and nothing runs while the graph is prepared. For the graph, `PrepInv`:
  the frames are a path of calls and the steps on it are the started ones; the
  steps that are done have their dependencies done and none of them needs itself;
  a step has each dependant as often as that has gone past it in its list. So a call for
  a started step closes a loop, and when the targets are done so is all they need.
  For the order, `DepsInv`: who is about to claim a step found its dependencies
  made, they stay made while the build runs, and a reset reaches every dependant
  because the dependants are exact. For memory each claimed byte is a pair of a
  worker and a number, so a worker's next place adds or removes its own pairs.
  For `NoneLeft`, `ForgetInv`: a step that could be made is to be spawned, queued,
  looked at, listed as blocked, or about to be told of by a dependency
  (`Tended`); and as long as nothing was set aside for a step that had run, a
  blocked step that fits means that somebody holds memory or that a step which
  can be made and needs memory is queued (`BlockedMoves`). A scan carries that
  over: it keeps a step that fits only if others hold some of the limit or it has
  queued somebody (`ScanFits`).

The assumptions are those the modules name (`ConstantsAssumption`,
`ProjectsAssumption` and so on): finite sets of threads or tasks, distinct model
values, caps in Nat. TLC evaluates them in every run.

Only model-checked: liveness and fairness, which TLAPS does not do. Every
invariant of a passing run is stated by a theorem. `SleepersTold`,
`PoolUsesCondition`, `AirSleeperTold` and `AirSleeperServed` are proved and have no
run: `NobodyStuck`, `UpdateEnds` and the queue's liveness are what TLC checks of
the same hazards. The closures
of StepGraph are stated as least closed sets, and the sum of the AIR in flight as
the size of a set of pairs (`AirPairs`), so that what needs them needs no
induction over data, which the installed provers cannot do.

## 7. Disagreements found

* **`StepGraph_blocked`**: a step can be twice among the blocked ones; memory
  that comes back is set aside for an entry whose step has run, so the step that
  needs it stays blocked and `assert(run.memory_blocked_steps.items.len == 0)`
  (`lib/compiler/build_runner.zig:780`) fails. The trace has 46 states.
* **`IncrementalUpdate_loop`**: when everything outdated waits for something,
  `findOutdatedToAnalyze` looks for a unit that breaks the loop and skips
  functions: "a function can't be responsible for the loop (IES dependencies
  can't have loops)" (`src/Zcu.zig:3204`). But `resolveInferredErrorSet` declares
  the dependency (`src/Sema.zig:35032`) before it finds that the other function
  is being analysed (`src/Sema.zig:35038`), so two functions that need each
  other's error set leave a loop of dependencies behind, with the compile error.
  After an edit of one of them each waits for the other, and `chosen_unit.?`
  (`src/Zcu.zig:3248`) is null. The trace has 20 states.

* **`Condition_stolen`**: `signal` "Unblocks at least one thread blocked in a call to
  `wait()`", and "The blocked thread must be sequenced before this call with
  respect to acquiring the same Mutex" (`lib/std/Thread/Condition.zig:96`). But a
  thread that begins to wait after the call and times out takes any signal it finds
  (`lib/std/Thread/Condition.zig:227`), and one that wakes for no reason does so,
  too (`:244`): the thread that was blocked before wakes, finds none and sleeps
  again, though the signal was made with the mutex held. The run has one signal
  and a timeout. `Condition_all` checks, with everything enabled, that wakeups are
  lost in no other way (`NoWakeupLost`).

Observations that have no run of their own:

* out of memory, `dispatchZcuLinkTask` frees the task at once
  (`src/Compilation.zig:8077`), while the function's codegen worker has still to
  store its MIR; `ZcuTask.deinit` says `unreachable, // cannot deinit until MIR
  done` (`src/link.zig:1321`). LinkQueue's main thread stays in `deinit` until the
  MIR is there;
* `RwLock.tryLock` loads the state, sees no reader, and sets IS_WRITING in a
  second access (`lib/std/Thread/RwLock.zig:186`); a reader that comes in between
  is inside with the writer, against "one writer or many readers"
  (`lib/std/Thread/RwLock.zig:1`). `raced` is that exception, in `Exclusive` and
  in `PermitsMatch`;
* bytes of AIR counted for a task whose append fails are never given back
  (Queue.zig:199); analysis has that much less room from then on, and when enough
  is lost the main thread sleeps for AIR with nobody left to signal: the exception
  `~AllocMayFail` of `AirSleeperServed`, without which TLC finds that state;
* in a second update inputs are loaded after `prelink`, since `post_prelink`
  stays true;
* off x86, `tryLock` of Mutex may fail on a free mutex (weak exchange);
* a broadcast made without the mutex may leave a thread asleep that was blocked
  before, when one that came during the call takes its signal, even without
  timeouts and spurious wakeups; all callers here change their predicate under
  the mutex;
* a writer in `RwLock.lock` that has not marked itself yet competes for the mutex
  with the readers that found a writer (`lib/std/Thread/RwLock.zig:245`), and one
  thread's turn at a mutex is promised by nothing in `Mutex.zig`: a stream of
  readers through the mutex may keep it out for ever, and a stream of writers a
  reader. With the fairness of section 5 TLC finds both as soon as `LetIn` is made
  to ask for them, so it does not; a writer that has marked is let in;
* `spawnWgId` out of memory on a thread without an id unwraps a null
  (Pool.zig:200); `Pool.init` that fails after allocating ids does not free them
  (Pool.zig:53);
* a step larger than the limit is reported and then blocks for ever, with the
  failed assertion; one skipped by `--skip-oom-steps` becomes ready with a
  rebuild (build_runner.zig:603, Step.zig:987) and does the same. This is the
  exception for large steps in `NothingForgotten`, as `stale` is for the finding
  above;
* `markAllFilesDirty` (Watch.zig:884) resets a dependant that an earlier
  reset has reached already, which recursiveReset's assertion forbids.

## 8. Assumptions and limits

Memory is sequentially consistent: weaker orderings in the source (acquire,
release, monotonic) are not told apart. Counters do not wrap: the 16 bit
counters of Condition would need 65536 threads, the epoch 2^32 wakes between two
instructions. Single-threaded builds and the Windows, Darwin and pthread
variants are left out. In IncrementalUpdate nothing adds to
`retryable_failures`, as in the code; the `memoized_state` units and reified types (which are never outdated) are left
out; analysis does not run out of memory; a type whose declaration is gone keeps
its place in the model, where the code reports a failure to whoever still uses it;
the fields of a type are resolved only while the type is not marked. In StepGraph spawning never runs out of memory, what
steps do is a result, and the kernel's event queue does not overflow. In
LinkQueue `deinit` of the whole queue is left out: nothing runs then. Pool's
tasks take no locks of their own.

## 9. Plan

In this order; each with its module, run and proofs.

1. `InternShard`: getOrPutKey with growth and removal; a key gets one index.
   Abstract specification: a map that only grows. Theorem: refinement.
2. `ProgressNodes`: the freelist; a node has one owner. Theorem: that.
3. `CacheManifest`: two processes with crash; a hit is never of a partial
   manifest.
4. `IoQueue`: refinement of a bounded FIFO, with cancelation.
5. `SmpAllocator`, `FetchQueue`, `PosixFutex` (implements the futex assumed
   here), `RecursiveMutex`.
