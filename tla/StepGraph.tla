------------------------------ MODULE StepGraph ------------------------------
(***************************************************************************)
(* The build runner's graph of steps (lib/compiler/build_runner.zig): the  *)
(* main thread orders the steps and checks for loops, spawns one job per   *)
(* step, waits, and in watch mode builds again; the pool's workers run     *)
(* workerMakeOneStep.  A step may be queued by the main thread, by each of *)
(* its dependencies and by whoever gives memory back; the checks at the    *)
(* head of the job decide which of them makes it.                          *)
(*                                                                         *)
(* The pool is its run queue, last in first out (module Pool).  Spawning   *)
(* counts a job into the wait group and its return counts it out, so that  *)
(* the wait is over when no job is queued or running (module WaitGroup).   *)
(***************************************************************************)
EXTENDS Naturals, Sequences, FiniteSets, SequencesExt

CONSTANTS
    Steps, Workers, NoStep,
    Projects,   \* what may be built: records of the fields below
    MaxBuilds   \* bound on the builds of one run of the build runner

ASSUME ProjectsAssumption ==
    /\ IsFiniteSet(Steps) /\ NoStep \notin Steps
    /\ MaxBuilds \in Nat \ {0}
    /\ \A p \in Projects :
          /\ p.deps \in [Steps -> Seq(Steps)]       \* Step.dependencies, with repetitions
          /\ p.maxRss \in [Steps -> Nat]            \* Step.max_rss
          /\ p.limit \in Nat                        \* --maxrss
          /\ p.skipOom \in BOOLEAN                  \* --skip-oom-steps
          /\ p.targets \in Seq(Steps) /\ IsInjective(p.targets)

VARIABLES
    project,
    state,              \* Step.state
    dependants,         \* Step.dependants
    stepStack,          \* step_stack, in the order of insertion
    frames,             \* the calls of constructGraphAndCheckForDependencyLoop
    mpc, toSpawn,       \* the main thread, and what it has still to spawn
    queue,              \* the pool's run_queue
    wk,                 \* each worker: its place, step, list and `remaining`
    claimed,            \* claimed_rss
    blocked,            \* memory_blocked_steps
    builds,
    made,               \* history: how often each step was made in this build
    stale               \* history: memory was set aside for a step that had run

graphVars == <<project, dependants, stepStack, frames>>
mainVars == <<mpc, toSpawn, builds>>
rssVars == <<claimed, blocked>>
histVars == <<made, stale>>
vars == <<graphVars, mainVars, rssVars, histVars, state, queue, wk>>

deps == [s \in Steps |-> Range(project.deps[s])]
maxRss == project.maxRss
Fits(bytes) == bytes <= project.limit

\* What a walk from S along the edges meets: the least set that has S and leads
\* nowhere else
Reached(S, edges) ==
    LET closed == {T \in SUBSET Steps : S \subseteq T /\ \A t \in T : edges[t] \subseteq T}
    IN {s \in Steps : \A T \in closed : s \in T}

Idle == [at |-> "idle", step |-> NoStep, rest |-> <<>>, remaining |-> 0]
Prepend(s) == queue' = <<s>> \o queue

Init ==
    /\ project \in Projects
    /\ state = [s \in Steps |-> "precheck_unstarted"]
    /\ dependants = [s \in Steps |-> <<>>]
    /\ stepStack = project.targets
    /\ frames = <<[step |-> NoStep, todo |-> DOMAIN project.targets]>>
    /\ mpc = "prepare" /\ toSpawn = <<>> /\ builds = 1
    /\ queue = <<>> /\ wk = [w \in Workers |-> Idle]
    /\ claimed = 0 /\ blocked = <<>>
    /\ made = [s \in Steps |-> 0] /\ stale = FALSE

-----------------------------------------------------------------------------
(***************************************************************************)
(* prepare                                                                 *)
(***************************************************************************)
\* A call runs over a list, in random order: over the dependencies of its step, or
\* over the starting steps; todo has the positions that are left.
Top == Last(frames)
ListOf(frame) == IF frame.step = NoStep THEN project.targets ELSE project.deps[frame.step]
Went(k) == Append(Front(frames), [Top EXCEPT !.todo = @ \ {k}])
Entered(s) == <<[step |-> s, todo |-> DOMAIN project.deps[s]]>>

\* variant: a step that is under way is taken for one that is done
Descend_Blind(s, k) ==
    /\ IF state[s] = "precheck_unstarted"
       THEN /\ state' = [state EXCEPT ![s] = "precheck_started"]
            /\ frames' = Went(k) \o Entered(s)
       ELSE frames' = Went(k) /\ UNCHANGED state
    /\ UNCHANGED mpc

\* the call for s: a loop, a step not seen before, or one that is done
Descend(s, k) ==
    CASE state[s] = "precheck_started" ->
            mpc' = "loop" /\ UNCHANGED <<state, frames>>
      [] state[s] = "precheck_unstarted" ->
            /\ state' = [state EXCEPT ![s] = "precheck_started"]
            /\ frames' = Went(k) \o Entered(s)
            /\ UNCHANGED mpc
      [] OTHER -> frames' = Went(k) /\ UNCHANGED <<mpc, state>>

\* variant: a step that several steps depend on is put again
Put_Again(s) == Append(stepStack, s)

Put(s) == IF s \in Range(stepStack) THEN stepStack ELSE Append(stepStack, s)

\* variant: a step that knows the dependant already is not told again
Tell_Once(s) ==
    IF Top.step = NoStep \/ Top.step \in Range(dependants[s]) THEN dependants
    ELSE [dependants EXCEPT ![s] = Append(@, Top.step)]

Tell(s) == IF Top.step = NoStep THEN dependants
           ELSE [dependants EXCEPT ![s] = Append(@, Top.step)]

\* the element at position k
Visit(k) ==
    /\ mpc = "prepare"
    /\ LET s == ListOf(Top)[k] IN
          stepStack' = Put(s) /\ dependants' = Tell(s) /\ Descend(s, k)
    /\ UNCHANGED <<project, toSpawn, builds, rssVars, histVars, queue, wk>>

Visited ==
    /\ mpc = "prepare" /\ Top.todo = {} /\ Top.step # NoStep
    /\ state' = [state EXCEPT ![Top.step] = "precheck_done"]
    /\ frames' = Front(frames)
    /\ UNCHANGED <<project, dependants, stepStack, mainVars, rssVars, histVars, queue, wk>>

\* steps too large for the limit are skipped, or only reported
Prepared ==
    /\ mpc = "prepare" /\ Top.todo = {} /\ Top.step = NoStep
    /\ state' = [s \in Steps |->
          IF s \in Range(stepStack) /\ ~Fits(maxRss[s]) /\ project.skipOom
          THEN "skipped_oom" ELSE state[s]]
    /\ mpc' = "spawn" /\ toSpawn' = Reverse(stepStack)
    /\ UNCHANGED <<graphVars, builds, rssVars, histVars, queue, wk>>

-----------------------------------------------------------------------------
(***************************************************************************)
(* runStepNames and the loop around it                                     *)
(***************************************************************************)
SpawnInitial ==
    /\ mpc = "spawn" /\ toSpawn # <<>>
    /\ IF state[Head(toSpawn)] = "skipped_oom" THEN UNCHANGED queue
       ELSE Prepend(Head(toSpawn))
    /\ toSpawn' = Tail(toSpawn)
    /\ mpc' = IF toSpawn' = <<>> THEN "wait" ELSE "spawn"
    /\ UNCHANGED <<graphVars, builds, rssVars, histVars, state, wk>>

\* wait_group.wait() may return
Quiet == queue = <<>> /\ \A w \in Workers : wk[w].at = "idle"

\* the assertion, and what was never queued has failed with its dependencies
Summarise ==
    /\ mpc = "wait" /\ Quiet
    /\ IF blocked # <<>> THEN mpc' = "panic" /\ UNCHANGED state
       ELSE /\ mpc' = "watch"
            /\ state' = [s \in Steps |-> IF state[s] = "precheck_done"
                                         THEN "dependency_failure" ELSE state[s]]
    /\ UNCHANGED <<graphVars, toSpawn, builds, rssVars, histVars, queue, wk>>

\* S and all that depends on it, as recursiveReset walks it
Downstream(S) == Reached(S, [s \in Steps |-> Range(dependants[s])])

\* variant: only the steps themselves are reset
Reset_Shallow(S) == state' = [s \in Steps |-> IF s \in S THEN "precheck_done" ELSE state[s]]

Reset(S) == state' = [s \in Steps |-> IF s \in Downstream(S) THEN "precheck_done" ELSE state[s]]

Rebuild ==
    /\ mpc = "watch" /\ builds < MaxBuilds
    /\ builds' = builds + 1 /\ mpc' = "spawn" /\ toSpawn' = Reverse(stepStack)
    /\ made' = [s \in Steps |-> 0] /\ stale' = FALSE
    /\ UNCHANGED <<graphVars, rssVars, queue, wk>>

\* files that some steps read have changed: they are dirty, and so is what failed
FilesChange(S) ==
    /\ S # {} /\ \A s \in S : state[s] \in {"success", "failure", "skipped"}
    /\ Rebuild
    /\ Reset(S \cup {s \in Steps : state[s] \in {"dependency_failure", "failure", "skipped"}})

\* the web interface asks for everything again
RebuildAll ==
    /\ Rebuild
    /\ state' = [s \in Steps |-> IF s \in Range(stepStack) THEN "precheck_done" ELSE state[s]]

-----------------------------------------------------------------------------
(***************************************************************************)
(* workerMakeOneStep                                                       *)
(***************************************************************************)
At(w) == wk[w].at
Step(w) == wk[w].step
Become(w, new) == wk' = [wk EXCEPT ![w] = new]
Goto(w, place) == Become(w, [wk[w] EXCEPT !.at = place])

MutexFree == \A u \in Workers : At(u) # "scan"

Take(w) ==
    /\ At(w) = "idle" /\ queue # <<>>
    /\ queue' = Tail(queue)
    /\ Become(w, [Idle EXCEPT !.at = "check", !.step = Head(queue)])
    /\ UNCHANGED <<graphVars, mainVars, rssVars, histVars, state>>

Ready(s) == \A d \in deps[s] : state[d] \in {"success", "skipped"}
Doomed(s) == \E d \in deps[s] : state[d] \in {"failure", "dependency_failure", "skipped_oom"}
Early(s) == \E d \in deps[s] : state[d] \in {"precheck_done", "running"}

\* variant: the step is queued again until its dependencies are met
TooEarly_Again(w) == Become(w, Idle) /\ Prepend(Step(w))

\* "relying on another worker to queue this step up again"
TooEarly(w) == Become(w, Idle) /\ UNCHANGED queue

\* The states of the dependencies, in an order not told apart.  Each is final
\* unless it ends the loop, so that all may be read with the last.
Check(w) ==
    /\ At(w) = "check"
    /\ \/ Ready(Step(w)) /\ Goto(w, "claim") /\ UNCHANGED <<state, queue>>
       \/ /\ Doomed(Step(w)) /\ Become(w, Idle) /\ UNCHANGED queue
          /\ state' = [state EXCEPT ![Step(w)] = "dependency_failure"]
       \/ Early(Step(w)) /\ TooEarly(w) /\ UNCHANGED state
    /\ UNCHANGED <<graphVars, mainVars, rssVars, histVars>>

\* variant: whoever finds its memory free makes the step
Mine_Always(s) == TRUE

\* "Avoid running steps twice."
Mine(s) == state[s] = "precheck_done"

Begin(w) ==
    /\ state' = [state EXCEPT ![Step(w)] = "running"]
    /\ made' = [made EXCEPT ![Step(w)] = @ + 1]
    /\ Goto(w, "make")

\* a step without max_rss: a compare and exchange
ClaimFree(w) ==
    /\ At(w) = "claim" /\ maxRss[Step(w)] = 0
    /\ \/ Mine(Step(w)) /\ Begin(w)
       \/ ~Mine(Step(w)) /\ Become(w, Idle) /\ UNCHANGED <<state, made>>
    /\ UNCHANGED <<graphVars, mainVars, rssVars, stale, queue>>

\* variant: the limit is compared with what the others claim
FitsNow_Others(s) == Fits(claimed)

FitsNow(s) == Fits(claimed + maxRss[s])

\* with max_rss: under max_rss_mutex, and it may have to wait for memory
ClaimRss(w) ==
    /\ At(w) = "claim" /\ maxRss[Step(w)] # 0 /\ MutexFree
    /\ \/ /\ Mine(Step(w)) /\ FitsNow(Step(w)) /\ Begin(w)
          /\ claimed' = claimed + maxRss[Step(w)] /\ UNCHANGED blocked
       \/ /\ Mine(Step(w)) /\ ~FitsNow(Step(w)) /\ Become(w, Idle)
          /\ blocked' = Append(blocked, Step(w)) /\ UNCHANGED <<claimed, state, made>>
       \/ ~Mine(Step(w)) /\ Become(w, Idle) /\ UNCHANGED <<rssVars, state, made>>
    /\ UNCHANGED <<graphVars, mainVars, stale, queue>>

\* Step.make returns, and the result is stored
Make(w, result) ==
    /\ At(w) = "make"
    /\ state' = [state EXCEPT ![Step(w)] = result]
    /\ Become(w, [wk[w] EXCEPT !.at = "dependants",
          !.rest = IF result = "failure" THEN <<>> ELSE dependants[Step(w)]])
    /\ UNCHANGED <<graphVars, mainVars, rssVars, histVars, queue>>

SpawnDependant(w) ==
    /\ At(w) = "dependants" /\ wk[w].rest # <<>>
    /\ Prepend(Head(wk[w].rest))
    /\ Become(w, [wk[w] EXCEPT !.rest = Tail(@)])
    /\ UNCHANGED <<graphVars, mainVars, rssVars, histVars, state>>

\* a step without max_rss has nothing to give back
Return(w) ==
    /\ At(w) = "dependants" /\ wk[w].rest = <<>> /\ maxRss[Step(w)] = 0
    /\ Become(w, Idle)
    /\ UNCHANGED <<graphVars, mainVars, rssVars, histVars, state, queue>>

\* variant: nobody is told that there is memory again
GiveBack_Silent(w) ==
    /\ At(w) = "dependants" /\ wk[w].rest = <<>> /\ maxRss[Step(w)] # 0 /\ MutexFree
    /\ claimed' = claimed - maxRss[Step(w)] /\ Become(w, Idle)
    /\ UNCHANGED <<graphVars, mainVars, blocked, histVars, state, queue>>

\* "Give the memory back to the scheduler."  From here to the end of the scan
\* the worker has max_rss_mutex; blocked is rebuilt from what it keeps.
GiveBack(w) ==
    /\ At(w) = "dependants" /\ wk[w].rest = <<>> /\ maxRss[Step(w)] # 0 /\ MutexFree
    /\ claimed' = claimed - maxRss[Step(w)]
    /\ IF blocked = <<>> THEN Become(w, Idle)
       ELSE Become(w, [wk[w] EXCEPT !.at = "scan", !.rest = blocked,
                                    !.remaining = project.limit - claimed'])
    /\ blocked' = <<>>
    /\ UNCHANGED <<graphVars, mainVars, histVars, state, queue>>

Scanned(w, left) ==
    IF Len(wk[w].rest) = 1 THEN Become(w, Idle)
    ELSE Become(w, [wk[w] EXCEPT !.rest = Tail(@), !.remaining = left])

\* one blocked step: queue it if it fits in what remains, keep it otherwise
Scan(w) ==
    /\ At(w) = "scan"
    /\ LET s == Head(wk[w].rest) IN
          IF maxRss[s] <= wk[w].remaining
          THEN /\ Prepend(s) /\ Scanned(w, wk[w].remaining - maxRss[s])
               /\ stale' = (stale \/ state[s] # "precheck_done")
               /\ UNCHANGED blocked
          ELSE /\ blocked' = Append(blocked, s) /\ Scanned(w, wk[w].remaining)
               /\ UNCHANGED <<queue, stale>>
    /\ UNCHANGED <<graphVars, mainVars, claimed, made, state>>

-----------------------------------------------------------------------------
Results == {"success", "failure", "skipped"}

MainRuns == (\E k \in Top.todo : Visit(k)) \/ Visited \/ Prepared \/ SpawnInitial \/ Summarise

WorkerRuns(w) ==
    \/ Take(w) \/ Check(w) \/ ClaimFree(w) \/ ClaimRss(w)
    \/ (\E r \in Results : Make(w, r))
    \/ SpawnDependant(w) \/ Return(w) \/ GiveBack(w) \/ Scan(w)

Next ==
    \/ MainRuns
    \/ RebuildAll \/ \E S \in SUBSET Steps : FilesChange(S)
    \/ \E w \in Workers : WorkerRuns(w)

Spec == Init /\ [][Next]_vars

\* The main thread goes on, workers take jobs and go on, and every step that is
\* made ends; nobody needs to change a file.
FairSpec == Spec /\ WF_vars(MainRuns) /\ \A w \in Workers : WF_vars(WorkerRuns(w))

-----------------------------------------------------------------------------
States == {"precheck_unstarted", "precheck_started", "precheck_done", "running",
           "dependency_failure", "success", "failure", "skipped", "skipped_oom"}
\* What a step needs, directly or not
Upstream(s) == Reached(deps[s], deps)

Needed == UNION {Upstream(s) \cup {s} : s \in Range(project.targets)}
Cyclic == \E s \in Needed : s \in Upstream(s)

\* How often an element is in a list
Times(e, list) == Cardinality({i \in DOMAIN list : list[i] = e})

\* "Traverse the dependency graph depth-first and make it undirected": a loop
\* is reported exactly when the targets need one; otherwise step_stack has what
\* they need, each once, and the lists of dependants are those of dependencies
\* turned round: a step has a dependant as often as that names it.
GraphBuilt ==
    /\ mpc = "loop" => Cyclic
    /\ mpc \notin {"prepare", "loop"} =>
          /\ ~Cyclic /\ ToSet(stepStack) = Needed /\ Len(stepStack) = Cardinality(Needed)
          /\ \A s \in Needed :
                /\ ToSet(dependants[s]) \subseteq Needed
                /\ \A t \in Needed : Times(t, dependants[s]) = Times(s, project.deps[t])

\* "Avoid running steps twice": though it is queued several times, a step is
\* made once in a build.
MadeOnce == \A s \in Steps : made[s] <= 1

\* A step is made after all its dependencies, and what one build keeps of an
\* earlier one was made from dependencies that were kept, too.
DepsFirst == \A s \in Steps :
    state[s] \in {"running", "success", "failure", "skipped"} => Ready(s)

\* claimed_rss is what the steps that are being made have claimed, and stays
\* within the limit.
Holders == {w \in Workers : At(w) \in {"make", "dependants"}}
Claims == UNION {{w} \X (1 .. maxRss[Step(w)]) : w \in Holders}
MemoryBudget ==
    /\ claimed = Cardinality(Claims)
    /\ claimed <= project.limit

\* The build is over
Over == mpc = "wait" /\ Quiet

\* When a build is over nothing was forgotten: a step that was never made has a
\* dependency that failed or was not made either.  The exceptions are a step
\* that exceeds the limit and was not skipped, and a build in which memory that
\* was free was set aside for a step that had run already.
NothingForgotten ==
    Over => \/ stale
            \/ \A s \in Needed :
                  state[s] = "precheck_done" =>
                      ~Fits(maxRss[s]) \/ Doomed(s) \/ Early(s)

\* assert(run.memory_blocked_steps.items.len == 0)
NoneBlocked == Over => blocked = <<>>

\* Every build ends: no step waits for memory, the mutex or a dependency for ever.
BuildEnds == mpc \in {"spawn", "wait"} ~> mpc \in {"watch", "panic"}
=============================================================================
