--------------------------- MODULE StepGraphProofs ---------------------------
(***************************************************************************)
(* What the scheduler of steps keeps, for every graph, memory limit and    *)
(* number of workers, however often and by whomever a step is queued: no   *)
(* step is made twice in a build, the graph is built right, dependencies   *)
(* are made first, memory stays within the limit, and no step is forgotten.*)
(* Each part has an invariant of its own, which rests on those before it.  *)
(*                                                                         *)
(* That no step is made twice is not inductive: a step which may be made   *)
(* must not have been made yet in this build.  While the graph is          *)
(* prepared, steps become ready to be made; nothing runs then.             *)
(***************************************************************************)
EXTENDS StepGraph, FiniteSetTheorems, SequenceTheorems, TLAPS

Shapes == state \in [Steps -> States] /\ made \in [Steps -> Nat]
PrepareQuiet == mpc = "prepare" => Quiet /\ \A s \in Steps : made[s] = 0
ReadyUnmade == \A s \in Steps : state[s] = "precheck_done" => made[s] = 0

OnceInv == Shapes /\ PrepareQuiet /\ ReadyUnmade /\ MadeOnce

\* The build runner starts with steps that have neither been looked at nor made.
LEMMA OnceInit == Init => OnceInv
  BY DEF Init, OnceInv, Shapes, States, PrepareQuiet, Quiet, Idle, ReadyUnmade, MadeOnce

\* Steps of the preparation make nothing: a step that becomes ready is unmade
\* because none is made yet.
LEMMA OncePrepare ==
    ASSUME OnceInv, (\E k \in Top.todo : Visit(k)) \/ Visited \/ Prepared
    PROVE  OnceInv'
<1>1. mpc = "prepare" /\ UNCHANGED <<queue, wk, made>>
  BY DEF Visit, Visited, Prepared, histVars
<1>2. state' \in [Steps -> States]
  <2>1. ASSUME NEW k \in Top.todo, Visit(k) PROVE state' \in [Steps -> States]
    <3>1. PICK u : Descend(u, k)
      BY <2>1 DEF Visit
    <3> QED
      BY <3>1 DEF Descend, OnceInv, Shapes, States
  <2>2. CASE Visited
    BY <2>2 DEF Visited, OnceInv, Shapes, States
  <2>3. CASE Prepared
    BY <2>3 DEF Prepared, OnceInv, Shapes, States
  <2>4. QED
    BY <2>1, <2>2, <2>3
<1>3. \A s \in Steps : made'[s] = 0
  BY <1>1 DEF OnceInv, PrepareQuiet
<1>4. Quiet'
  BY <1>1 DEF OnceInv, PrepareQuiet, Quiet
<1>5. QED
  BY <1>1, <1>2, <1>3, <1>4 DEF OnceInv, Shapes, PrepareQuiet, ReadyUnmade, MadeOnce

\* The steps of the main thread after that leave no step ready that was made:
\* a new build forgets what was made, the end of one readies nothing.
LEMMA OnceMain ==
    ASSUME OnceInv,
           SpawnInitial \/ Summarise \/ RebuildAll \/ \E S \in SUBSET Steps : FilesChange(S)
    PROVE  OnceInv'
<1>1. CASE SpawnInitial
  BY <1>1 DEF SpawnInitial, histVars, OnceInv, Shapes, PrepareQuiet, ReadyUnmade, MadeOnce
<1>2. CASE Summarise
  BY <1>2 DEF Summarise, histVars, OnceInv, Shapes, States, PrepareQuiet, ReadyUnmade,
     MadeOnce
<1>3. CASE RebuildAll \/ \E S \in SUBSET Steps : FilesChange(S)
  <2>1. mpc' = "spawn" /\ made' = [s \in Steps |-> 0]
    BY <1>3 DEF RebuildAll, FilesChange, Rebuild
  <2>2. state' \in [Steps -> States]
    BY <1>3 DEF RebuildAll, FilesChange, Reset, OnceInv, Shapes, States
  <2>3. QED
    BY <2>1, <2>2 DEF OnceInv, Shapes, PrepareQuiet, ReadyUnmade, MadeOnce
<1>4. QED
  BY <1>1, <1>2, <1>3

\* A worker makes only a step that is ready, which is not ready from then on.
LEMMA OnceWorker ==
    ASSUME OnceInv, NEW w \in Workers, WorkerRuns(w)
    PROVE  OnceInv'
<1>1. mpc' = mpc
  BY DEF WorkerRuns, Take, Check, ClaimFree, ClaimRss, Make, SpawnDependant, Return,
         GiveBack, Scan, mainVars
<1>2. mpc # "prepare"
  BY DEF WorkerRuns, Take, Check, ClaimFree, ClaimRss, Make, SpawnDependant, Return,
         GiveBack, Scan, At, OnceInv, PrepareQuiet, Quiet
<1>3. Shapes' /\ ReadyUnmade' /\ MadeOnce'
  <2>1. CASE Mine(Step(w)) /\ Begin(w)
    <3>1. /\ state[Step(w)] = "precheck_done"
          /\ state' = [state EXCEPT ![Step(w)] = "running"]
          /\ made' = [made EXCEPT ![Step(w)] = made[Step(w)] + 1]
      BY <2>1 DEF Mine, Begin
    <3>2. Shapes'
      <4> DEFINE u == Step(w)
      <4>1. state' \in [Steps -> States]
        BY <3>1 DEF OnceInv, Shapes, States
      <4>2. made' \in [Steps -> Nat]
        <5> SUFFICES ASSUME made' = [made EXCEPT ![u] = made[u] + 1]
                     PROVE  made' \in [Steps -> Nat]
          BY <3>1
        <5> HIDE DEF u
        <5>1. \A s \in Steps : made'[s] \in Nat
          BY DEF OnceInv, Shapes
        <5>2. QED
          BY <5>1 DEF OnceInv, Shapes
      <4>3. QED
        BY <4>1, <4>2 DEF Shapes
    <3>3. \A s \in Steps : made'[s] <= 1 /\ (state'[s] = "precheck_done" => made'[s] = 0)
      BY <3>1 DEF OnceInv, Shapes, ReadyUnmade, MadeOnce
    <3>4. QED
      BY <3>2, <3>3 DEF ReadyUnmade, MadeOnce
  <2>2. CASE UNCHANGED <<state, made>>
    BY <2>2 DEF OnceInv, Shapes, ReadyUnmade, MadeOnce
  <2>3. CASE Check(w)
    BY <2>3 DEF Check, histVars, OnceInv, Shapes, States, ReadyUnmade, MadeOnce
  <2>4. CASE \E r \in Results : Make(w, r)
    BY <2>4 DEF Make, Results, histVars, OnceInv, Shapes, States, ReadyUnmade, MadeOnce
  <2>5. CASE ClaimFree(w)
    BY <2>5, <2>1, <2>2 DEF ClaimFree
  <2>6. CASE ClaimRss(w)
    BY <2>6, <2>1, <2>2 DEF ClaimRss
  <2>7. CASE Take(w) \/ SpawnDependant(w) \/ Return(w) \/ GiveBack(w) \/ Scan(w)
    BY <2>7, <2>2 DEF Take, SpawnDependant, Return, GiveBack, Scan, histVars
  <2>8. QED
    BY <2>3, <2>4, <2>5, <2>6, <2>7 DEF WorkerRuns
<1>4. QED
  BY <1>1, <1>2, <1>3 DEF OnceInv, PrepareQuiet

\* Every step of the specification keeps the invariant.
LEMMA OnceNext == OnceInv /\ [Next]_vars => OnceInv'
<1> SUFFICES ASSUME OnceInv, [Next]_vars PROVE OnceInv'
  OBVIOUS
<1>1. CASE UNCHANGED vars
  BY <1>1 DEF vars, mainVars, histVars, OnceInv, Shapes, PrepareQuiet, Quiet, ReadyUnmade,
              MadeOnce
<1>2. CASE Next
  BY <1>2, OncePrepare, OnceMain, OnceWorker DEF Next, MainRuns
<1>3. QED
  BY <1>1, <1>2

\* "Avoid running steps twice": no step is made twice in a build.
THEOREM MakesOnce == Spec => []MadeOnce
<1>1. OnceInv => MadeOnce
  BY DEF OnceInv
<1>2. QED
  BY OnceInit, OnceNext, <1>1, PTL DEF Spec

-----------------------------------------------------------------------------
(***************************************************************************)
(* The graph.  Walks over it, and what a step needs.                       *)
(***************************************************************************)
LEMMA ProjectFacts ==
    ASSUME project \in Projects
    PROVE  /\ deps \in [Steps -> SUBSET Steps] /\ maxRss \in [Steps -> Nat]
           /\ project.limit \in Nat
           /\ project.targets \in Seq(Steps) /\ IsInjective(project.targets)
           /\ Range(project.targets) \subseteq Steps
           /\ project.deps \in [Steps -> Seq(Steps)]
           /\ \A s \in Steps : deps[s] = Range(project.deps[s])
<1>1. /\ project.deps \in [Steps -> Seq(Steps)] /\ maxRss \in [Steps -> Nat]
      /\ project.limit \in Nat
      /\ project.targets \in Seq(Steps) /\ IsInjective(project.targets)
  BY ProjectsAssumption DEF maxRss
<1>2. \A list \in Seq(Steps) : Range(list) \subseteq Steps
  BY LenProperties DEF Range
<1>3. deps \in [Steps -> SUBSET Steps] /\ \A s \in Steps : deps[s] = Range(project.deps[s])
  <2>1. \A s \in Steps : Range(project.deps[s]) \in SUBSET Steps
    BY <1>1, <1>2
  <2> QED
    BY <2>1 DEF deps
<1> QED
  BY <1>1, <1>2, <1>3

\* What is reached is the least set that has S and leads nowhere else.
LEMMA ReachedFacts ==
    ASSUME NEW S \in SUBSET Steps, NEW edges \in [Steps -> SUBSET Steps]
    PROVE  LET R == Reached(S, edges) IN
           /\ R \in SUBSET Steps /\ S \subseteq R /\ \A t \in R : edges[t] \subseteq R
           /\ \A T \in SUBSET Steps :
                 S \subseteq T /\ (\A t \in T : edges[t] \subseteq T) => R \subseteq T
<1> DEFINE R == Reached(S, edges)
           Closed(T) == S \subseteq T /\ \A t \in T : edges[t] \subseteq T
<1>1. R = {s \in Steps : \A T \in SUBSET Steps : Closed(T) => s \in T}
  BY DEF Reached
<1>2. R \in SUBSET Steps /\ S \subseteq R
  BY <1>1
<1>3. \A t \in R : edges[t] \subseteq R
  BY <1>1
<1>4. \A T \in SUBSET Steps : Closed(T) => R \subseteq T
  BY <1>1
<1> QED
  BY <1>2, <1>3, <1>4

LEMMA UpstreamFacts ==
    ASSUME project \in Projects, NEW s \in Steps
    PROVE  /\ Upstream(s) \in SUBSET Steps /\ deps[s] \subseteq Upstream(s)
           /\ \A t \in Upstream(s) : deps[t] \subseteq Upstream(s)
           /\ \A T \in SUBSET Steps :
                 deps[s] \subseteq T /\ (\A t \in T : deps[t] \subseteq T) => Upstream(s) \subseteq T
<1>1. deps \in [Steps -> SUBSET Steps] /\ deps[s] \in SUBSET Steps
  BY ProjectFacts
<1> QED
  BY <1>1, ReachedFacts DEF Upstream

LEMMA NeededFacts ==
    ASSUME project \in Projects
    PROVE  /\ Needed \in SUBSET Steps /\ Range(project.targets) \subseteq Needed
           /\ \A s \in Needed : deps[s] \subseteq Needed
           /\ \A T \in SUBSET Steps :
                 Range(project.targets) \subseteq T /\ (\A t \in T : deps[t] \subseteq T)
                     => Needed \subseteq T
<1>1. Range(project.targets) \subseteq Steps
  BY ProjectFacts
<1>2. Needed \in SUBSET Steps /\ Range(project.targets) \subseteq Needed
  BY <1>1, UpstreamFacts DEF Needed
<1>3. \A s \in Needed : deps[s] \subseteq Needed
  BY <1>1, UpstreamFacts DEF Needed
<1>4. ASSUME NEW T \in SUBSET Steps, Range(project.targets) \subseteq T,
             \A t \in T : deps[t] \subseteq T
      PROVE  Needed \subseteq T
  <2>1. \A s \in T : Upstream(s) \subseteq T
    BY <1>4, UpstreamFacts
  <2> QED
    BY <1>4, <2>1 DEF Needed
<1> QED
  BY <1>2, <1>3, <1>4

\* A step outside a closed set that has all its dependencies does not need itself.
LEMMA OutsideClosed ==
    ASSUME project \in Projects, NEW D \in SUBSET Steps, \A t \in D : deps[t] \subseteq D,
           NEW s \in Steps, s \notin D, deps[s] \subseteq D
    PROVE  s \notin Upstream(s)
  BY UpstreamFacts

-----------------------------------------------------------------------------
(***************************************************************************)
(* Sequences without repetitions, and the stack of calls                   *)
(***************************************************************************)
LEMMA NoRepetitions ==
    ASSUME NEW S, NEW seq \in Seq(S), IsInjective(seq)
    PROVE  Len(seq) = Cardinality(ToSet(seq))
<1>1. seq \in [1 .. Len(seq) -> S] /\ Len(seq) \in Nat /\ DOMAIN seq = 1 .. Len(seq)
  BY LenProperties
<1>2. IsFiniteSet(1 .. Len(seq)) /\ Cardinality(1 .. Len(seq)) = Len(seq)
  <2>1. \A n \in Nat : /\ IsFiniteSet(1 .. n)
                       /\ Cardinality(1 .. n) = IF 1 > n THEN 0 ELSE n - 1 + 1
    BY FS_Interval
  <2>2. \A n \in Nat : Cardinality(1 .. n) = n
    BY <2>1
  <2> QED
    BY <1>1, <2>1, <2>2
<1>3. seq \in Bijection(1 .. Len(seq), ToSet(seq))
  BY <1>1 DEF Bijection, Injection, Surjection, IsInjective, ToSet
<1> QED
  BY <1>2, <1>3, FS_Bijection DEF ExistsBijection

LEMMA AppendNew ==
    ASSUME NEW S, NEW seq \in Seq(S), NEW e \in S
    PROVE  /\ Append(seq, e) \in Seq(S) /\ Range(Append(seq, e)) = Range(seq) \cup {e}
           /\ IsInjective(seq) /\ e \notin Range(seq) => IsInjective(Append(seq, e))
<1> DEFINE q == Append(seq, e)
<1>1. /\ q \in Seq(S) /\ Len(q) = Len(seq) + 1 /\ Len(seq) \in Nat
      /\ \A i \in 1 .. Len(seq) : q[i] = seq[i]
      /\ q[Len(seq) + 1] = e
      /\ DOMAIN q = 1 .. Len(seq) + 1 /\ DOMAIN seq = 1 .. Len(seq)
  OBVIOUS
<1> HIDE DEF q
<1>2. Range(q) = Range(seq) \cup {e}
  BY <1>1 DEF Range
<1>3. IsInjective(seq) /\ e \notin Range(seq) => IsInjective(q)
  BY <1>1 DEF Range, IsInjective
<1> QED
  BY <1>1, <1>2, <1>3 DEF q

LEMMA TimesFacts ==
    ASSUME NEW S, NEW list \in Seq(S), NEW e
    PROVE  /\ Times(e, list) \in Nat /\ (Times(e, list) = 0 <=> e \notin Range(list))
           /\ \A x \in S : Times(e, Append(list, x)) = Times(e, list) + IF x = e THEN 1 ELSE 0
<1> DEFINE At_(l) == {i \in DOMAIN l : l[i] = e}
           n == Len(list)
<1>1. n \in Nat /\ DOMAIN list = 1 .. n
  BY LenProperties
<1>2. IsFiniteSet(1 .. n)
  BY <1>1, FS_Interval
<1>3. At_(list) \subseteq 1 .. n
  BY <1>1
<1>4. IsFiniteSet(At_(list)) /\ Times(e, list) = Cardinality(At_(list))
  BY <1>2, <1>3, FS_Subset DEF Times
<1>5. Times(e, list) \in Nat
  BY <1>4, FS_CardinalityType
<1>6. Times(e, list) = 0 <=> e \notin Range(list)
  <2>1. Times(e, list) = 0 <=> At_(list) = {}
    BY <1>4, FS_EmptySet
  <2> QED
    BY <2>1 DEF Range
<1>7. ASSUME NEW x \in S
      PROVE  Times(e, Append(list, x)) = Times(e, list) + IF x = e THEN 1 ELSE 0
  <2> DEFINE q == Append(list, x)
  <2>1. /\ DOMAIN q = 1 .. n + 1 /\ q[n + 1] = x /\ \A i \in 1 .. n : q[i] = list[i]
    BY <1>1
  <2> HIDE DEF q
  <2>2. At_(q) = IF x = e THEN At_(list) \cup {n + 1} ELSE At_(list)
    <3> HIDE DEF n
    <3> QED
      BY <1>1, <2>1
  <2>3. n + 1 \notin At_(list)
    BY <1>1, <1>3
  <2>4. Cardinality(At_(list) \cup {n + 1}) = Cardinality(At_(list)) + 1
    BY <1>4, <2>3, FS_AddElement
  <2>5. Times(e, q) = Cardinality(At_(q))
    BY DEF Times
  <2> HIDE DEF At_, n
  <2>6. Cardinality(At_(q)) = Cardinality(At_(list)) + IF x = e THEN 1 ELSE 0
    BY <1>4, <1>5, <2>2, <2>4
  <2> QED
    BY <1>4, <2>5, <2>6 DEF q
<1> QED
  BY <1>5, <1>6, <1>7

LEMMA FrontFacts ==
    ASSUME NEW S, NEW seq \in Seq(S), Len(seq) > 0
    PROVE  /\ Front(seq) \in Seq(S) /\ Len(Front(seq)) = Len(seq) - 1
           /\ \A i \in 1 .. Len(seq) - 1 : Front(seq)[i] = seq[i]
<1> DEFINE n == Len(seq)  p == Front(seq)
<1>1. n \in Nat /\ \A i \in 1 .. n : seq[i] \in S
  BY LenProperties
<1>2. \A i \in 1 .. n - 1 : seq[i] \in S
  BY <1>1
<1>3. /\ p \in Seq(S) /\ Len(p) = IF 1 <= n - 1 THEN (n - 1) - 1 + 1 ELSE 0
      /\ \A i \in 1 .. (n - 1) - 1 + 1 : p[i] = seq[1 + i - 1]
  BY <1>1, <1>2, SubSeqProperties DEF Front
<1>4. n > 0
  OBVIOUS
<1> HIDE DEF n, p
<1>5. Len(p) = n - 1
  BY <1>1, <1>3, <1>4
<1>6. ASSUME NEW i \in 1 .. n - 1 PROVE p[i] = seq[i]
  <2>1. i \in 1 .. (n - 1) - 1 + 1 /\ 1 + i - 1 = i
    BY <1>1
  <2> QED
    BY <1>3, <2>1
<1> QED
  BY <1>3, <1>5, <1>6 DEF n, p

LEMMA CalledFacts ==
    ASSUME NEW S, NEW seq \in Seq(S), Len(seq) > 0, NEW f \in S
    PROVE  LET q == Append(Front(seq), f) IN
           /\ q \in Seq(S) /\ Len(q) = Len(seq)
           /\ \A i \in 1 .. Len(seq) : q[i] = IF i = Len(seq) THEN f ELSE seq[i]
<1> DEFINE p == Front(seq)
<1>1. p \in Seq(S) /\ Len(p) = Len(seq) - 1 /\ \A i \in 1 .. Len(seq) - 1 : p[i] = seq[i]
  BY FrontFacts
<1> HIDE DEF p
<1>2. /\ Append(p, f) \in Seq(S) /\ Len(Append(p, f)) = Len(seq)
      /\ \A i \in 1 .. Len(seq) : Append(p, f)[i] = IF i = Len(seq) THEN f ELSE seq[i]
  BY <1>1, LenProperties
<1> QED
  BY <1>2 DEF p

LEMMA PushedFacts ==
    ASSUME NEW S, NEW seq \in Seq(S), NEW g \in S
    PROVE  LET r == seq \o <<g>> IN
           /\ r \in Seq(S) /\ Len(r) = Len(seq) + 1 /\ r[Len(seq) + 1] = g
           /\ \A i \in 1 .. Len(seq) : r[i] = seq[i]
<1>1. <<g>> \in Seq(S) /\ Len(<<g>>) = 1 /\ <<g>>[1] = g /\ Len(seq) \in Nat
  BY LenProperties
<1> DEFINE h == <<g>>
<1> HIDE DEF h
<1>2. /\ seq \o h \in Seq(S) /\ Len(seq \o h) = Len(seq) + 1
      /\ \A i \in 1 .. Len(seq) + 1 : (seq \o h)[i] = IF i <= Len(seq) THEN seq[i] ELSE h[i - Len(seq)]
  BY <1>1, ConcatProperties DEF h
<1> QED
  BY <1>1, <1>2 DEF h

-----------------------------------------------------------------------------
(***************************************************************************)
(* The preparation: a depth-first walk.  Whoever is done has all that it   *)
(* needs done and does not need itself; the frames are a path of calls, and *)
(* each dependency that is no longer to do was visited, and knows it.      *)
(***************************************************************************)
Done == {s \in Steps : state[s] = "precheck_done"}
Frames == [step : Steps \cup {NoStep}, todo : SUBSET Nat]
Calls(f) == Range(ListOf(f))
Left(f) == {ListOf(f)[k] : k \in f.todo}

FramesPart ==
    /\ project \in Projects
    /\ frames \in Seq(Frames) /\ Len(frames) > 0
    /\ frames[1].step = NoStep
    /\ \A i \in 2 .. Len(frames) : frames[i].step \in Steps
    /\ \A i \in 1 .. Len(frames) : frames[i].todo \subseteq DOMAIN ListOf(frames[i])

\* the states mirror the frames
StatesPart ==
    /\ state \in [Steps -> {"precheck_unstarted", "precheck_started", "precheck_done"}]
    /\ \A i \in 2 .. Len(frames) : state[frames[i].step] = "precheck_started"
    /\ \A s \in Steps : state[s] = "precheck_started" => \E i \in 2 .. Len(frames) : frames[i].step = s
    /\ \A i, j \in 1 .. Len(frames) : frames[i].step = frames[j].step => i = j

StackPart ==
    /\ stepStack \in Seq(Steps) /\ IsInjective(stepStack)
    /\ Range(project.targets) \subseteq Range(stepStack) /\ Range(stepStack) \subseteq Needed
    /\ \A s \in Steps : state[s] # "precheck_unstarted" => s \in Range(stepStack)
    /\ \A s \in Range(stepStack) : s \in Left(frames[1]) \/ state[s] # "precheck_unstarted"

WalkPart ==
    /\ \A i \in 1 .. Len(frames) : \A d \in Calls(frames[i]) :
          d \in Left(frames[i]) \/ d \in Done \/ (i < Len(frames) /\ frames[i + 1].step = d)
    /\ \A s \in Done : deps[s] \subseteq Done /\ s \notin Upstream(s)
    /\ \A i, j \in 2 .. Len(frames) : i < j => frames[j].step \in Upstream(frames[i].step)

\* the positions at which t names s and that were visited: s knows of each
Named(s, t) == {k \in DOMAIN project.deps[t] : project.deps[t][k] = s}
Seen(s, t) == {k \in Named(s, t) :
                  \/ t \in Done
                  \/ \E i \in 2 .. Len(frames) : frames[i].step = t /\ k \notin frames[i].todo}
EdgesPart ==
    /\ dependants \in [Steps -> Seq(Steps)]
    /\ \A s, t \in Steps : Times(t, dependants[s]) = Cardinality(Seen(s, t))

PrepInv == FramesPart /\ StatesPart /\ StackPart /\ WalkPart /\ EdgesPart

LEMMA ListedFacts ==
    ASSUME project \in Projects, NEW f \in Frames
    PROVE  /\ ListOf(f) \in Seq(Steps) /\ Calls(f) \subseteq Steps
           /\ Calls(f) = IF f.step = NoStep THEN Range(project.targets) ELSE deps[f.step]
           /\ f.todo \subseteq DOMAIN ListOf(f) => Left(f) \subseteq Calls(f)
<1>1. ListOf(f) \in Seq(Steps)
  BY ProjectFacts DEF ListOf, Frames
<1>2. Calls(f) = IF f.step = NoStep THEN Range(project.targets) ELSE deps[f.step]
  BY ProjectFacts DEF Calls, ListOf, Frames
<1>3. Calls(f) \subseteq Steps
  BY <1>1, LenProperties DEF Calls, Range
<1>4. f.todo \subseteq DOMAIN ListOf(f) => Left(f) \subseteq Calls(f)
  BY DEF Left, Calls, Range
<1> QED
  BY <1>1, <1>2, <1>3, <1>4

LEMMA FrameFacts ==
    ASSUME FramesPart
    PROVE  /\ Len(frames) \in Nat \ {0} /\ Top = frames[Len(frames)]
           /\ \A i \in 1 .. Len(frames) : frames[i] \in Frames
           /\ Top.step = NoStep <=> Len(frames) = 1
           /\ \A i \in 1 .. Len(frames) :
                 /\ ListOf(frames[i]) \in Seq(Steps) /\ Calls(frames[i]) \subseteq Steps
                 /\ Calls(frames[i]) = IF frames[i].step = NoStep THEN Range(project.targets)
                                       ELSE deps[frames[i].step]
                 /\ Left(frames[i]) \subseteq Calls(frames[i])
<1>1. /\ Len(frames) \in Nat \ {0} /\ Top = frames[Len(frames)]
      /\ \A i \in 1 .. Len(frames) : frames[i] \in Frames
  BY LenProperties, ElementOfSeq DEF FramesPart, Top, Last
<1>2. Top.step = NoStep <=> Len(frames) = 1
  <2> DEFINE n == Len(frames)
  <2>1. n \in Nat \ {0} /\ Top = frames[n] /\ frames[1].step = NoStep
        /\ \A i \in 2 .. n : frames[i].step \in Steps
    BY <1>1 DEF FramesPart
  <2> HIDE DEF n
  <2>2. n = 1 \/ n \in 2 .. n
    BY <2>1
  <2>3. n = 1 <=> Top.step = NoStep
    BY <2>1, <2>2, ProjectsAssumption
  <2> QED
    BY <2>3 DEF n
<1>3. ASSUME NEW i \in 1 .. Len(frames)
      PROVE  /\ ListOf(frames[i]) \in Seq(Steps) /\ Calls(frames[i]) \subseteq Steps
             /\ Calls(frames[i]) = IF frames[i].step = NoStep THEN Range(project.targets)
                                   ELSE deps[frames[i].step]
             /\ Left(frames[i]) \subseteq Calls(frames[i])
  BY <1>1, ListedFacts DEF FramesPart
<1> QED
  BY <1>1, <1>2, <1>3

\* What a call does to the frames: it is no longer to do, and a step not seen
\* before gets a frame.
LEMMA VisitFrames ==
    ASSUME PrepInv, NEW k \in Top.todo, Visit(k), NEW s, s = ListOf(Top)[k],
           state[s] # "precheck_started"
    PROVE  LET n == Len(frames)
               new == state[s] = "precheck_unstarted" IN
           /\ n \in Nat \ {0} /\ k \in frames[n].todo /\ s = ListOf(frames[n])[k]
           /\ s \in Steps /\ s \in Calls(frames[n])
           /\ frames' \in Seq(Frames) /\ Len(frames') = IF new THEN n + 1 ELSE n
           /\ \A i \in 1 .. n : /\ frames'[i].step = frames[i].step
                                /\ frames'[i].todo = IF i = n THEN frames[n].todo \ {k} ELSE frames[i].todo
           /\ new => frames'[n + 1] = [step |-> s, todo |-> DOMAIN project.deps[s]]
           /\ state' = IF new THEN [state EXCEPT ![s] = "precheck_started"] ELSE state
           /\ Done' = Done /\ UNCHANGED project
<1> DEFINE n == Len(frames)
           new == state[s] = "precheck_unstarted"
           f == [Top EXCEPT !.todo = @ \ {k}]
           g == [step |-> s, todo |-> DOMAIN project.deps[s]]
<1>1. n \in Nat \ {0} /\ Top = frames[n] /\ Top \in Frames /\ n \in 1 .. n
  BY FrameFacts DEF PrepInv
<1>2. s \in Calls(Top) /\ s \in Steps /\ UNCHANGED project
  <2>1. k \in DOMAIN ListOf(Top) /\ UNCHANGED project
    BY <1>1 DEF Visit, PrepInv, FramesPart
  <2>2. Calls(Top) \subseteq Steps
    BY <1>1, FrameFacts DEF PrepInv
  <2> QED
    BY <2>1, <2>2 DEF Calls, Range
<1>3. f \in Frames /\ g \in Frames /\ f.step = Top.step /\ f.todo = Top.todo \ {k}
  <2>1. project.deps[s] \in Seq(Steps)
    BY <1>2, ProjectFacts DEF PrepInv, FramesPart
  <2>2. DOMAIN project.deps[s] \in SUBSET Nat
    BY <2>1, LenProperties
  <2> QED
    BY <1>1, <1>2, <2>2 DEF Frames
<1>4. frames \in Seq(Frames) /\ Len(frames) > 0 /\ Descend(s, k)
  BY DEF PrepInv, FramesPart, Visit
<1> HIDE DEF f, g
<1>5. CASE new
  <2>1. frames' = Append(Front(frames), f) \o <<g>> /\ state' = [state EXCEPT ![s] = "precheck_started"]
    BY <1>4, <1>5 DEF Descend, Went, Entered, f, g
  <2>2. /\ frames' \in Seq(Frames) /\ Len(frames') = n + 1 /\ frames'[n + 1] = g
        /\ \A i \in 1 .. n : frames'[i] = IF i = n THEN f ELSE frames[i]
    <3> DEFINE q == Append(Front(frames), f)
    <3>1. /\ q \in Seq(Frames) /\ Len(q) = n
          /\ \A i \in 1 .. n : q[i] = IF i = n THEN f ELSE frames[i]
      BY <1>3, <1>4, CalledFacts
    <3>2. frames' = q \o <<g>>
      BY <2>1
    <3> HIDE DEF q, n
    <3> QED
      BY <1>3, <3>1, <3>2, PushedFacts
  <2>3. Done' = Done
    BY <1>5, <2>1 DEF Done, PrepInv, StatesPart
  <2> QED
    BY <1>1, <1>2, <1>3, <1>5, <2>1, <2>2, <2>3 DEF g
<1>6. CASE ~new
  <2>1. frames' = Append(Front(frames), f) /\ UNCHANGED state
    BY <1>4, <1>6 DEF Descend, Went, f
  <2>2. /\ frames' \in Seq(Frames) /\ Len(frames') = n
        /\ \A i \in 1 .. n : frames'[i] = IF i = n THEN f ELSE frames[i]
    BY <1>3, <1>4, <2>1, CalledFacts
  <2>3. Done' = Done
    BY <2>1 DEF Done
  <2> QED
    BY <1>1, <1>2, <1>3, <1>6, <2>1, <2>2, <2>3
<1> QED
  BY <1>5, <1>6

\* What the project fixes stays with it.
LEMMA ProjectStays ==
    ASSUME UNCHANGED project
    PROVE  /\ deps' = deps /\ maxRss' = maxRss /\ Needed' = Needed /\ Cyclic' = Cyclic
           /\ \A s : Upstream(s)' = Upstream(s)
<1>1. deps' = deps /\ maxRss' = maxRss
  BY DEF deps, maxRss
<1>2. \A s : Upstream(s)' = Upstream(s)
  BY <1>1 DEF Upstream, Reached
<1>3. Needed' = Needed
  BY <1>2 DEF Needed
<1> QED
  BY <1>1, <1>2, <1>3 DEF Cyclic

\* and to what is left to visit: the others wait as before, and a step not seen
\* before has all its dependencies to visit.
LEMMA VisitOld ==
    ASSUME PrepInv, NEW k \in Top.todo, Visit(k), NEW s, s = ListOf(Top)[k],
           state[s] # "precheck_started", NEW i \in 1 .. Len(frames)
    PROVE  /\ ListOf(frames[i])' = ListOf(frames[i]) /\ Calls(frames[i])' = Calls(frames[i])
           /\ \A d \in Left(frames[i]) : d \in Left(frames[i])' \/ (i = Len(frames) /\ d = s)
<1> DEFINE n == Len(frames)
<1>1. /\ n \in Nat \ {0} /\ s = ListOf(frames[n])[k]
      /\ frames'[i].step = frames[i].step
      /\ frames'[i].todo = IF i = n THEN frames[n].todo \ {k} ELSE frames[i].todo
      /\ UNCHANGED project
  BY VisitFrames
<1>2. ListOf(frames[i])' = ListOf(frames[i])
  BY <1>1 DEF ListOf
<1>3. Calls(frames[i])' = Calls(frames[i])
  BY <1>2 DEF Calls
<1>4. Left(frames[i])' = {ListOf(frames[i])[j] : j \in frames'[i].todo}
  BY <1>2 DEF Left
<1>5. Left(frames[i]) = {ListOf(frames[i])[j] : j \in frames[i].todo}
  BY DEF Left
<1>6. \A j \in frames[i].todo : j \in frames'[i].todo \/ (i = n /\ j = k)
  BY <1>1
<1> QED
  BY <1>1, <1>2, <1>3, <1>4, <1>5, <1>6

LEMMA VisitNew ==
    ASSUME PrepInv, NEW k \in Top.todo, Visit(k), NEW s, s = ListOf(Top)[k],
           state[s] = "precheck_unstarted", NEW i, i = Len(frames) + 1
    PROVE  /\ ListOf(frames[i])' = project.deps[s] /\ frames'[i].step = s
           /\ frames'[i].todo = DOMAIN project.deps[s]
           /\ Calls(frames[i])' = deps[s] /\ Left(frames[i])' = deps[s]
<1>1. /\ s \in Steps /\ UNCHANGED project
      /\ frames'[i] = [step |-> s, todo |-> DOMAIN project.deps[s]]
  BY VisitFrames
<1>2. /\ frames'[i].step = s /\ frames'[i].todo = DOMAIN project.deps[s]
      /\ s # NoStep /\ deps[s] = Range(project.deps[s])
  BY <1>1, ProjectFacts, ProjectsAssumption DEF PrepInv, FramesPart
<1>3. ListOf(frames[i])' = project.deps[s]
  BY <1>1, <1>2 DEF ListOf
<1> QED
  BY <1>2, <1>3 DEF Calls, Left, Range

LEMMA VisitFramesPart ==
    ASSUME PrepInv, NEW k \in Top.todo, Visit(k), NEW s, s = ListOf(Top)[k],
           state[s] # "precheck_started"
    PROVE  FramesPart' /\ StatesPart'
<1> DEFINE n == Len(frames)
           new == state[s] = "precheck_unstarted"
<1>1. /\ n \in Nat \ {0} /\ s \in Steps
      /\ frames' \in Seq(Frames) /\ Len(frames') = IF new THEN n + 1 ELSE n
      /\ \A i \in 1 .. n : /\ frames'[i].step = frames[i].step
                           /\ frames'[i].todo = IF i = n THEN frames[n].todo \ {k} ELSE frames[i].todo
      /\ state' = IF new THEN [state EXCEPT ![s] = "precheck_started"] ELSE state
      /\ UNCHANGED project
  BY VisitFrames
<1>2. \A i \in 1 .. n : ListOf(frames[i])' = ListOf(frames[i])
  BY VisitOld
<1>3. new => \A i : i = n + 1 => /\ ListOf(frames[i])' = project.deps[s]
                                  /\ frames'[i].step = s /\ frames'[i].todo = DOMAIN project.deps[s]
  BY VisitNew
<1> HIDE DEF n, new
<1>4. FramesPart'
  <2>1. /\ project' \in Projects /\ frames' \in Seq(Frames) /\ Len(frames') > 0
        /\ frames'[1].step = NoStep
    BY <1>1 DEF PrepInv, FramesPart
  <2>2. \A i \in 2 .. Len(frames)' : frames'[i].step \in Steps
    BY <1>1, <1>3 DEF PrepInv, FramesPart, n
  <2>3. \A i \in 1 .. Len(frames)' : frames'[i].todo \subseteq DOMAIN ListOf(frames[i])'
    <3> SUFFICES ASSUME NEW i \in 1 .. Len(frames)'
                 PROVE  frames'[i].todo \subseteq DOMAIN ListOf(frames[i])'
      OBVIOUS
    <3>1. CASE i \in 1 .. n
      <4>1. frames[i].todo \subseteq DOMAIN ListOf(frames[i])
        BY <3>1 DEF PrepInv, FramesPart, n
      <4> QED
        BY <1>1, <1>2, <3>1, <4>1
    <3>2. CASE new /\ i = n + 1
      BY <1>3, <3>2
    <3> QED
      BY <1>1, <3>1, <3>2
  <2> QED
    BY <2>1, <2>2, <2>3 DEF FramesPart
<1>5. StatesPart'
  <2>1. state' \in [Steps -> {"precheck_unstarted", "precheck_started", "precheck_done"}]
    BY <1>1 DEF PrepInv, StatesPart
  <2>2. \A i \in 2 .. n : frames[i].step \in Steps /\ state[frames[i].step] = "precheck_started"
    BY DEF PrepInv, FramesPart, StatesPart, n
  <2>3. \A i \in 2 .. Len(frames)' : state'[frames'[i].step] = "precheck_started"
    BY <1>1, <1>3, <2>2 DEF PrepInv, StatesPart, new
  <2>4. \A u \in Steps : state'[u] = "precheck_started"
            => \E i \in 2 .. Len(frames)' : frames'[i].step = u
    <3> SUFFICES ASSUME NEW u \in Steps, state'[u] = "precheck_started"
                 PROVE  \E i \in 2 .. Len(frames)' : frames'[i].step = u
      OBVIOUS
    <3>1. CASE u = s /\ new
      BY <1>1, <1>3, <3>1
    <3>2. CASE ~(u = s /\ new)
      <4>1. state[u] = "precheck_started"
        BY <1>1, <3>2 DEF PrepInv, StatesPart
      <4>2. PICK i \in 2 .. n : frames[i].step = u
        BY <4>1 DEF PrepInv, StatesPart, n
      <4>3. 2 .. n \subseteq 2 .. Len(frames') /\ 2 .. n \subseteq 1 .. n
        BY <1>1
      <4>4. frames'[i].step = u
        BY <1>1, <4>2, <4>3
      <4> QED
        BY <4>2, <4>3, <4>4
    <3> QED
      BY <3>1, <3>2
  <2>5. \A i, j \in 1 .. Len(frames)' : frames'[i].step = frames'[j].step => i = j
    <3>1. \A i, j \in 1 .. n : frames'[i].step = frames'[j].step => i = j
      BY <1>1 DEF PrepInv, StatesPart, n
    <3>2. new => \A i \in 1 .. n : frames[i].step # s
      <4>1. frames[1].step = NoStep
        BY DEF PrepInv, FramesPart
      <4> QED
        BY <1>1, <2>2, <4>1, ProjectsAssumption DEF new
    <3>3. CASE new
      <4>1. 1 .. Len(frames') = (1 .. n) \cup {n + 1} /\ frames'[n + 1].step = s
        BY <1>1, <1>3, <3>3
      <4>2. \A i \in 1 .. n : frames'[i].step # s
        BY <1>1, <3>2, <3>3
      <4> QED
        BY <3>1, <4>1, <4>2
    <3>4. CASE ~new
      BY <1>1, <3>1, <3>4
    <3> QED
      BY <3>3, <3>4
  <2> QED
    BY <2>1, <2>3, <2>4, <2>5 DEF StatesPart
<1> QED
  BY <1>4, <1>5


\* A step that is called is needed.
LEMMA CalledNeeded ==
    ASSUME PrepInv, NEW s \in Calls(Top)
    PROVE  s \in Needed /\ s \in Steps
<1>1. Calls(Top) = IF Top.step = NoStep THEN Range(project.targets) ELSE deps[Top.step]
  BY FrameFacts DEF PrepInv
<1>2. CASE Top.step = NoStep
  BY <1>1, <1>2, NeededFacts DEF PrepInv, FramesPart
<1>3. CASE Top.step # NoStep
  <2>1. Top.step \in Needed
    <3>1. Top.step \in Steps /\ state[Top.step] = "precheck_started"
      BY <1>3, FrameFacts DEF PrepInv, FramesPart, StatesPart
    <3> QED
      BY <3>1 DEF PrepInv, StackPart
  <2> QED
    BY <1>1, <1>3, <2>1, NeededFacts DEF PrepInv, FramesPart
<1> QED
  BY <1>2, <1>3

LEMMA PutFacts ==
    ASSUME NEW s \in Steps, stepStack \in Seq(Steps), IsInjective(stepStack)
    PROVE  /\ Put(s) \in Seq(Steps) /\ IsInjective(Put(s)) /\ Range(Put(s)) = Range(stepStack) \cup {s}
  BY AppendNew DEF Put

LEMMA VisitStack ==
    ASSUME PrepInv, NEW k \in Top.todo, Visit(k), NEW s, s = ListOf(Top)[k],
           state[s] # "precheck_started"
    PROVE  StackPart'
<1> DEFINE n == Len(frames)
           new == state[s] = "precheck_unstarted"
<1>1. /\ n \in Nat \ {0} /\ s \in Calls(frames[n]) /\ s \in Steps
      /\ state' = IF new THEN [state EXCEPT ![s] = "precheck_started"] ELSE state
      /\ UNCHANGED project
  BY VisitFrames
<1>2. s \in Needed
  BY <1>1, CalledNeeded, FrameFacts DEF PrepInv
<1>3. stepStack' \in Seq(Steps) /\ IsInjective(stepStack') /\ Range(stepStack') = Range(stepStack) \cup {s}
  <2>1. stepStack' = Put(s)
    BY DEF Visit
  <2> QED
    BY <1>1, <2>1, PutFacts DEF PrepInv, StackPart
<1>4. Needed' = Needed
  BY <1>1, ProjectStays
<1>5. \A i \in 1 .. n :
          /\ Calls(frames[i])' = Calls(frames[i])
          /\ \A d \in Left(frames[i]) : d \in Left(frames[i])' \/ (i = n /\ d = s)
  BY VisitOld
<1>6. \A t \in Range(stepStack') : t \in Left(frames[1])' \/ state'[t] # "precheck_unstarted"
  <2> HIDE DEF n, new
  <2>1. 1 \in 1 .. n
    BY <1>1
  <2>2. Left(frames[1]) \ {s} \subseteq Left(frames[1])'
    BY <1>5, <2>1
  <2>3. state'[s] # "precheck_unstarted" /\ \A t \in Steps : t # s => state'[t] = state[t]
    BY <1>1 DEF PrepInv, StatesPart, new
  <2>4. Range(stepStack) \subseteq Steps
    BY NeededFacts DEF PrepInv, FramesPart, StackPart
  <2> QED
    BY <1>3, <2>2, <2>3, <2>4 DEF PrepInv, StackPart
<1>7. \A t \in Steps : state'[t] # "precheck_unstarted" => t \in Range(stepStack')
  BY <1>1, <1>3 DEF PrepInv, StackPart, StatesPart
<1> HIDE DEF n, new
<1> QED
  BY <1>1, <1>2, <1>3, <1>4, <1>6, <1>7 DEF PrepInv, StackPart

LEMMA VisitWalk ==
    ASSUME PrepInv, NEW k \in Top.todo, Visit(k), NEW s, s = ListOf(Top)[k],
           state[s] # "precheck_started"
    PROVE  WalkPart'
<1> DEFINE n == Len(frames)
           new == state[s] = "precheck_unstarted"
<1>1. /\ n \in Nat \ {0} /\ s \in Calls(frames[n]) /\ s \in Steps
      /\ frames' \in Seq(Frames) /\ Len(frames') = IF new THEN n + 1 ELSE n
      /\ \A i \in 1 .. n : frames'[i].step = frames[i].step
      /\ new => frames'[n + 1].step = s
      /\ Done' = Done /\ UNCHANGED project
  <2>1. /\ n \in Nat \ {0} /\ s \in Calls(frames[n]) /\ s \in Steps
        /\ frames' \in Seq(Frames) /\ Len(frames') = IF new THEN n + 1 ELSE n
        /\ \A i \in 1 .. n : frames'[i].step = frames[i].step
        /\ new => frames'[n + 1] = [step |-> s, todo |-> DOMAIN project.deps[s]]
        /\ Done' = Done /\ UNCHANGED project
    BY VisitFrames
  <2> QED
    BY <2>1
<1>2. deps' = deps /\ \A t : Upstream(t)' = Upstream(t)
  BY <1>1, ProjectStays
<1>3. \A i \in 1 .. n :
          /\ Calls(frames[i])' = Calls(frames[i])
          /\ \A d \in Left(frames[i]) : d \in Left(frames[i])' \/ (i = n /\ d = s)
  BY VisitOld
<1>4. new => \A i : i = n + 1 => Calls(frames[i])' = deps[s] /\ Left(frames[i])' = deps[s]
  BY VisitNew
<1>5. ~new => s \in Done
  BY <1>1 DEF PrepInv, StatesPart, Done
<1>6. \A i, j \in 2 .. n : i < j => frames[j].step \in Upstream(frames[i].step)
  BY DEF PrepInv, WalkPart
<1>7. \A i \in 1 .. n : \A d \in Calls(frames[i]) :
          d \in Left(frames[i]) \/ d \in Done \/ (i < n /\ frames[i + 1].step = d)
  BY DEF PrepInv, WalkPart
<1> HIDE DEF n, new
<1>8. \A i \in 1 .. Len(frames)' : \A d \in Calls(frames[i])' :
          d \in Left(frames[i])' \/ d \in Done' \/ (i < Len(frames)' /\ frames'[i + 1].step = d)
  <2> SUFFICES ASSUME NEW i \in 1 .. Len(frames)', NEW d \in Calls(frames[i])'
               PROVE  d \in Left(frames[i])' \/ d \in Done \/ (i < Len(frames)' /\ frames'[i + 1].step = d)
    BY <1>1
  <2>1. CASE i \in 1 .. n /\ i < n
    <3>1. i + 1 \in 1 .. n /\ frames'[i + 1].step = frames[i + 1].step /\ i < Len(frames)'
      BY <1>1, <2>1
    <3> QED
      BY <1>1, <1>3, <1>7, <2>1, <3>1
  <2>2. CASE i = n
    <3>1. d \in Calls(frames[n]) /\ (d \in Left(frames[n]) => d \in Left(frames[i])' \/ d = s)
      BY <1>1, <1>3, <2>2
    <3>2. d \in Left(frames[n]) \/ d \in Done
      BY <1>1, <1>7, <3>1
    <3>3. d = s /\ new => i < Len(frames)' /\ frames'[i + 1].step = d
      BY <1>1, <2>2
    <3> QED
      BY <1>5, <3>1, <3>2, <3>3
  <2>3. CASE new /\ i = n + 1
    BY <1>4, <2>3
  <2> QED
    BY <1>1, <2>1, <2>2, <2>3
<1>9. new => \A i \in 2 .. n : s \in Upstream(frames[i].step)
  <2> SUFFICES ASSUME NEW i \in 2 .. n PROVE s \in Upstream(frames[i].step)
    OBVIOUS
  <2>1. /\ n \in 2 .. n /\ frames[n].step \in Steps /\ frames[i].step \in Steps
        /\ project \in Projects
    BY <1>1 DEF PrepInv, FramesPart, n
  <2>2. s \in deps[frames[n].step]
    BY <1>1, <2>1, FrameFacts, ProjectsAssumption DEF PrepInv, n
  <2>3. i = n \/ frames[n].step \in Upstream(frames[i].step)
    BY <1>1, <1>6, <2>1
  <2> QED
    BY <2>1, <2>2, <2>3, UpstreamFacts
<1>10. \A i, j \in 2 .. Len(frames)' : i < j => frames'[j].step \in Upstream(frames'[i].step)
  <2> SUFFICES ASSUME NEW i \in 2 .. Len(frames)', NEW j \in 2 .. Len(frames)', i < j
               PROVE  frames'[j].step \in Upstream(frames'[i].step)
    OBVIOUS
  <2>1. i \in 2 .. n /\ frames'[i].step = frames[i].step
    BY <1>1
  <2>2. CASE j \in 2 .. n
    BY <1>1, <1>6, <2>1, <2>2
  <2>3. CASE new /\ j = n + 1
    BY <1>1, <1>9, <2>1, <2>3
  <2> QED
    BY <1>1, <2>2, <2>3
<1>11. \A t \in Done : deps[t] \subseteq Done /\ t \notin Upstream(t)
  BY DEF PrepInv, WalkPart
<1> QED
  BY <1>1, <1>2, <1>8, <1>10, <1>11 DEF WalkPart

LEMMA VisitEdges ==
    ASSUME PrepInv, NEW k \in Top.todo, Visit(k), NEW s, s = ListOf(Top)[k],
           state[s] # "precheck_started"
    PROVE  EdgesPart'
<1> DEFINE n == Len(frames)
           new == state[s] = "precheck_unstarted"
           t == Top.step
<1>1. /\ n \in Nat \ {0} /\ k \in frames[n].todo /\ s = ListOf(frames[n])[k] /\ s \in Steps
      /\ Len(frames') = IF new THEN n + 1 ELSE n
      /\ \A i \in 1 .. n : /\ frames'[i].step = frames[i].step
                           /\ frames'[i].todo = IF i = n THEN frames[n].todo \ {k} ELSE frames[i].todo
      /\ new => frames'[n + 1] = [step |-> s, todo |-> DOMAIN project.deps[s]]
      /\ Done' = Done /\ UNCHANGED project
  BY VisitFrames
<1>2. Top = frames[n] /\ (n = 1 <=> t = NoStep)
  BY FrameFacts DEF PrepInv
<1>3. dependants' = IF n = 1 THEN dependants ELSE [dependants EXCEPT ![s] = Append(@, t)]
  BY <1>2 DEF Visit, Tell
<1>4. /\ \A i \in 2 .. n : frames[i].step \in Steps
      /\ \A i, j \in 1 .. n : frames[i].step = frames[j].step => i = j
      /\ \A i \in 2 .. n : state[frames[i].step] = "precheck_started"
      /\ frames[n].todo \subseteq DOMAIN ListOf(frames[n])
  BY <1>1 DEF PrepInv, FramesPart, StatesPart
<1> HIDE DEF n, new
<1>5. n # 1 => /\ n \in 2 .. n /\ t = frames[n].step /\ t \in Steps /\ t \notin Done
               /\ k \in Named(s, t)
  <2> SUFFICES ASSUME n # 1
               PROVE  /\ n \in 2 .. n /\ t = frames[n].step /\ t \in Steps /\ t \notin Done
                      /\ k \in Named(s, t)
    OBVIOUS
  <2>1. n \in 2 .. n /\ t = frames[n].step
    BY <1>1, <1>2
  <2>2. t \in Steps /\ state[t] = "precheck_started"
    BY <1>4, <2>1
  <2>3. t \notin Done
    BY <2>2 DEF Done
  <2>4. ListOf(frames[n]) = project.deps[t]
    BY <2>1, <2>2, ProjectsAssumption DEF ListOf
  <2> QED
    BY <1>1, <1>4, <2>1, <2>2, <2>3, <2>4 DEF Named
<1>6. ASSUME NEW d \in Steps, NEW u \in Steps
      PROVE  Seen(d, u)' = IF d = s /\ n # 1 /\ u = t THEN Seen(s, t) \cup {k} ELSE Seen(d, u)
  <2>1. Named(d, u)' = Named(d, u)
    BY <1>1 DEF Named
  <2>2. Seen(d, u) = {j \in Named(d, u) :
            u \in Done \/ \E i \in 2 .. n : frames[i].step = u /\ j \notin frames[i].todo}
    BY DEF Seen, n
  <2>3. Seen(d, u)' = {j \in Named(d, u) :
            u \in Done \/ \E i \in 2 .. n : frames[i].step = u /\ j \notin frames'[i].todo}
    <3>1. ASSUME NEW j \in Named(d, u)
          PROVE  (\E i \in 2 .. Len(frames)' : frames'[i].step = u /\ j \notin frames'[i].todo)
                 <=> \E i \in 2 .. n : frames[i].step = u /\ j \notin frames'[i].todo
      <4>1. new => ~(frames'[n + 1].step = u /\ j \notin frames'[n + 1].todo)
        BY <1>1 DEF Named
      <4>2. \A i \in 2 .. n : frames'[i].step = frames[i].step
        BY <1>1
      <4>3. CASE new
        <5>1. Len(frames)' = n + 1 /\ 2 .. n + 1 = (2 .. n) \cup {n + 1}
          BY <1>1, <4>3
        <5> QED
          BY <4>1, <4>2, <4>3, <5>1
      <4>4. CASE ~new
        <5>1. Len(frames)' = n
          BY <1>1, <4>4
        <5> QED
          BY <4>2, <5>1
      <4> QED
        BY <4>3, <4>4
    <3>2. Seen(d, u)' = {j \in Named(d, u) :
            u \in Done \/ \E i \in 2 .. Len(frames)' : frames'[i].step = u /\ j \notin frames'[i].todo}
      BY <1>1, <2>1 DEF Seen
    <3> QED
      BY <3>1, <3>2
  <2>4. CASE n # 1 /\ u = t
    <3>1. \A i \in 2 .. n : frames[i].step = t <=> i = n
      BY <1>1, <1>4, <1>5, <2>4
    <3>2. frames'[n].todo = frames[n].todo \ {k} /\ n \in 2 .. n /\ k \in Named(s, t)
      BY <1>1, <1>5, <2>4
    <3>3. Seen(d, u)' = {j \in Named(d, u) : u \in Done \/ j \notin frames[n].todo \ {k}}
      BY <2>3, <2>4, <3>1, <3>2
    <3>4. Seen(d, u) = {j \in Named(d, u) : u \in Done \/ j \notin frames[n].todo}
      BY <2>2, <2>4, <3>1, <3>2
    <3>5. d # s => k \notin Named(d, u)
      BY <2>4, <3>2 DEF Named
    <3> HIDE DEF t
    <3> QED
      BY <2>4, <3>2, <3>3, <3>4, <3>5
  <2>5. CASE ~(n # 1 /\ u = t)
    <3>1. \A i \in 2 .. n : frames[i].step = u => frames'[i].todo = frames[i].todo
      BY <1>1, <1>2, <2>5
    <3> QED
      BY <2>2, <2>3, <2>5, <3>1
  <2> QED
    BY <2>4, <2>5
<1>7. n # 1 => /\ k \notin Seen(s, t) /\ IsFiniteSet(Seen(s, t))
               /\ Cardinality(Seen(s, t) \cup {k}) = Cardinality(Seen(s, t)) + 1
  <2> SUFFICES ASSUME n # 1
               PROVE  /\ k \notin Seen(s, t) /\ IsFiniteSet(Seen(s, t))
                      /\ Cardinality(Seen(s, t) \cup {k}) = Cardinality(Seen(s, t)) + 1
    OBVIOUS
  <2>1. \A i \in 2 .. n : frames[i].step = t => i = n
    BY <1>1, <1>4, <1>5
  <2>2. k \notin Seen(s, t)
    BY <1>1, <1>5, <2>1 DEF Seen, n
  <2>3. IsFiniteSet(DOMAIN project.deps[t])
    <3>1. project.deps[t] \in Seq(Steps)
      BY <1>5, ProjectFacts DEF PrepInv, FramesPart
    <3>2. Len(project.deps[t]) \in Nat /\ DOMAIN project.deps[t] = 1 .. Len(project.deps[t])
      BY <3>1, LenProperties
    <3> QED
      BY <3>2, FS_Interval
  <2>4. IsFiniteSet(Seen(s, t))
    <3>1. Seen(s, t) \subseteq DOMAIN project.deps[t]
      BY DEF Seen, Named
    <3> QED
      BY <2>3, <3>1, FS_Subset
  <2> QED
    BY <2>2, <2>4, FS_AddElement
<1>8. /\ dependants \in [Steps -> Seq(Steps)]
      /\ \A d, u \in Steps : Times(u, dependants[d]) = Cardinality(Seen(d, u))
  BY DEF PrepInv, EdgesPart
<1>9. CASE n = 1
  <2>1. \A d, u \in Steps : Seen(d, u)' = Seen(d, u)
    BY <1>6, <1>9
  <2> QED
    BY <1>3, <1>8, <1>9, <2>1 DEF EdgesPart
<1>10. CASE n # 1
  <2> DEFINE q == Append(dependants[s], t)
  <2>1. /\ q \in Seq(Steps)
        /\ \A u \in Steps : Times(u, q) = Times(u, dependants[s]) + IF t = u THEN 1 ELSE 0
        /\ \A u \in Steps : Times(u, dependants[s]) \in Nat
    <3>1. dependants[s] \in Seq(Steps) /\ t \in Steps
      BY <1>1, <1>5, <1>8, <1>10
    <3>2. q \in Seq(Steps)
      BY <3>1, AppendNew
    <3> QED
      BY <3>1, <3>2, TimesFacts
  <2>2. dependants' = [dependants EXCEPT ![s] = q]
    BY <1>3, <1>10
  <2> HIDE DEF q, t
  <2>3. dependants' \in [Steps -> Seq(Steps)]
    BY <1>8, <2>1, <2>2
  <2>4. ASSUME NEW d \in Steps, NEW u \in Steps
        PROVE  Times(u, dependants'[d]) = Cardinality(Seen(d, u)')
    <3>1. CASE d # s
      BY <1>6, <1>8, <2>2, <3>1
    <3>2. CASE d = s
      <4>1. dependants'[d] = q
        BY <1>1, <1>8, <2>2, <3>2
      <4>2. Times(u, dependants[s]) = Cardinality(Seen(s, u))
        BY <1>1, <1>8
      <4>3. CASE u = t
        <5>1. Seen(d, u)' = Seen(s, t) \cup {k}
          BY <1>6, <1>10, <3>2, <4>3
        <5>2. Times(u, q) = Times(u, dependants[s]) + 1
          BY <2>1, <4>3
        <5> QED
          BY <1>7, <1>10, <4>1, <4>2, <4>3, <5>1, <5>2
      <4>4. CASE u # t
        <5>1. Seen(d, u)' = Seen(s, u)
          BY <1>6, <3>2, <4>4
        <5>2. Times(u, q) = Times(u, dependants[s])
          BY <2>1, <4>4
        <5> QED
          BY <4>1, <4>2, <5>1, <5>2
      <4> QED
        BY <4>3, <4>4
    <3> QED
      BY <3>1, <3>2
  <2> QED
    BY <2>3, <2>4 DEF EdgesPart
<1> QED
  BY <1>9, <1>10

\* A call of a step that is under way: it needs itself.
LEMMA VisitLoop ==
    ASSUME PrepInv, NEW k \in Top.todo, Visit(k), NEW s, s = ListOf(Top)[k],
           state[s] = "precheck_started"
    PROVE  Cyclic
<1> DEFINE n == Len(frames)
<1>1. /\ n \in Nat \ {0} /\ n \in 1 .. n /\ Top = frames[n] /\ project \in Projects
      /\ s \in Calls(frames[n]) /\ s \in Steps
  <2>1. n \in Nat \ {0} /\ n \in 1 .. n /\ Top = frames[n] /\ project \in Projects
    BY FrameFacts DEF PrepInv, FramesPart
  <2>2. s \in Left(frames[n])
    BY <2>1 DEF Left
  <2>3. Left(frames[n]) \subseteq Calls(frames[n]) /\ Calls(frames[n]) \subseteq Steps
    BY <2>1, FrameFacts DEF PrepInv
  <2> QED
    BY <2>1, <2>2, <2>3
<1>2. PICK i \in 2 .. n : frames[i].step = s
  BY <1>1 DEF PrepInv, StatesPart
<1>3. /\ n \in 2 .. n /\ frames[n].step \in Steps
      /\ i # n => frames[n].step \in Upstream(s)
  BY <1>1, <1>2 DEF PrepInv, FramesPart, WalkPart
<1>4. s \in deps[frames[n].step]
  <2>1. Calls(frames[n]) = deps[frames[n].step]
    BY <1>1, <1>3, FrameFacts, ProjectsAssumption DEF PrepInv
  <2> QED
    BY <1>1, <2>1
<1>5. s \in Upstream(s)
  BY <1>1, <1>2, <1>3, <1>4, UpstreamFacts
<1> QED
  BY <1>1, <1>5, CalledNeeded DEF Cyclic

\* A call that returns: the step is done.
LEMMA VisitedKeeps ==
    ASSUME PrepInv, Visited
    PROVE  PrepInv'
<1> DEFINE n == Len(frames)
           t == Top.step
<1>1. n \in Nat \ {0} /\ n # 1 /\ t = frames[n].step /\ frames[n].todo = {} /\ frames[n] \in Frames
  BY FrameFacts DEF PrepInv, Visited
<1>2. /\ t \in Steps /\ state[t] = "precheck_started"
      /\ \A i \in 2 .. n : frames[i].step = t => i = n
      /\ \A i \in 2 .. n : frames[i].step \in Steps
  <2>1. /\ \A i \in 2 .. n : frames[i].step \in Steps /\ state[frames[i].step] = "precheck_started"
        /\ \A i, j \in 1 .. n : frames[i].step = frames[j].step => i = j
    BY DEF PrepInv, FramesPart, StatesPart
  <2> HIDE DEF n, t
  <2>2. n \in 2 .. n /\ n \in 1 .. n /\ \A i \in 2 .. n : i \in 1 .. n
    BY <1>1
  <2> QED
    BY <1>1, <2>1, <2>2
<1>3. /\ frames' \in Seq(Frames) /\ Len(frames') = n - 1
      /\ \A i \in 1 .. n - 1 : frames'[i] = frames[i]
      /\ state' = [state EXCEPT ![t] = "precheck_done"] /\ UNCHANGED <<project, dependants, stepStack>>
  BY FrontFacts DEF Visited, PrepInv, FramesPart
<1>4. deps' = deps /\ Needed' = Needed /\ \A u : Upstream(u)' = Upstream(u)
  BY <1>3, ProjectStays
<1>5. Done' = Done \cup {t} /\ t \notin Done
  BY <1>2, <1>3 DEF Done, PrepInv, StatesPart
<1>6. /\ \A i \in 1 .. n - 1 : /\ ListOf(frames[i])' = ListOf(frames[i])
                                 /\ Calls(frames[i])' = Calls(frames[i])
                                 /\ Left(frames[i])' = Left(frames[i])
      /\ Left(frames[n]) = {} /\ Calls(frames[n]) = deps[t]
  <2>1. ASSUME NEW i \in 1 .. n - 1
        PROVE  /\ ListOf(frames[i])' = ListOf(frames[i]) /\ Calls(frames[i])' = Calls(frames[i])
               /\ Left(frames[i])' = Left(frames[i])
    <3>1. frames'[i] = frames[i] /\ project' = project
      BY <1>3
    <3>2. ListOf(frames[i])' = ListOf(frames[i])
      BY <3>1 DEF ListOf
    <3> QED
      BY <3>1, <3>2 DEF Calls, Left
  <2>2. Left(frames[n]) = {}
    BY <1>1 DEF Left
  <2>3. n \in 1 .. n /\ t # NoStep
    BY <1>1, <1>2, ProjectsAssumption
  <2>4. Calls(frames[n]) = deps[t]
    BY <1>1, <2>3, FrameFacts DEF PrepInv
  <2> QED
    BY <2>1, <2>2, <2>4
<1> HIDE DEF n, t
<1>7. FramesPart'
  <2>1. project' \in Projects /\ Len(frames') > 0 /\ frames'[1].step = NoStep
    BY <1>1, <1>3 DEF PrepInv, FramesPart
  <2>2. \A i \in 2 .. Len(frames)' : frames'[i].step \in Steps
    BY <1>1, <1>2, <1>3
  <2>3. \A i \in 1 .. n - 1 : frames[i].todo \subseteq DOMAIN ListOf(frames[i])
    BY <1>1 DEF PrepInv, FramesPart, n
  <2>4. \A i \in 1 .. Len(frames)' : frames'[i].todo \subseteq DOMAIN ListOf(frames[i])'
    BY <1>3, <1>6, <2>3
  <2> QED
    BY <1>3, <2>1, <2>2, <2>4 DEF FramesPart
<1>8. StatesPart'
  <2>1. state' \in [Steps -> {"precheck_unstarted", "precheck_started", "precheck_done"}]
    BY <1>3 DEF PrepInv, StatesPart
  <2>2. \A i \in 2 .. Len(frames)' : state'[frames'[i].step] = "precheck_started"
    <3>1. \A i \in 2 .. n - 1 : frames[i].step # t /\ state[frames[i].step] = "precheck_started"
      BY <1>1, <1>2 DEF PrepInv, StatesPart, n
    <3> QED
      BY <1>1, <1>2, <1>3, <3>1 DEF PrepInv, StatesPart
  <2>3. \A u \in Steps : state'[u] = "precheck_started"
            => \E i \in 2 .. Len(frames)' : frames'[i].step = u
    <3> SUFFICES ASSUME NEW u \in Steps, state'[u] = "precheck_started"
                 PROVE  \E i \in 2 .. Len(frames)' : frames'[i].step = u
      OBVIOUS
    <3>1. u # t /\ state[u] = "precheck_started"
      BY <1>2, <1>3 DEF PrepInv, StatesPart
    <3>2. PICK i \in 2 .. n : frames[i].step = u
      BY <3>1 DEF PrepInv, StatesPart, n
    <3>3. i \in 2 .. n - 1
      BY <1>1, <3>1, <3>2
    <3> QED
      BY <1>1, <1>3, <3>2, <3>3
  <2>4. \A i, j \in 1 .. n : frames[i].step = frames[j].step => i = j
    BY DEF PrepInv, StatesPart, n
  <2>5. \A i, j \in 1 .. Len(frames)' : frames'[i].step = frames'[j].step => i = j
    BY <1>1, <1>3, <2>4
  <2> QED
    BY <2>1, <2>2, <2>3, <2>5 DEF StatesPart
<1>9. StackPart'
  <2>1. Left(frames[1])' = Left(frames[1])
    BY <1>1, <1>6
  <2>2. \A u \in Steps : state'[u] # "precheck_unstarted" <=> state[u] # "precheck_unstarted"
    BY <1>2, <1>3 DEF PrepInv, StatesPart
  <2>3. Range(stepStack) \subseteq Steps
    BY NeededFacts DEF PrepInv, FramesPart, StackPart
  <2> QED
    BY <1>3, <1>4, <2>1, <2>2, <2>3 DEF PrepInv, StackPart
<1>10. WalkPart'
  <2>1. \A i \in 1 .. n : \A d \in Calls(frames[i]) :
          d \in Left(frames[i]) \/ d \in Done \/ (i < n /\ frames[i + 1].step = d)
    BY DEF PrepInv, WalkPart, n
  <2>2. \A i \in 1 .. Len(frames)' : \A d \in Calls(frames[i])' :
          d \in Left(frames[i])' \/ d \in Done' \/ (i < Len(frames)' /\ frames'[i + 1].step = d)
    <3> SUFFICES ASSUME NEW i \in 1 .. n - 1, NEW d \in Calls(frames[i])
                 PROVE  d \in Left(frames[i]) \/ d \in Done' \/ (i < n - 1 /\ frames'[i + 1].step = d)
      BY <1>3, <1>6
    <3>1. d \in Left(frames[i]) \/ d \in Done \/ frames[i + 1].step = d
      BY <1>1, <2>1
    <3>2. CASE i + 1 = n
      BY <1>1, <1>5, <3>1, <3>2
    <3>3. CASE i + 1 # n
      <4>1. i < n - 1 /\ i + 1 \in 1 .. n - 1
        BY <1>1, <3>3
      <4> QED
        BY <1>3, <1>5, <3>1, <4>1
    <3> QED
      BY <3>2, <3>3
  <2>3. deps[t] \subseteq Done
    <3>1. n \in 1 .. n
      BY <1>1
    <3> QED
      BY <1>1, <1>6, <2>1, <3>1
  <2>4. \A u \in Done : deps[u] \subseteq Done /\ u \notin Upstream(u)
    BY DEF PrepInv, WalkPart
  <2>5. t \notin Upstream(t)
    <3>1. Done \in SUBSET Steps /\ project \in Projects
      BY DEF Done, PrepInv, FramesPart
    <3> QED
      BY <1>2, <1>5, <2>3, <2>4, <3>1, OutsideClosed
  <2>6. \A u \in Done' : (deps[u] \subseteq Done)' /\ (u \notin Upstream(u))'
    BY <1>4, <1>5, <2>3, <2>4, <2>5
  <2>7. \A i, j \in 2 .. n : i < j => frames[j].step \in Upstream(frames[i].step)
    BY DEF PrepInv, WalkPart, n
  <2>8. \A i, j \in 2 .. Len(frames)' : i < j => frames'[j].step \in Upstream(frames'[i].step)
    BY <1>1, <1>3, <2>7
  <2> QED
    BY <1>4, <2>2, <2>6, <2>8 DEF WalkPart
<1>11. EdgesPart'
  <2>1. ASSUME NEW s \in Steps, NEW u \in Steps PROVE Seen(s, u)' = Seen(s, u)
    <3>1. Named(s, u)' = Named(s, u)
      BY <1>3 DEF Named
    <3>2. Seen(s, u) = {j \in Named(s, u) :
              u \in Done \/ \E i \in 2 .. n : frames[i].step = u /\ j \notin frames[i].todo}
      BY DEF Seen, n
    <3>3. Seen(s, u)' = {j \in Named(s, u) :
              u \in Done \/ u = t \/ \E i \in 2 .. n - 1 : frames[i].step = u /\ j \notin frames[i].todo}
      <4>1. \A j : (\E i \in 2 .. Len(frames)' : frames'[i].step = u /\ j \notin frames'[i].todo)
                <=> \E i \in 2 .. n - 1 : frames[i].step = u /\ j \notin frames[i].todo
        BY <1>1, <1>3
      <4> QED
        BY <1>5, <3>1, <4>1 DEF Seen
    <3>4. \A j : (\E i \in 2 .. n : frames[i].step = u /\ j \notin frames[i].todo)
              <=> u = t \/ \E i \in 2 .. n - 1 : frames[i].step = u /\ j \notin frames[i].todo
      BY <1>1
    <3> QED
      BY <3>2, <3>3, <3>4
  <2> QED
    BY <1>3, <2>1 DEF PrepInv, EdgesPart
<1> QED
  BY <1>7, <1>8, <1>9, <1>10, <1>11 DEF PrepInv

LEMMA PrepInit == Init => PrepInv
<1> SUFFICES ASSUME Init PROVE PrepInv
  OBVIOUS
<1> DEFINE f == [step |-> NoStep, todo |-> DOMAIN project.targets]
<1>1. frames = <<f>> /\ Len(frames) = 1 /\ frames[1] = f /\ project \in Projects
  BY DEF Init
<1>2. /\ project.targets \in Seq(Steps) /\ IsInjective(project.targets)
      /\ Range(project.targets) \subseteq Steps
      /\ Range(project.targets) \subseteq Needed
  BY <1>1, ProjectFacts, NeededFacts
<1>3. f \in Frames /\ f.step = NoStep /\ f.todo = DOMAIN project.targets
  BY <1>2, LenProperties DEF Frames
<1>4. /\ ListOf(frames[1]) = project.targets /\ Calls(frames[1]) = Range(project.targets)
      /\ Left(frames[1]) = Range(project.targets)
  <2>1. ListOf(frames[1]) = project.targets /\ frames[1].todo = DOMAIN project.targets
    BY <1>1, <1>3 DEF ListOf
  <2> QED
    BY <2>1 DEF Calls, Left, Range
<1>5. 2 .. Len(frames) = {} /\ 1 .. Len(frames) = {1}
  BY <1>1
<1> HIDE DEF f
<1>6. FramesPart
  BY <1>1, <1>3, <1>4, <1>5 DEF FramesPart
<1>7. StatesPart
  BY <1>5 DEF Init, StatesPart
<1>8. StackPart
  BY <1>1, <1>2, <1>4 DEF Init, StackPart
<1>9. Done = {}
  BY DEF Init, Done
<1>10. WalkPart
  BY <1>4, <1>5, <1>9 DEF WalkPart
<1>11. EdgesPart
  <2>1. \A s, t \in Steps : Seen(s, t) = {}
    BY <1>5, <1>9 DEF Seen
  <2>2. <<>> \in Seq(Steps) /\ \A t : Times(t, <<>>) = 0
    <3>1. <<>> \in Seq(Steps) /\ Range(<<>>) = {}
      BY DEF Range
    <3> QED
      BY <3>1, TimesFacts
  <2>3. Cardinality({}) = 0
    BY FS_EmptySet
  <2> QED
    BY <2>1, <2>2, <2>3 DEF Init, EdgesPart
<1> QED
  BY <1>6, <1>7, <1>8, <1>10, <1>11 DEF PrepInv

\* When the starting steps are done, what they need is on the stack and done.
LEMMA PreparedFacts ==
    ASSUME PrepInv, Prepared
    PROVE  /\ Range(stepStack) = Needed /\ ~Cyclic
           /\ \A s \in Steps : state[s] = IF s \in Needed THEN "precheck_done" ELSE "precheck_unstarted"
           /\ \A s \in Steps : /\ Range(dependants[s]) \subseteq Needed
                              /\ \A t \in Needed : Times(t, dependants[s]) = Times(s, project.deps[t])
<1>1. Len(frames) = 1 /\ frames[1].todo = {} /\ project \in Projects
  BY FrameFacts DEF PrepInv, FramesPart, Prepared
<1>2. frames[1].step = NoStep
  BY DEF PrepInv, FramesPart
<1>3. Range(project.targets) \subseteq Done
  <2>1. Left(frames[1]) = {} /\ Calls(frames[1]) = Range(project.targets)
    BY <1>1, <1>2, FrameFacts DEF Left, PrepInv
  <2> QED
    BY <1>1, <2>1 DEF PrepInv, WalkPart
<1>4. Done \in SUBSET Steps /\ \A s \in Done : deps[s] \subseteq Done /\ s \notin Upstream(s)
  BY DEF Done, PrepInv, WalkPart
<1>5. Needed \subseteq Done
  BY <1>1, <1>3, <1>4, NeededFacts
<1>6. Done \subseteq Range(stepStack) /\ Range(stepStack) \subseteq Needed
  BY DEF Done, PrepInv, StackPart
<1>7. \A s \in Steps : state[s] # "precheck_started"
  BY <1>1 DEF PrepInv, StatesPart
<1>8. \A s \in Steps : state[s] = IF s \in Needed THEN "precheck_done" ELSE "precheck_unstarted"
  BY <1>5, <1>6, <1>7 DEF Done, PrepInv, StatesPart
<1>9. \A s, t \in Steps : Seen(s, t) = IF t \in Needed THEN Named(s, t) ELSE {}
  BY <1>1, <1>5, <1>6 DEF Seen
<1>10. dependants \in [Steps -> Seq(Steps)] /\ Needed \subseteq Steps
  BY <1>1, NeededFacts DEF PrepInv, EdgesPart
<1>11. ASSUME NEW s \in Steps, NEW t \in Needed
       PROVE  Times(t, dependants[s]) = Times(s, project.deps[t])
  <2>1. Times(t, dependants[s]) = Cardinality(Named(s, t))
    BY <1>9, <1>10 DEF PrepInv, EdgesPart
  <2> QED
    BY <2>1 DEF Times, Named
<1>12. ASSUME NEW s \in Steps PROVE Range(dependants[s]) \subseteq Needed
  <2> SUFFICES ASSUME NEW t \in Range(dependants[s]), t \notin Needed PROVE FALSE
    OBVIOUS
  <2>1. dependants[s] \in Seq(Steps) /\ t \in Steps
    BY <1>10, LenProperties DEF Range
  <2>2. Times(t, dependants[s]) = 0
    <3>1. Times(t, dependants[s]) = Cardinality(Seen(s, t)) /\ Seen(s, t) = {}
      BY <1>9, <2>1 DEF PrepInv, EdgesPart
    <3> QED
      BY <3>1, FS_EmptySet
  <2> QED
    BY <2>1, <2>2, TimesFacts
<1> QED
  BY <1>4, <1>5, <1>6, <1>8, <1>11, <1>12 DEF Cyclic

-----------------------------------------------------------------------------
After == mpc \notin {"prepare", "loop"}

GraphInv ==
    /\ project \in Projects /\ mpc \in {"prepare", "loop", "spawn", "wait", "watch", "panic"}
    /\ mpc = "prepare" => PrepInv
    /\ After => stepStack \in Seq(Needed) /\ dependants \in [Steps -> Seq(Needed)]
    /\ GraphBuilt

LEMMA GraphInit == Init => GraphInv
  BY PrepInit DEF Init, GraphInv, GraphBuilt, After

LEMMA GraphVisit ==
    ASSUME GraphInv, NEW k \in Top.todo, Visit(k)
    PROVE  GraphInv'
<1> DEFINE s == ListOf(Top)[k]
<1>1. mpc = "prepare" /\ PrepInv /\ UNCHANGED project /\ Descend(s, k)
  BY DEF Visit, GraphInv
<1> HIDE DEF s
<1>2. CASE state[s] = "precheck_started"
  <2>1. mpc' = "loop" /\ Cyclic
    BY <1>1, <1>2, VisitLoop DEF Descend, s
  <2> QED
    BY <1>1, <2>1, ProjectStays DEF GraphInv, GraphBuilt, After
<1>3. CASE state[s] # "precheck_started"
  <2>1. mpc' = mpc
    BY <1>1, <1>3 DEF Descend
  <2>2. PrepInv'
    BY <1>1, <1>3, VisitFramesPart, VisitStack, VisitWalk, VisitEdges DEF PrepInv, s
  <2> QED
    BY <1>1, <2>1, <2>2 DEF GraphInv, GraphBuilt, After
<1> QED
  BY <1>2, <1>3

LEMMA GraphPrepared ==
    ASSUME GraphInv, Prepared
    PROVE  GraphInv'
<1>1. mpc = "prepare" /\ PrepInv /\ mpc' = "spawn" /\ UNCHANGED <<project, dependants, stepStack>>
  BY DEF Prepared, GraphInv, graphVars
<1>2. /\ Range(stepStack) = Needed /\ ~Cyclic
      /\ \A s \in Steps : /\ Range(dependants[s]) \subseteq Needed
                         /\ \A t \in Needed : Times(t, dependants[s]) = Times(s, project.deps[t])
  BY <1>1, PreparedFacts
<1>3. \A q \in Seq(Steps) : ToSet(q) = Range(q) /\ q \in Seq(Range(q))
  BY LenProperties, SeqDef DEF ToSet, Range
<1>4. stepStack \in Seq(Needed) /\ ToSet(stepStack) = Needed /\ Len(stepStack) = Cardinality(Needed)
  <2>1. stepStack \in Seq(Steps) /\ IsInjective(stepStack)
    BY <1>1 DEF PrepInv, StackPart
  <2>2. Len(stepStack) = Cardinality(ToSet(stepStack))
    BY <2>1, NoRepetitions
  <2> QED
    BY <1>2, <1>3, <2>1, <2>2
<1>5. ASSUME NEW s \in Steps
      PROVE  dependants[s] \in Seq(Needed) /\ ToSet(dependants[s]) \subseteq Needed
  <2>1. dependants[s] \in Seq(Steps)
    BY <1>1 DEF PrepInv, EdgesPart
  <2>2. Range(dependants[s]) \subseteq Needed
    BY <1>2
  <2> QED
    BY <1>3, <2>1, <2>2, SeqMonotonic
<1>6. dependants \in [Steps -> Seq(Needed)]
  BY <1>1, <1>5 DEF PrepInv, EdgesPart
<1>7. Needed \subseteq Steps
  BY NeededFacts DEF GraphInv
<1>8. deps' = deps /\ Needed' = Needed /\ Cyclic' = Cyclic
  BY <1>1, ProjectStays
<1> QED
  BY <1>1, <1>2, <1>4, <1>5, <1>6, <1>7, <1>8 DEF GraphInv, GraphBuilt, After

\* After that the graph stays as it is.
LEMMA GraphKept ==
    ASSUME GraphInv, UNCHANGED graphVars, mpc \notin {"prepare", "loop"},
           mpc' \in {"spawn", "wait", "watch", "panic"}
    PROVE  GraphInv'
<1>1. UNCHANGED <<project, dependants, stepStack>> /\ After
  BY DEF graphVars, After
<1>2. deps' = deps /\ Needed' = Needed /\ Cyclic' = Cyclic
  BY <1>1, ProjectStays
<1> QED
  BY <1>1, <1>2 DEF GraphInv, GraphBuilt, After

LEMMA GraphNext == GraphInv /\ OnceInv /\ [Next]_vars => GraphInv'
<1> SUFFICES ASSUME GraphInv, OnceInv, [Next]_vars PROVE GraphInv'
  OBVIOUS
<1>1. ASSUME NEW k \in Top.todo, Visit(k) PROVE GraphInv'
  BY <1>1, GraphVisit
<1>2. CASE Visited
  <2>1. mpc = "prepare" /\ PrepInv /\ UNCHANGED <<project, mpc>>
    BY <1>2 DEF Visited, GraphInv, mainVars
  <2>2. PrepInv'
    BY <1>2, <2>1, VisitedKeeps
  <2> QED
    BY <2>1, <2>2 DEF GraphInv, GraphBuilt, After
<1>3. CASE Prepared
  BY <1>3, GraphPrepared
<1>4. CASE SpawnInitial \/ Summarise \/ RebuildAll \/ \E S \in SUBSET Steps : FilesChange(S)
  <2>1. /\ UNCHANGED graphVars /\ mpc \notin {"prepare", "loop"}
        /\ mpc' \in {"spawn", "wait", "watch", "panic"}
    BY <1>4 DEF SpawnInitial, Summarise, RebuildAll, FilesChange, Rebuild
  <2> QED
    BY <2>1, GraphKept
<1>5. ASSUME UNCHANGED graphVars, UNCHANGED <<mpc, state>> PROVE GraphInv'
  <2>1. UNCHANGED <<project, dependants, stepStack, frames, mpc, state>>
    BY <1>5 DEF graphVars
  <2>2. /\ deps' = deps /\ Needed' = Needed /\ Cyclic' = Cyclic
        /\ \A u : Upstream(u)' = Upstream(u)
    BY <2>1, ProjectStays
  <2>3. ASSUME PrepInv PROVE PrepInv'
    <3>1. /\ Done' = Done /\ \A s, t : Seen(s, t)' = Seen(s, t)
          /\ \A i : /\ ListOf(frames[i])' = ListOf(frames[i]) /\ Calls(frames[i])' = Calls(frames[i])
                    /\ Left(frames[i])' = Left(frames[i])
      <4>1. Done' = Done /\ \A i : ListOf(frames[i])' = ListOf(frames[i])
        BY <2>1 DEF Done, ListOf
      <4>2. \A s, t : Seen(s, t)' = Seen(s, t)
        BY <2>1, <4>1 DEF Seen, Named
      <4> QED
        BY <2>1, <4>1, <4>2 DEF Calls, Left
    <3>2. FramesPart'
      BY <2>1, <2>3, <3>1 DEF PrepInv, FramesPart
    <3>3. StatesPart'
      BY <2>1, <2>3 DEF PrepInv, StatesPart
    <3>4. StackPart'
      BY <2>1, <2>2, <2>3, <3>1 DEF PrepInv, StackPart
    <3>5. WalkPart'
      BY <2>1, <2>2, <2>3, <3>1 DEF PrepInv, WalkPart
    <3>6. EdgesPart'
      BY <2>1, <2>3, <3>1 DEF PrepInv, EdgesPart
    <3> QED
      BY <3>2, <3>3, <3>4, <3>5, <3>6 DEF PrepInv
  <2> QED
    BY <2>1, <2>2, <2>3 DEF GraphInv, GraphBuilt, After
<1>6. ASSUME NEW w \in Workers, WorkerRuns(w) PROVE GraphInv'
  <2>1. UNCHANGED graphVars /\ mpc' = mpc
    BY <1>6 DEF WorkerRuns, Take, Check, ClaimFree, ClaimRss, Make, SpawnDependant, Return,
                GiveBack, Scan, mainVars
  <2>2. mpc # "prepare"
    BY <1>6 DEF WorkerRuns, Take, Check, ClaimFree, ClaimRss, Make, SpawnDependant, Return,
                GiveBack, Scan, At, OnceInv, PrepareQuiet, Quiet
  <2>3. CASE mpc = "loop"
    BY <2>1, <2>3, ProjectStays DEF GraphInv, GraphBuilt, After, graphVars
  <2>4. CASE mpc # "loop"
    BY <2>1, <2>2, <2>4, GraphKept DEF GraphInv
  <2> QED
    BY <2>3, <2>4
<1> QED
  BY <1>1, <1>2, <1>3, <1>4, <1>5, <1>6 DEF Next, MainRuns, vars, mainVars

\* For every graph of steps: a loop is reported exactly when the targets need one, and
\* otherwise the stack has what they need and every step knows each of its dependants as
\* often as that names it (GraphBuilt), in whatever order the dependencies are visited.
THEOREM LoopsFound == Spec => []GraphBuilt
<1>1. GraphInv => GraphBuilt
  BY DEF GraphInv
<1> QED
  BY <1>1, OnceInit, OnceNext, GraphInit, GraphNext, PTL DEF Spec

\* As a set, the dependants of a step are the steps that depend on it.
LEMMA DependantsFacts ==
    ASSUME GraphInv, After
    PROVE  \A s \in Needed : Range(dependants[s]) = {t \in Needed : s \in deps[t]}
<1> SUFFICES ASSUME NEW s \in Needed
             PROVE  Range(dependants[s]) = {t \in Needed : s \in deps[t]}
  OBVIOUS
<1>1. s \in Steps /\ Needed \subseteq Steps /\ project \in Projects
  BY NeededFacts DEF GraphInv
<1>2. Range(dependants[s]) \subseteq Needed /\ dependants[s] \in Seq(Needed)
  BY <1>1 DEF GraphInv, GraphBuilt, After, ToSet, Range
<1>3. ASSUME NEW t \in Needed PROVE t \in Range(dependants[s]) <=> s \in deps[t]
  <2>1. Times(t, dependants[s]) = Times(s, project.deps[t])
    BY DEF GraphInv, GraphBuilt, After
  <2>2. project.deps[t] \in Seq(Steps) /\ deps[t] = Range(project.deps[t])
    BY <1>1, ProjectFacts
  <2>3. Times(t, dependants[s]) = 0 <=> t \notin Range(dependants[s])
    BY <1>2, TimesFacts
  <2>4. Times(s, project.deps[t]) = 0 <=> s \notin deps[t]
    BY <2>2, TimesFacts
  <2> QED
    BY <2>1, <2>3, <2>4
<1> QED
  BY <1>2, <1>3

-----------------------------------------------------------------------------
(***************************************************************************)
(* The build.  Everything queued is needed; who is about to make a step    *)
(* found its dependencies made, and they stay so while the build runs.     *)
(***************************************************************************)
Places == {"idle", "check", "claim", "make", "dependants", "scan"}
Jobs == [at : Places, step : Needed \cup {NoStep}, rest : Seq(Needed), remaining : Int]
Sound(job) ==
    /\ job \in Jobs
    /\ job.at # "idle" => job.step \in Needed
    /\ job.at = "scan" => job.rest # <<>>

WorkType ==
    /\ queue \in Seq(Needed) /\ toSpawn \in Seq(Needed) /\ blocked \in Seq(Needed)
    /\ claimed \in Int
    /\ wk \in [Workers -> Jobs] /\ \A w \in Workers : Sound(wk[w])

DepsInv ==
    /\ mpc \in {"prepare", "loop", "watch", "panic"} => Quiet
    /\ \A w \in Workers : At(w) = "claim" => Ready(Step(w))
    /\ \A w \in Workers : At(w) = "make" => state[Step(w)] = "running"
    /\ \A w, u \in Workers : At(w) = "make" /\ At(u) = "make" /\ Step(w) = Step(u) => w = u
    /\ IF After THEN \A s \in Steps : s \notin Needed => state[s] = "precheck_unstarted"
       ELSE \A s \in Steps : state[s] \in {"precheck_unstarted", "precheck_started", "precheck_done"}
    /\ DepsFirst

LEMMA ReverseType ==
    ASSUME NEW S, NEW seq \in Seq(S)
    PROVE  Reverse(seq) \in Seq(S)
<1>1. Len(seq) \in Nat /\ \A i \in 1 .. Len(seq) : seq[(Len(seq) - i) + 1] \in S
  BY LenProperties
<1> QED
  BY <1>1, SeqDef DEF Reverse

LEMMA PrependType ==
    ASSUME queue \in Seq(Needed), NEW s \in Needed, Prepend(s)
    PROVE  queue' \in Seq(Needed)
<1>1. <<s>> \in Seq(Needed)
  OBVIOUS
<1> QED
  BY <1>1, ConcatProperties DEF Prepend

LEMMA IdleSound == Sound(Idle)
<1>1. <<>> \in Seq(Needed)
  BY EmptySeq
<1> QED
  BY <1>1 DEF Sound, Jobs, Places, Idle

LEMMA WorkInit == Init => WorkType
<1> SUFFICES ASSUME Init PROVE WorkType
  OBVIOUS
<1>1. <<>> \in Seq(Needed)
  BY EmptySeq
<1> QED
  BY <1>1, IdleSound DEF Init, WorkType, Sound

\* The main thread queues what is on the stack.
LEMMA WorkMain ==
    ASSUME WorkType, GraphInv, NEW S \in SUBSET Steps,
           (\E k \in Top.todo : Visit(k)) \/ Visited \/ Prepared \/ SpawnInitial \/ Summarise
               \/ RebuildAll \/ FilesChange(S)
    PROVE  WorkType'
<1>1. UNCHANGED <<project, wk, blocked, claimed>>
  BY DEF Visit, Visited, Prepared, SpawnInitial, Summarise, RebuildAll, FilesChange,
     Rebuild,
         graphVars, rssVars
<1>2. Needed' = Needed /\ Jobs' = Jobs /\ \A w \in Workers : Sound(wk[w])'
  BY <1>1, ProjectStays DEF Jobs, Sound, WorkType
<1>3. queue' \in Seq(Needed) /\ toSpawn' \in Seq(Needed)
  <2>1. CASE (\E k \in Top.todo : Visit(k)) \/ Visited \/ Summarise
    BY <2>1 DEF Visit, Visited, Summarise, mainVars, WorkType
  <2>2. CASE Prepared
    <3>1. stepStack \in Seq(Needed)
      <4>1. PrepInv /\ Range(stepStack) = Needed
        BY <2>2, PreparedFacts DEF GraphInv, Prepared
      <4> QED
        BY <4>1, LenProperties, SeqDef DEF PrepInv, StackPart, Range
    <3> QED
      BY <2>2, <3>1, ReverseType DEF Prepared, WorkType
  <2>3. CASE SpawnInitial
    <3>1. Head(toSpawn) \in Needed /\ Tail(toSpawn) \in Seq(Needed)
      BY <2>3, HeadTailProperties DEF SpawnInitial, WorkType
    <3>2. queue' \in Seq(Needed)
      BY <2>3, <3>1, PrependType DEF SpawnInitial, WorkType
    <3> QED
      BY <2>3, <3>1, <3>2 DEF SpawnInitial
  <2>4. CASE RebuildAll \/ FilesChange(S)
    <3>1. stepStack \in Seq(Needed)
      BY <2>4 DEF GraphInv, After, RebuildAll, FilesChange, Rebuild
    <3> QED
      BY <2>4, <3>1, ReverseType DEF RebuildAll, FilesChange, Rebuild, WorkType
  <2> QED
    BY <2>1, <2>2, <2>3, <2>4
<1> QED
  BY <1>1, <1>2, <1>3 DEF WorkType

\* A worker takes its next place.
LEMMA WorkBecomes ==
    ASSUME WorkType, NEW w \in Workers, NEW new, Sound(new), Become(w, new), UNCHANGED <<project, toSpawn>>,
           queue' \in Seq(Needed), blocked' \in Seq(Needed), claimed' \in Int
    PROVE  WorkType'
<1>1. Needed' = Needed
  BY ProjectStays
<1>2. Jobs' = Jobs
  BY <1>1 DEF Jobs
<1>3. wk' \in [Workers -> Jobs] /\ \A u \in Workers : wk'[u] = IF u = w THEN new ELSE wk[u]
  BY DEF Become, WorkType, Sound
<1>4. \A u \in Workers : Sound(wk[u])'
  BY <1>1, <1>2, <1>3 DEF WorkType, Sound
<1> QED
  BY <1>1, <1>2, <1>3, <1>4 DEF WorkType

LEMMA WorkWorker ==
    ASSUME WorkType, GraphInv, After, NEW w \in Workers, WorkerRuns(w)
    PROVE  WorkType'
<1> DEFINE s == Step(w)
<1>1. UNCHANGED <<project, toSpawn>>
  BY DEF WorkerRuns, Take, Check, ClaimFree, ClaimRss, Make, SpawnDependant, Return,
         GiveBack, Scan, graphVars, mainVars
<1>2. /\ wk[w] \in Jobs /\ Sound(wk[w]) /\ (At(w) # "idle" => s \in Needed)
      /\ wk[w].rest \in Seq(Needed) /\ wk[w].remaining \in Int
      /\ queue \in Seq(Needed) /\ blocked \in Seq(Needed) /\ claimed \in Int
  BY DEF WorkType, Sound, At, Step, Jobs
<1>3. project \in Projects /\ Needed \subseteq Steps
  BY NeededFacts DEF GraphInv
<1>4. maxRss \in [Steps -> Nat] /\ project.limit \in Nat /\ dependants \in [Steps -> Seq(Needed)]
  BY <1>3, ProjectFacts DEF GraphInv
<1> HIDE DEF s
<1>5. \A p \in {"check", "claim", "make", "dependants"} : At(w) # "idle" =>
          Sound([wk[w] EXCEPT !.at = p])
  BY <1>2 DEF Sound, Jobs, Places, At, Step, s
<1>6. CASE Take(w)
  <2> DEFINE q == Head(queue)
  <2>1. q \in Needed /\ Tail(queue) \in Seq(Needed)
    BY <1>2, <1>6, HeadTailProperties DEF Take
  <2> HIDE DEF q
  <2>2. <<>> \in Seq(Needed)
    BY EmptySeq
  <2>3. Sound([Idle EXCEPT !.at = "check", !.step = q])
    <3>1. Idle \in Jobs
      BY IdleSound DEF Sound
    <3> QED
      BY <2>1, <3>1 DEF Sound, Jobs, Places
  <2> QED
    BY <1>1, <1>2, <1>6, <2>1, <2>3, WorkBecomes DEF Take, q, rssVars
<1>7. CASE Check(w)
  <2>1. UNCHANGED <<queue, blocked, claimed>>
    BY <1>7 DEF Check, TooEarly, rssVars
  <2>2. Become(w, Idle) \/ Become(w, [wk[w] EXCEPT !.at = "claim"])
    BY <1>7 DEF Check, TooEarly, Goto
  <2> QED
    BY <1>1, <1>2, <1>5, <1>7, <2>1, <2>2, IdleSound, WorkBecomes DEF Check
<1>8. CASE ClaimFree(w) \/ ClaimRss(w)
  <2>1. queue' = queue /\ blocked' \in Seq(Needed) /\ claimed' \in Int /\ At(w) # "idle"
    <3>1. Append(blocked, s) \in Seq(Needed) /\ claimed + maxRss[s] \in Int
      BY <1>2, <1>3, <1>4, <1>8 DEF ClaimFree, ClaimRss
    <3> QED
      BY <1>2, <1>8, <3>1 DEF ClaimFree, ClaimRss, rssVars, s
  <2>2. Become(w, Idle) \/ Become(w, [wk[w] EXCEPT !.at = "make"])
    BY <1>8 DEF ClaimFree, ClaimRss, Begin, Goto
  <2> QED
    BY <1>1, <1>2, <1>5, <2>1, <2>2, IdleSound, WorkBecomes
<1>9. ASSUME NEW r \in Results, Make(w, r) PROVE WorkType'
  <2> DEFINE q == IF r = "failure" THEN <<>> ELSE dependants[s]
  <2>1. q \in Seq(Needed)
    BY <1>2, <1>3, <1>4, <1>9, EmptySeq DEF Make
  <2>2. Become(w, [wk[w] EXCEPT !.at = "dependants", !.rest = q])
    BY <1>9 DEF Make, s
  <2> HIDE DEF q
  <2>3. Sound([wk[w] EXCEPT !.at = "dependants", !.rest = q])
    BY <1>2, <1>9, <2>1 DEF Make, Sound, Jobs, Places, At, Step, s
  <2> QED
    BY <1>1, <1>2, <1>9, <2>2, <2>3, WorkBecomes DEF Make, rssVars
<1>10. CASE SpawnDependant(w)
  <2> DEFINE q == Tail(wk[w].rest)
  <2>1. Head(wk[w].rest) \in Needed /\ q \in Seq(Needed)
    BY <1>2, <1>10, HeadTailProperties DEF SpawnDependant
  <2>2. Become(w, [wk[w] EXCEPT !.rest = q]) /\ queue' \in Seq(Needed)
    BY <1>2, <1>10, <2>1, PrependType DEF SpawnDependant
  <2> HIDE DEF q
  <2>3. Sound([wk[w] EXCEPT !.rest = q])
    BY <1>2, <1>10, <2>1 DEF SpawnDependant, Sound, Jobs, At
  <2> QED
    BY <1>1, <1>2, <1>10, <2>2, <2>3, WorkBecomes DEF SpawnDependant, rssVars
<1>11. CASE Return(w)
  BY <1>1, <1>2, <1>11, IdleSound, WorkBecomes DEF Return, rssVars
<1>12. CASE GiveBack(w)
  <2> DEFINE m == project.limit - claimed'
  <2>1. claimed' \in Int /\ <<>> \in Seq(Needed) /\ blocked' = <<>> /\ queue' = queue /\ s \in Needed
    BY <1>2, <1>3, <1>4, <1>12, EmptySeq DEF GiveBack, s
  <2>2. m \in Int
    BY <1>4, <2>1
  <2>3. \/ Become(w, Idle)
        \/ blocked # <<>> /\ Become(w, [wk[w] EXCEPT !.at = "scan", !.rest = blocked, !.remaining = m])
    BY <1>12 DEF GiveBack
  <2> HIDE DEF m
  <2>4. blocked # <<>> => Sound([wk[w] EXCEPT !.at = "scan", !.rest = blocked, !.remaining = m])
    BY <1>2, <2>1, <2>2 DEF Sound, Jobs, Places, s, Step
  <2> QED
    BY <1>1, <1>2, <2>1, <2>3, <2>4, IdleSound, WorkBecomes
<1>13. CASE Scan(w)
  <2> DEFINE q == Tail(wk[w].rest)  h == Head(wk[w].rest)
  <2>1. wk[w].rest # <<>> /\ At(w) = "scan"
    BY <1>2, <1>13 DEF Scan, Sound, At
  <2>2. h \in Needed /\ q \in Seq(Needed) /\ Len(q) = Len(wk[w].rest) - 1
    BY <1>2, <2>1, HeadTailProperties
  <2>3. /\ queue' = <<h>> \o queue \/ queue' = queue
        /\ blocked' = Append(blocked, h) \/ blocked' = blocked
        /\ \E left \in {wk[w].remaining, wk[w].remaining - maxRss[h]} : Scanned(w, left)
        /\ claimed' = claimed
    BY <1>13 DEF Scan, Prepend
  <2> HIDE DEF q, h
  <2>4. queue' \in Seq(Needed)
    BY <1>2, <2>2, <2>3, PrependType DEF Prepend
  <2>5. blocked' \in Seq(Needed)
    <3>1. \A b \in Seq(Needed) : Append(b, h) \in Seq(Needed)
      BY <2>2, AppendNew
    <3> QED
      BY <1>2, <2>3, <3>1
  <2>6. PICK left \in Int : Scanned(w, left)
    BY <1>2, <1>3, <1>4, <2>2, <2>3
  <2>7. CASE Len(wk[w].rest) = 1
    BY <1>1, <1>2, <2>3, <2>4, <2>5, <2>6, <2>7, IdleSound, WorkBecomes DEF Scanned
  <2>8. CASE Len(wk[w].rest) # 1
    <3>1. Become(w, [wk[w] EXCEPT !.rest = q, !.remaining = left])
      BY <2>6, <2>8 DEF Scanned, q
    <3>2. q # <<>>
      <4>1. Len(wk[w].rest) \in Nat \ {0} /\ Len(<<>>) = 0
        BY <1>2, <2>1, EmptySeq
      <4>2. Len(q) # 0
        BY <2>2, <2>8, <4>1
      <4> QED
        BY <4>1, <4>2
    <3>3. Sound([wk[w] EXCEPT !.rest = q, !.remaining = left])
      BY <1>2, <2>1, <2>2, <3>2 DEF Sound, Jobs, At
    <3> QED
      BY <1>1, <1>2, <2>3, <2>4, <2>5, <3>1, <3>3, WorkBecomes
  <2> QED
    BY <2>7, <2>8
<1> QED
  BY <1>6, <1>7, <1>8, <1>9, <1>10, <1>11, <1>12, <1>13 DEF WorkerRuns


\* The dependencies a step was found to have stay made when another step's
\* state changes that was not made.
LEMMA ReadyKept ==
    ASSUME UNCHANGED project, project \in Projects, NEW u \in Steps, NEW x,
           state \in [Steps -> States], state' = [state EXCEPT ![u] = x],
           state[u] \notin {"success", "skipped"}
    PROVE  \A t \in Steps : Ready(t) => Ready(t)' /\ u \notin deps[t]
<1>1. deps' = deps /\ \A t \in Steps : deps[t] \subseteq Steps
  BY ProjectStays, ProjectFacts
<1> QED
  BY <1>1 DEF Ready

LEMMA DepsInit == Init => DepsInv
  BY DEF Init, DepsInv, Quiet, Idle, At, Step, After, DepsFirst

\* A step of a worker that changes no state.
LEMMA DepsWork ==
    ASSUME DepsInv, WorkType, NEW w \in Workers, NEW new, Become(w, new), UNCHANGED <<project, mpc, state>>,
           mpc \in {"spawn", "wait"},
           \/ new.at \in {"idle", "check", "dependants", "scan"}
           \/ new.at = "claim" /\ Ready(new.step)
    PROVE  DepsInv'
<1>1. \A u \in Workers : wk'[u] = IF u = w THEN new ELSE wk[u]
  BY DEF Become, WorkType
<1>2. \A u \in Workers : u # w => At(u)' = At(u) /\ Step(u)' = Step(u)
  BY <1>1 DEF At, Step
<1>3. At(w)' = new.at /\ Step(w)' = new.step
  BY <1>1 DEF At, Step
<1>4. deps' = deps /\ Needed' = Needed
  BY ProjectStays
<1>5. \A t : Ready(t)' = Ready(t)
  BY <1>4 DEF Ready
<1>6. DepsFirst'
  BY <1>5 DEF DepsInv, DepsFirst
<1>7. \A u \in Workers : At(u)' = "claim" => Ready(Step(u)')
  BY <1>2, <1>3 DEF DepsInv
<1>8. \A u \in Workers : At(u)' = "make" => u # w
  BY <1>3
<1> QED
  BY <1>2, <1>4, <1>5, <1>6, <1>7, <1>8 DEF DepsInv, After

\* A worker changes the state of its step.
LEMMA DepsChange ==
    ASSUME DepsInv, WorkType, OnceInv, project \in Projects, NEW w \in Workers, NEW x \in States, NEW place,
           place \in {"idle", "make", "dependants"},
           At(w)' = place, place = "make" => Step(w)' = Step(w) /\ x = "running",
           \A u \in Workers : u # w => wk'[u] = wk[u],
           UNCHANGED <<project, mpc>>, mpc \in {"spawn", "wait"}, Step(w) \in Needed,
           state' = [state EXCEPT ![Step(w)] = x],
           state[Step(w)] \notin {"success", "skipped"},
           x \in {"running", "success", "failure", "skipped"} => Ready(Step(w)),
           \A u \in Workers : u # w /\ At(u) = "make" => Step(u) # Step(w)
    PROVE  DepsInv'
<1> DEFINE s == Step(w)
<1>1. state \in [Steps -> States] /\ s \in Steps
  BY NeededFacts DEF OnceInv, Shapes
<1>2. \A t \in Steps : Ready(t) => Ready(t)'
  BY <1>1, ReadyKept
<1>3. deps' = deps /\ Needed' = Needed
  BY ProjectStays
<1>4. \A u \in Workers : u # w => At(u)' = At(u) /\ Step(u)' = Step(u)
  BY DEF At, Step
<1>5. \A t \in Steps : t # s => state'[t] = state[t]
  BY <1>1
<1>6. state'[s] = x
  BY <1>1
<1>7. \A u \in Workers : At(u) # "idle" => Step(u) \in Steps
  BY NeededFacts DEF WorkType, Sound, At, Step
<1> HIDE DEF s
<1>8. DepsFirst'
  BY <1>2, <1>5, <1>6 DEF DepsInv, DepsFirst, s
<1>9. \A u \in Workers : At(u)' = "claim" => Ready(Step(u))'
  <2> SUFFICES ASSUME NEW u \in Workers, At(u)' = "claim" PROVE Ready(Step(u))'
    OBVIOUS
  <2>1. u # w /\ At(u) = "claim" /\ Step(u)' = Step(u)
    BY <1>4
  <2>2. Ready(Step(u)) /\ Step(u) \in Steps
    BY <1>7, <2>1 DEF DepsInv
  <2>3. \A t \in Steps : Ready(t) => \A d \in deps'[t] : state'[d] \in {"success", "skipped"}
    BY <1>2 DEF Ready
  <2> QED
    BY <2>1, <2>2, <2>3 DEF Ready
<1>10. \A u \in Workers : At(u)' = "make" => state'[Step(u)'] = "running"
  BY <1>4, <1>5, <1>6, <1>7 DEF DepsInv, s
<1>11. \A v, u \in Workers : At(v)' = "make" /\ At(u)' = "make" /\ Step(v)' = Step(u)' => v = u
  BY <1>4 DEF DepsInv
<1>12. \A t \in Steps : t \notin Needed => t # s
  BY DEF s
<1> QED
  BY <1>3, <1>5, <1>8, <1>9, <1>10, <1>11, <1>12 DEF DepsInv, After

LEMMA DepsWorker ==
    ASSUME DepsInv, WorkType, OnceInv, GraphInv, NEW w \in Workers, WorkerRuns(w)
    PROVE  DepsInv'
<1> DEFINE s == Step(w)
<1>2. UNCHANGED <<project, mpc>>
  BY DEF WorkerRuns, Take, Check, ClaimFree, ClaimRss, Make, SpawnDependant, Return,
         GiveBack, Scan, graphVars, mainVars
<1>3. ~Quiet
  BY DEF WorkerRuns, Take, Check, ClaimFree, ClaimRss, Make, SpawnDependant, Return,
         GiveBack, Scan, At, Quiet
<1>4. mpc \in {"spawn", "wait"} /\ project \in Projects
  BY <1>3 DEF DepsInv, GraphInv
<1>5. wk[w] \in Jobs /\ wk \in [Workers -> Jobs] /\ (At(w) # "idle" => s \in Needed)
  BY DEF WorkType, Sound, At, Step
<1>6. s \in Needed => s \in Steps
  BY <1>4, NeededFacts
<1>7. Idle.at = "idle"
  BY DEF Idle
<1>8. \A p : Goto(w, p) => Become(w, [wk[w] EXCEPT !.at = p])
  BY DEF Goto
<1>9. \A p : [wk[w] EXCEPT !.at = p].at = p /\ [wk[w] EXCEPT !.at = p].step = s
  BY <1>5 DEF Jobs, Step
<1>10. \A new : Become(w, new) => wk'[w] = new /\ \A u \in Workers : u # w => wk'[u] = wk[u]
  BY <1>5 DEF Become
<1> HIDE DEF s
<1> DEFINE Harmless(new) == \/ new.at \in {"idle", "check", "dependants", "scan"}
                            \/ new.at = "claim" /\ Ready(new.step)
<1>16. ASSUME UNCHANGED state, \E new : Become(w, new) /\ Harmless(new)
       PROVE  DepsInv'
  <2>1. PICK new : Become(w, new) /\ Harmless(new)
    BY <1>16
  <2>2. UNCHANGED <<project, mpc, state>>
    BY <1>2, <1>16
  <2> QED
    BY <1>4, <2>1, <2>2, DepsWork
<1>17. Harmless(Idle)
  BY <1>7
<1>11. CASE Take(w)
  <2> DEFINE new == [Idle EXCEPT !.at = "check", !.step = Head(queue)]
  <2>1. new.at = "check" /\ Become(w, new) /\ UNCHANGED state
    BY <1>11 DEF Take, Idle
  <2> HIDE DEF new
  <2> QED
    BY <1>16, <2>1
<1>12. CASE Check(w)
  <2>1. CASE Ready(s) /\ Goto(w, "claim") /\ UNCHANGED state
    <3> DEFINE new == [wk[w] EXCEPT !.at = "claim"]
    <3>1. Become(w, new) /\ new.at = "claim" /\ Ready(new.step)
      BY <1>8, <1>9, <2>1
    <3> HIDE DEF new
    <3> QED
      BY <1>16, <2>1, <3>1
  <2>2. CASE UNCHANGED state /\ Become(w, Idle)
    <3> HIDE DEF Harmless
    <3> QED
      BY <1>16, <1>17, <2>2
  <2>3. CASE Doomed(s) /\ Become(w, Idle) /\ state' = [state EXCEPT ![s] = "dependency_failure"]
    <3>1. s \in Needed /\ s \in Steps
      BY <1>5, <1>6, <1>12 DEF Check
    <3>2. ~Ready(s)
      BY <2>3 DEF Doomed, Ready
    <3>3. state[s] \notin {"running", "success", "failure", "skipped"}
      BY <3>1, <3>2 DEF DepsInv, DepsFirst
    <3>4. At(w)' = "idle" /\ \A u \in Workers : u # w => wk'[u] = wk[u]
      BY <1>7, <1>10, <2>3 DEF At
    <3>5. \A u \in Workers : At(u) = "make" => Step(u) # s
      BY <3>3 DEF DepsInv
    <3>6. "dependency_failure" \in States
      BY DEF States
    <3> QED
      BY <1>2, <1>4, <2>3, <3>1, <3>3, <3>4, <3>5, <3>6, DepsChange DEF s
  <2> QED
    BY <1>12, <2>1, <2>2, <2>3 DEF Check, TooEarly, s
<1>13. CASE ClaimFree(w) \/ ClaimRss(w)
  <2>1. s \in Needed /\ s \in Steps /\ Ready(s)
    BY <1>5, <1>6, <1>13 DEF ClaimFree, ClaimRss, DepsInv, s
  <2>2. CASE Mine(s) /\ Begin(w)
    <3>1. state[s] = "precheck_done" /\ state' = [state EXCEPT ![s] = "running"]
      BY <2>2 DEF Mine, Begin, s
    <3>2. At(w)' = "make" /\ Step(w)' = s /\ \A u \in Workers : u # w => wk'[u] = wk[u]
      BY <1>8, <1>9, <1>10, <2>2 DEF Begin, At, Step
    <3>3. \A u \in Workers : At(u) = "make" => Step(u) # s
      BY <3>1 DEF DepsInv
    <3>4. "running" \in States
      BY DEF States
    <3> QED
      BY <1>2, <1>4, <2>1, <3>1, <3>2, <3>3, <3>4, DepsChange DEF s
  <2>3. CASE UNCHANGED state /\ Become(w, Idle)
    <3> HIDE DEF Harmless
    <3> QED
      BY <1>16, <1>17, <2>3
  <2> QED
    BY <1>13, <2>2, <2>3 DEF ClaimFree, ClaimRss, s
<1>14. ASSUME NEW r \in Results, Make(w, r) PROVE DepsInv'
  <2>1. /\ s \in Needed /\ s \in Steps /\ state[s] = "running" /\ At(w) = "make"
        /\ state' = [state EXCEPT ![s] = r]
    BY <1>5, <1>6, <1>14 DEF Make, DepsInv, s
  <2>2. Ready(s)
    BY <2>1 DEF DepsInv, DepsFirst
  <2>3. At(w)' = "dependants" /\ \A u \in Workers : u # w => wk'[u] = wk[u]
    <3> DEFINE new == [wk[w] EXCEPT !.at = "dependants",
                         !.rest = IF r = "failure" THEN <<>> ELSE dependants[Step(w)]]
    <3>1. Become(w, new)
      BY <1>14 DEF Make
    <3>2. new.at = "dependants"
      BY <1>5 DEF Jobs
    <3> HIDE DEF new
    <3> QED
      BY <1>10, <3>1, <3>2 DEF At
  <2>4. \A u \in Workers : u # w /\ At(u) = "make" => Step(u) # s
    BY <2>1 DEF DepsInv, s
  <2>5. r \in States
    BY <1>14 DEF Results, States
  <2> QED
    BY <1>2, <1>4, <2>1, <2>2, <2>3, <2>4, <2>5, DepsChange DEF s
<1>15. CASE SpawnDependant(w) \/ Return(w) \/ GiveBack(w) \/ Scan(w)
  <2>1. UNCHANGED state
    BY <1>15 DEF SpawnDependant, Return, GiveBack, Scan
  <2>2. \E new : Become(w, new) /\ new.at \in {"idle", "dependants", "scan"}
    <3>1. CASE SpawnDependant(w)
      <4> DEFINE new == [wk[w] EXCEPT !.rest = Tail(@)]
      <4>1. Become(w, new) /\ new.at = "dependants"
        BY <1>5, <3>1 DEF SpawnDependant, Jobs, At
      <4> QED
        BY <4>1
    <3>2. CASE Return(w)
      BY <1>7, <3>2 DEF Return
    <3>3. CASE GiveBack(w)
      <4> DEFINE new == [wk[w] EXCEPT !.at = "scan", !.rest = blocked, !.remaining = project.limit - claimed']
      <4>1. new.at = "scan"
        BY <1>5 DEF Jobs
      <4>2. Become(w, Idle) \/ Become(w, new)
        BY <3>3 DEF GiveBack
      <4> HIDE DEF new
      <4> QED
        BY <1>7, <4>1, <4>2
    <3>4. CASE Scan(w)
      <4>1. PICK left : Scanned(w, left)
        BY <3>4 DEF Scan
      <4> DEFINE new == [wk[w] EXCEPT !.rest = Tail(@), !.remaining = left]
      <4>2. new.at = "scan"
        BY <1>5, <3>4 DEF Jobs, Scan, At
      <4>3. Become(w, Idle) \/ Become(w, new)
        BY <4>1 DEF Scanned
      <4> HIDE DEF new
      <4> QED
        BY <1>7, <4>2, <4>3
    <3> QED
      BY <1>15, <3>1, <3>2, <3>3, <3>4
  <2> QED
    BY <1>16, <2>1, <2>2
<1> QED
  BY <1>11, <1>12, <1>13, <1>14, <1>15 DEF WorkerRuns

\* What is reset takes all that depends on it along, and nothing that is not needed.
LEMMA ResetFacts ==
    ASSUME GraphInv, After, NEW S \in SUBSET Needed
    PROVE  /\ S \subseteq Downstream(S) /\ Downstream(S) \subseteq Needed
           /\ \A t \in Needed : \A d \in deps[t] : d \in Downstream(S) => t \in Downstream(S)
<1> DEFINE e == [s \in Steps |-> Range(dependants[s])]
<1>1. Needed \subseteq Steps /\ project \in Projects /\ dependants \in [Steps -> Seq(Needed)]
  BY NeededFacts DEF GraphInv
<1>2. \A s \in Steps : Range(dependants[s]) \subseteq Needed
  BY <1>1, LenProperties DEF Range
<1>3. e \in [Steps -> SUBSET Steps]
  BY <1>1, <1>2
<1>4. \A t \in Needed : deps[t] \subseteq Needed
  BY <1>1, NeededFacts
<1>5. \A t \in Needed : \A d \in deps[t] : t \in Range(dependants[d])
  BY <1>4, DependantsFacts
<1>6. \A s \in Steps : e[s] = Range(dependants[s])
  OBVIOUS
<1>7. Downstream(S) = Reached(S, e)
  BY DEF Downstream
<1> HIDE DEF e
<1>8. /\ S \subseteq Reached(S, e) /\ Reached(S, e) \subseteq Steps
      /\ \A t \in Reached(S, e) : e[t] \subseteq Reached(S, e)
      /\ \A T \in SUBSET Steps : S \subseteq T /\ (\A t \in T : e[t] \subseteq T) => Reached(S, e) \subseteq T
  BY <1>1, <1>3, ReachedFacts
<1>9. Reached(S, e) \subseteq Needed
  BY <1>1, <1>2, <1>6, <1>8
<1> QED
  BY <1>1, <1>4, <1>5, <1>6, <1>7, <1>8, <1>9

LEMMA DepsMain ==
    ASSUME DepsInv, WorkType, OnceInv, GraphInv, GraphInv',
           (\E k \in Top.todo : Visit(k)) \/ Visited \/ Prepared \/ SpawnInitial \/ Summarise
               \/ RebuildAll \/ \E S \in SUBSET Steps : FilesChange(S)
    PROVE  DepsInv'
<1>1. UNCHANGED <<project, wk>>
  BY DEF Visit, Visited, Prepared, SpawnInitial, Summarise, RebuildAll, FilesChange,
     Rebuild, graphVars
<1>2. deps' = deps /\ Needed' = Needed /\ project \in Projects
      /\ \A u \in Workers : At(u)' = At(u) /\ Step(u)' = Step(u)
  BY <1>1, ProjectStays DEF GraphInv, At, Step
<1>3. state \in [Steps -> States]
  BY DEF OnceInv, Shapes
<1>4. Needed \subseteq Steps /\ \A s \in Needed : deps[s] \subseteq Needed
  BY <1>2, NeededFacts
<1>5. CASE SpawnInitial
  <2>1. UNCHANGED state /\ mpc = "spawn" /\ mpc' \in {"spawn", "wait"}
    BY <1>5 DEF SpawnInitial
  <2>2. \A t : Ready(t)' = Ready(t)
    BY <1>2, <2>1 DEF Ready
  <2> QED
    BY <1>2, <2>1, <2>2 DEF DepsInv, DepsFirst, After
<1>6. ASSUME Quiet, mpc' \in {"prepare", "loop", "spawn", "watch", "panic"},
             ~After => UNCHANGED queue \/ mpc' = "spawn",
             mpc' \in {"prepare", "loop", "watch", "panic"} => UNCHANGED queue,
             DepsFirst',
             IF After' THEN \A s \in Steps : s \notin Needed => state'[s] = "precheck_unstarted"
             ELSE \A s \in Steps : state'[s] \in {"precheck_unstarted", "precheck_started", "precheck_done"}
      PROVE  DepsInv'
  <2>1. \A w \in Workers : At(w)' = "idle"
    BY <1>2, <1>6 DEF Quiet, At
  <2>2. mpc' \in {"prepare", "loop", "watch", "panic"} => Quiet'
    BY <1>1, <1>6 DEF Quiet
  <2> QED
    BY <1>2, <1>6, <2>1, <2>2 DEF DepsInv
<1>7. CASE (\E k \in Top.todo : Visit(k)) \/ Visited
  <2>1. mpc = "prepare" /\ mpc' \in {"prepare", "loop"} /\ UNCHANGED queue
    BY <1>7 DEF Visit, Visited, Descend, mainVars
  <2>2. \A s \in Steps : state'[s] \in {"precheck_unstarted", "precheck_started", "precheck_done"}
    <3>1. \A s \in Steps : state[s] \in {"precheck_unstarted", "precheck_started", "precheck_done"}
      BY <2>1 DEF DepsInv, After
    <3> QED
      BY <1>3, <1>7, <3>1 DEF Visit, Visited, Descend
  <2>3. DepsFirst'
    BY <2>2 DEF DepsFirst
  <2> QED
    BY <1>6, <2>1, <2>2, <2>3 DEF DepsInv, After
<1>8. CASE Prepared
  <2>1. /\ mpc = "prepare" /\ PrepInv /\ mpc' = "spawn" /\ UNCHANGED queue
    BY <1>8 DEF Prepared, GraphInv
  <2>2. /\ Range(stepStack) = Needed
        /\ \A s \in Steps : state[s] = IF s \in Needed THEN "precheck_done" ELSE "precheck_unstarted"
    BY <1>8, <2>1, PreparedFacts
  <2>3. \A s \in Steps : /\ s \notin Needed => state'[s] = "precheck_unstarted"
                         /\ state'[s] \in {"precheck_unstarted", "precheck_done", "skipped_oom"}
    BY <1>8, <2>2 DEF Prepared
  <2>4. DepsFirst'
    BY <2>3 DEF DepsFirst
  <2> QED
    BY <1>6, <2>1, <2>3, <2>4 DEF DepsInv, After
<1>9. CASE Summarise
  <2>1. Quiet /\ mpc = "wait" /\ mpc' \in {"watch", "panic"} /\ UNCHANGED queue
    BY <1>9 DEF Summarise
  <2>2. \A s \in Steps : \/ state'[s] = state[s]
                         \/ state[s] = "precheck_done" /\ state'[s] = "dependency_failure"
    <3>1. UNCHANGED state \/ state' = [s \in Steps |-> IF state[s] = "precheck_done"
                                         THEN "dependency_failure" ELSE state[s]]
      BY <1>9 DEF Summarise
    <3> QED
      BY <3>1
  <2>3. \A s \in Steps : s \notin Needed => state'[s] = "precheck_unstarted"
    BY <2>1, <2>2 DEF DepsInv, After
  <2>4. DepsFirst'
    <3>1. \A s \in Steps : deps[s] \subseteq Steps
      BY <1>2, ProjectFacts
    <3>2. \A s \in Steps : Ready(s) => Ready(s)'
      BY <1>2, <2>2, <3>1 DEF Ready
    <3> QED
      BY <2>2, <3>2 DEF DepsInv, DepsFirst
  <2> QED
    BY <1>6, <2>1, <2>3, <2>4 DEF After
<1>10. CASE RebuildAll
  <2>1. mpc = "watch" /\ mpc' = "spawn" /\ After /\ Quiet
    BY <1>10 DEF RebuildAll, Rebuild, DepsInv, After
  <2>2. Range(stepStack) = Needed
    BY <2>1 DEF GraphInv, GraphBuilt, After, ToSet, Range
  <2>3. \A s \in Steps : state'[s] = IF s \in Needed THEN "precheck_done" ELSE "precheck_unstarted"
    BY <1>10, <2>1, <2>2 DEF RebuildAll, DepsInv
  <2>4. DepsFirst'
    BY <2>3 DEF DepsFirst
  <2> QED
    BY <1>6, <2>1, <2>3, <2>4 DEF After
<1>11. ASSUME NEW S \in SUBSET Steps, FilesChange(S) PROVE DepsInv'
  <2> DEFINE T == S \cup {s \in Steps : state[s] \in {"dependency_failure", "failure", "skipped"}}
             D == Downstream(T)
  <2>1. mpc = "watch" /\ mpc' = "spawn" /\ After /\ Quiet
    BY <1>11 DEF FilesChange, Rebuild, DepsInv, After
  <2>2. T \in SUBSET Needed
    BY <1>4, <1>11, <2>1 DEF FilesChange, DepsInv
  <2>3. /\ D \subseteq Needed
        /\ \A t \in Needed : \A d \in deps[t] : d \in D => t \in D
    BY <2>1, <2>2, ResetFacts
  <2>4. \A s \in Steps : state'[s] = IF s \in D THEN "precheck_done" ELSE state[s]
    BY <1>11 DEF FilesChange, Reset
  <2> HIDE DEF D
  <2>5. \A s \in Steps : s \notin Needed => state'[s] = "precheck_unstarted"
    BY <2>1, <2>3, <2>4 DEF DepsInv
  <2>6. DepsFirst'
    <3> SUFFICES ASSUME NEW s \in Steps, state'[s] \in {"running", "success", "failure", "skipped"}
                 PROVE  Ready(s)'
      BY DEF DepsFirst
    <3>1. s \notin D /\ state'[s] = state[s] /\ s \in Needed
      BY <2>4, <2>5
    <3>2. Ready(s)
      BY <3>1 DEF DepsInv, DepsFirst
    <3>3. \A d \in deps[s] : d \in Steps /\ state'[d] = state[d]
      BY <1>4, <2>3, <2>4, <3>1
    <3> QED
      BY <1>2, <3>2, <3>3 DEF Ready
  <2> QED
    BY <1>6, <2>1, <2>5, <2>6 DEF After
<1> QED
  BY <1>5, <1>7, <1>8, <1>9, <1>10, <1>11

BuildInv == OnceInv /\ GraphInv /\ WorkType /\ DepsInv

LEMMA BuildInit == Init => BuildInv
  BY OnceInit, GraphInit, WorkInit, DepsInit DEF BuildInv

LEMMA BuildNext == BuildInv /\ [Next]_vars => BuildInv'
<1> SUFFICES ASSUME BuildInv, [Next]_vars PROVE BuildInv'
  OBVIOUS
<1>1. OnceInv' /\ GraphInv'
  BY OnceNext, GraphNext DEF BuildInv
<1>2. CASE MainRuns \/ RebuildAll \/ \E S \in SUBSET Steps : FilesChange(S)
  <2>1. WorkType'
    BY <1>2, WorkMain DEF MainRuns, BuildInv
  <2> QED
    BY <1>1, <1>2, <2>1, DepsMain DEF MainRuns, BuildInv
<1>3. ASSUME NEW w \in Workers, WorkerRuns(w) PROVE BuildInv'
  <2>1. After
    <3>1. ~Quiet
      BY <1>3 DEF WorkerRuns, Take, Check, ClaimFree, ClaimRss, Make, SpawnDependant,
         Return,
                  GiveBack, Scan, At, Quiet
    <3> QED
      BY <3>1 DEF BuildInv, DepsInv, After
  <2> QED
    BY <1>1, <1>3, <2>1, WorkWorker, DepsWorker DEF BuildInv
<1>4. CASE UNCHANGED vars
  <2>1. UNCHANGED <<project, mpc, state, queue, toSpawn, blocked, claimed, wk>>
    BY <1>4 DEF vars, graphVars, mainVars, rssVars
  <2>2. deps' = deps /\ Needed' = Needed
    BY <2>1, ProjectStays
  <2>3. WorkType'
    BY <2>1, <2>2 DEF BuildInv, WorkType, Sound, Jobs
  <2>4. \A t : Ready(t)' = Ready(t)
    BY <2>1, <2>2 DEF Ready
  <2>5. \A w : At(w)' = At(w) /\ Step(w)' = Step(w)
    BY <2>1 DEF At, Step
  <2>6. DepsFirst' /\ Quiet' = Quiet /\ After' = After
    BY <2>1, <2>4 DEF BuildInv, DepsInv, DepsFirst, Quiet, After
  <2>7. DepsInv'
    BY <2>1, <2>2, <2>4, <2>5, <2>6 DEF BuildInv, DepsInv
  <2> QED
    BY <1>1, <2>3, <2>7 DEF BuildInv
<1> QED
  BY <1>2, <1>3, <1>4 DEF Next

\* A step is made after its dependencies, in every build: a result that is kept was made
\* from results that are kept (DepsFirst), for every graph and number of workers.
THEOREM DependenciesFirst == Spec => []DepsFirst
<1>1. BuildInv => DepsFirst
  BY DEF BuildInv, DepsInv
<1> QED
  BY <1>1, BuildInit, BuildNext, PTL DEF Spec


-----------------------------------------------------------------------------
(***************************************************************************)
(* Memory.  Each byte claimed is a pair of a worker and a number, so that  *)
(* a worker that takes its next place changes the count by what it claims. *)
(***************************************************************************)
Share(w) == IF At(w) \in {"make", "dependants"} THEN maxRss[Step(w)] ELSE 0
MemoryInv == IsFiniteSet(Claims) /\ MemoryBudget

LEMMA PlusShare ==
    ASSUME NEW A, IsFiniteSet(A), NEW w, NEW n \in Nat, \A c \in A : c[1] # w
    PROVE  /\ IsFiniteSet(A \cup ({w} \X (1 .. n)))
           /\ Cardinality(A \cup ({w} \X (1 .. n))) = Cardinality(A) + n
<1> DEFINE B == {w} \X (1 .. n)
<1>1. IsFiniteSet(1 .. n) /\ Cardinality(1 .. n) = n
  BY FS_Interval
<1>2. IsFiniteSet({w}) /\ Cardinality({w}) = 1
  BY FS_Singleton
<1>3. IsFiniteSet(B) /\ Cardinality(B) = n
  <2>1. IsFiniteSet(B) /\ Cardinality(B) = Cardinality({w}) * Cardinality(1 .. n)
    BY <1>1, <1>2, FS_Product
  <2> QED
    BY <1>1, <1>2, <2>1
<1>4. Cardinality(A \cap B) = 0
  <2>1. A \cap B = {}
    OBVIOUS
  <2> QED
    BY <2>1, FS_EmptySet
<1>5. Cardinality(A) \in Nat
  BY FS_CardinalityType
<1> HIDE DEF B
<1>6. IsFiniteSet(A \cup B) /\ Cardinality(A \cup B) = Cardinality(A) + Cardinality(B) - 0
  BY <1>3, <1>4, FS_Union
<1> QED
  BY <1>3, <1>5, <1>6 DEF B

\* What the others claim, and what one worker claims, make up everything.
LEMMA SharesAdd ==
    ASSUME NEW w \in Workers, IsFiniteSet(Claims), Share(w) \in Nat, Share(w)' \in Nat,
           \A u \in Workers : u # w => wk'[u] = wk[u], UNCHANGED project
    PROVE  /\ IsFiniteSet(Claims') /\ Cardinality(Claims) \in Nat
           /\ Cardinality(Claims') + Share(w) = Cardinality(Claims) + Share(w)'
<1> DEFINE A == {c \in Claims : c[1] # w}
           m == Share(w)'
           n == Share(w)
<1>1. IsFiniteSet(A) /\ \A c \in A : c[1] # w
  BY FS_Subset
<1>2. Claims = A \cup ({w} \X (1 .. n))
  BY DEF Claims, Holders, Share, At, Step
<1>3. maxRss' = maxRss
  BY ProjectStays
<1>4. Claims' = A \cup ({w} \X (1 .. m))
  <2>1. \A u \in Workers : u # w => At(u)' = At(u) /\ Step(u)' = Step(u)
    BY DEF At, Step
  <2>2. A = UNION {{u} \X (1 .. maxRss[Step(u)]) : u \in Holders \ {w}}
    BY DEF Claims
  <2>3. A = UNION {{u} \X (1 .. maxRss'[Step(u)']) : u \in Holders' \ {w}}
    BY <1>3, <2>1, <2>2 DEF Holders
  <2>4. CASE w \in Holders'
    BY <2>3, <2>4 DEF Claims, Holders, Share
  <2>5. CASE w \notin Holders'
    <3>1. m = 0 /\ 1 .. 0 = {}
      BY <2>5 DEF Holders, Share
    <3>2. Holders' \ {w} = Holders'
      BY <2>5
    <3> QED
      BY <2>3, <3>1, <3>2 DEF Claims
  <2> QED
    BY <2>4, <2>5
<1>5. m \in Nat /\ n \in Nat /\ Cardinality(A) \in Nat
  BY <1>1, FS_CardinalityType
<1> HIDE DEF A, m, n
<1>6. Cardinality(Claims) = Cardinality(A) + n
  BY <1>1, <1>2, <1>5, PlusShare
<1>7. IsFiniteSet(Claims') /\ Cardinality(Claims') = Cardinality(A) + m
  BY <1>1, <1>4, <1>5, PlusShare
<1> QED
  BY <1>5, <1>6, <1>7 DEF m, n

LEMMA MemoryInit == Init => MemoryInv
<1> SUFFICES ASSUME Init PROVE MemoryInv
  OBVIOUS
<1>1. Claims = {}
  BY DEF Init, Claims, Holders, At, Idle
<1>2. project.limit \in Nat
  BY ProjectFacts DEF Init
<1> QED
  BY <1>1, <1>2, FS_EmptySet DEF Init, MemoryInv, MemoryBudget

LEMMA MemoryStays ==
    ASSUME MemoryInv, UNCHANGED <<project, wk, claimed>>
    PROVE  MemoryInv'
<1>1. Claims' = Claims
  BY ProjectStays DEF Claims, Holders, At, Step
<1> QED
  BY <1>1 DEF MemoryInv, MemoryBudget

LEMMA MemoryWorker ==
    ASSUME MemoryInv, BuildInv, NEW w \in Workers, WorkerRuns(w)
    PROVE  MemoryInv'
<1> DEFINE m == Share(w)'
           n == Share(w)
           s == Step(w)
<1>1. UNCHANGED project /\ \E new : Become(w, new)
  BY DEF WorkerRuns, Take, Check, TooEarly, ClaimFree, ClaimRss, Begin, Goto, Make,
     SpawnDependant,
         Return, GiveBack, Scan, Scanned, graphVars
<1>2. wk \in [Workers -> Jobs] /\ wk[w] \in Jobs /\ (At(w) # "idle" => s \in Steps)
      /\ project \in Projects
  <2>1. project \in Projects /\ Needed \subseteq Steps
    BY NeededFacts DEF BuildInv, GraphInv
  <2> QED
    BY <2>1 DEF BuildInv, WorkType, Sound, At, Step
<1>3. \A new : Become(w, new) => /\ wk'[w] = new
                                 /\ \A u \in Workers : u # w => wk'[u] = wk[u]
  BY <1>2 DEF Become
<1>4. maxRss \in [Steps -> Nat] /\ project.limit \in Nat /\ maxRss' = maxRss
  BY <1>1, <1>2, ProjectFacts, ProjectStays
<1>5. n \in Nat
  BY <1>2, <1>4 DEF Share
<1>6. claimed \in Int /\ claimed <= project.limit /\ claimed = Cardinality(Claims) /\ IsFiniteSet(Claims)
  BY DEF BuildInv, WorkType, MemoryInv, MemoryBudget
<1>7. ASSUME m \in Nat, claimed' = claimed + (m - n), claimed' <= project.limit
      PROVE  MemoryInv'
  <2>1. /\ IsFiniteSet(Claims') /\ Cardinality(Claims) \in Nat
        /\ Cardinality(Claims') + n = Cardinality(Claims) + m
    BY <1>1, <1>3, <1>5, <1>6, <1>7, SharesAdd
  <2>2. Cardinality(Claims') \in Nat
    BY <2>1, FS_CardinalityType
  <2> HIDE DEF m, n
  <2>3. claimed' = Cardinality(Claims')
    <3> DEFINE a == Cardinality(Claims)  b == Cardinality(Claims')
    <3>1. /\ a \in Nat /\ b \in Nat /\ m \in Nat /\ n \in Nat /\ b + n = a + m
          /\ claimed' = a + (m - n)
      BY <1>5, <1>6, <1>7, <2>1, <2>2
    <3> HIDE DEF a, b
    <3>2. claimed' = b
      BY <3>1
    <3> QED
      BY <3>2 DEF b
  <2> QED
    BY <1>1, <1>7, <2>1, <2>3 DEF MemoryInv, MemoryBudget
<1>8. ASSUME NEW new, Become(w, new), new.at \in {"make", "dependants"}
      PROVE  m = maxRss[new.step]
  BY <1>3, <1>4, <1>8 DEF Share, At, Step
<1>9. ASSUME NEW new, Become(w, new), new.at \notin {"make", "dependants"}
      PROVE  m = 0
  BY <1>3, <1>9 DEF Share, At
<1>10. ASSUME UNCHANGED claimed, m = n PROVE MemoryInv'
  BY <1>5, <1>6, <1>7, <1>10
<1>11. Idle.at = "idle"
  BY DEF Idle
<1>12. Become(w, Idle) => m = 0
  BY <1>9, <1>11
<1>13. At(w) \notin {"make", "dependants"} => n = 0
  BY DEF Share
<1>14. At(w) \in {"make", "dependants"} => n = maxRss[s] /\ s \in Steps
  BY <1>2 DEF Share
<1>15. \A p : wk[w].step = s /\ [wk[w] EXCEPT !.at = p].at = p /\ [wk[w] EXCEPT !.at = p].step = s
  BY <1>2 DEF Jobs, Step
<1>16. CASE Take(w)
  <2> DEFINE new == [Idle EXCEPT !.at = "check", !.step = Head(queue)]
  <2>1. new.at = "check" /\ Become(w, new) /\ UNCHANGED claimed /\ At(w) = "idle"
    BY <1>16 DEF Take, Idle, rssVars
  <2> HIDE DEF new
  <2>2. m = 0
    BY <1>9, <2>1
  <2> QED
    BY <1>10, <1>13, <2>1, <2>2
<1>17. CASE Check(w)
  <2>1. UNCHANGED claimed /\ At(w) = "check"
    BY <1>17 DEF Check, rssVars
  <2>2. Become(w, Idle) \/ Become(w, [wk[w] EXCEPT !.at = "claim"])
    BY <1>17 DEF Check, TooEarly, Goto
  <2>3. m = 0
    <3> DEFINE new == [wk[w] EXCEPT !.at = "claim"]
    <3>1. new.at = "claim"
      BY <1>15
    <3> HIDE DEF new
    <3> QED
      BY <1>9, <1>12, <2>2, <3>1 DEF new
  <2> QED
    BY <1>10, <1>13, <2>1, <2>3
<1>18. CASE ClaimFree(w) \/ ClaimRss(w)
  <2>1. At(w) = "claim" /\ n = 0 /\ s \in Steps
    BY <1>2, <1>13, <1>18 DEF ClaimFree, ClaimRss
  <2>2. Begin(w) => m = maxRss[s]
    <3> DEFINE new == [wk[w] EXCEPT !.at = "make"]
    <3>1. new.at = "make" /\ new.step = s
      BY <1>15
    <3>2. Begin(w) => Become(w, new)
      BY DEF Begin, Goto
    <3> HIDE DEF new
    <3> QED
      BY <1>8, <3>1, <3>2
  <2> HIDE DEF m, n, s
  <2>3. CASE Begin(w) /\ maxRss[s] = 0 /\ UNCHANGED claimed
    BY <1>10, <2>1, <2>2, <2>3
  <2>4. CASE Begin(w) /\ claimed' = claimed + maxRss[s] /\ FitsNow(s)
    <3>1. maxRss[s] \in Nat /\ m = maxRss[s] /\ claimed' <= project.limit
      BY <1>4, <2>1, <2>2, <2>4 DEF FitsNow, Fits
    <3> QED
      BY <1>6, <1>7, <2>1, <2>4, <3>1
  <2>5. CASE Become(w, Idle) /\ UNCHANGED claimed
    BY <1>10, <1>12, <2>1, <2>5
  <2> QED
    BY <1>18, <2>3, <2>4, <2>5 DEF ClaimFree, ClaimRss, rssVars, s
<1>19. ASSUME NEW r \in Results, Make(w, r) PROVE MemoryInv'
  <2> DEFINE new == [wk[w] EXCEPT !.at = "dependants",
                         !.rest = IF r = "failure" THEN <<>> ELSE dependants[Step(w)]]
  <2>1. Become(w, new) /\ At(w) = "make" /\ UNCHANGED claimed
    BY <1>19 DEF Make, rssVars
  <2>2. new.at = "dependants" /\ new.step = s
    BY <1>2 DEF Jobs, Step
  <2> HIDE DEF new
  <2>3. m = maxRss[s]
    BY <1>8, <2>1, <2>2
  <2> QED
    BY <1>10, <1>14, <2>1, <2>3
<1>20. CASE SpawnDependant(w)
  <2> DEFINE new == [wk[w] EXCEPT !.rest = Tail(@)]
  <2>1. Become(w, new) /\ At(w) = "dependants" /\ UNCHANGED claimed
    BY <1>20 DEF SpawnDependant, rssVars
  <2>2. new.at = "dependants" /\ new.step = s
    BY <1>2, <2>1 DEF Jobs, Step, At
  <2> HIDE DEF new
  <2>3. m = maxRss[s]
    BY <1>8, <2>1, <2>2
  <2> QED
    BY <1>10, <1>14, <2>1, <2>3
<1>21. CASE Return(w)
  <2>1. Become(w, Idle) /\ n = 0 /\ UNCHANGED claimed
    BY <1>14, <1>21 DEF Return, rssVars
  <2> QED
    BY <1>10, <1>12, <2>1
<1>22. CASE GiveBack(w)
  <2> DEFINE new == [wk[w] EXCEPT !.at = "scan", !.rest = blocked, !.remaining = project.limit - claimed']
  <2>1. new.at = "scan"
    BY <1>2 DEF Jobs
  <2>2. (Become(w, Idle) \/ Become(w, new)) /\ At(w) = "dependants" /\ claimed' = claimed - maxRss[s]
    BY <1>22 DEF GiveBack
  <2> HIDE DEF new
  <2>3. m = 0
    BY <1>9, <1>12, <2>1, <2>2
  <2>4. n = maxRss[s] /\ n \in Nat
    BY <1>5, <1>14, <2>2
  <2> HIDE DEF m, n, s
  <2>5. claimed' = claimed + (m - n) /\ claimed' <= project.limit
    BY <1>4, <1>6, <2>2, <2>3, <2>4
  <2> QED
    BY <1>7, <2>3, <2>5
<1>23. CASE Scan(w)
  <2>1. PICK left : Scanned(w, left)
    BY <1>23 DEF Scan
  <2> DEFINE new == [wk[w] EXCEPT !.rest = Tail(@), !.remaining = left]
  <2>2. At(w) = "scan" /\ UNCHANGED claimed
    BY <1>23 DEF Scan
  <2>3. new.at = "scan"
    BY <1>2, <2>2 DEF Jobs, At
  <2>4. Become(w, Idle) \/ Become(w, new)
    BY <2>1 DEF Scanned
  <2> HIDE DEF new
  <2>5. m = 0
    BY <1>9, <1>12, <2>3, <2>4
  <2> QED
    BY <1>10, <1>13, <2>2, <2>5
<1> QED
  BY <1>16, <1>17, <1>18, <1>19, <1>20, <1>21, <1>22, <1>23 DEF WorkerRuns

LEMMA MemoryNext == BuildInv /\ MemoryInv /\ [Next]_vars => MemoryInv'
<1> SUFFICES ASSUME BuildInv, MemoryInv, [Next]_vars PROVE MemoryInv'
  OBVIOUS
<1>1. CASE MainRuns \/ RebuildAll \/ (\E S \in SUBSET Steps : FilesChange(S)) \/ UNCHANGED vars
  <2>1. UNCHANGED <<project, wk, claimed>>
    BY <1>1 DEF MainRuns, Visit, Visited, Prepared, SpawnInitial, Summarise, RebuildAll,
                FilesChange, Rebuild, graphVars, rssVars, vars
  <2> QED
    BY <2>1, MemoryStays
<1> QED
  BY <1>1, MemoryWorker DEF Next

\* For every graph and number of workers, what is claimed is what the steps being made
\* declared, and stays within the limit (MemoryBudget).
THEOREM BudgetKept == Spec => []MemoryBudget
<1>1. MemoryInv => MemoryBudget
  BY DEF MemoryInv
<1> QED
  BY <1>1, BuildInit, BuildNext, MemoryInit, MemoryNext, PTL DEF Spec


-----------------------------------------------------------------------------
(***************************************************************************)
(* Nothing is forgotten.  A step that could be made is queued, looked at,  *)
(* listed as blocked, or a dependency that was made has yet to tell it.    *)
(* If one that fits is blocked, something moves: memory will be given      *)
(* back, or a step that can be made and needs memory is queued.  A scan    *)
(* that keeps a step which fits has less than the whole limit to offer,    *)
(* since others hold the rest or it queued somebody.                       *)
(***************************************************************************)
Waiting(s) == state[s] = "precheck_done" /\ Fits(maxRss[s]) /\ Ready(s)

QueuedBy(w, s) == At(w) \in {"check", "claim"} /\ Step(w) = s
ListedBy(w, s) == At(w) = "scan" /\ s \in Range(wk[w].rest)
ToldBy(w, s) == At(w) = "dependants" /\ s \in Range(wk[w].rest)
HoldsBytes(w) == At(w) \in {"make", "dependants"} /\ maxRss[Step(w)] # 0

Queued(s) == s \in Range(queue) \/ \E w \in Workers : QueuedBy(w, s)
Listed(s) == s \in Range(blocked) \/ \E w \in Workers : ListedBy(w, s)

Tended == \A s \in Needed : Waiting(s) =>
    s \in Range(toSpawn) \/ Queued(s) \/ Listed(s) \/ \E w \in Workers : ToldBy(w, s)
ListedReady == \A s \in Needed : Listed(s) => maxRss[s] # 0 /\ Ready(s)
Moving ==
    \/ \E w \in Workers : HoldsBytes(w)
    \/ \E s \in Needed : maxRss[s] # 0 /\ Waiting(s) /\ Queued(s)
ScanFits == \A w \in Workers : At(w) = "scan" =>
    wk[w].remaining <= project.limit /\ (wk[w].remaining = project.limit \/ Moving)
BlockedMoves == (\E s \in Range(blocked) : Fits(maxRss[s])) => Moving

TendInv == Tended /\ ListedReady /\ (~stale => ScanFits /\ BlockedMoves)

NeededKnown == After => \A s \in Needed : state[s] \notin {"precheck_unstarted", "precheck_started"}
ForgetInv ==
    /\ mpc \in {"prepare", "loop", "watch"} => blocked = <<>>
    /\ mpc = "wait" => toSpawn = <<>>
    /\ NeededKnown
    /\ mpc \in {"spawn", "wait"} => TendInv

\* What is the same for everybody but w when w takes a step
Elsewhere(w, s) == \E u \in Workers \ {w} : QueuedBy(u, s) \/ ListedBy(u, s) \/ ToldBy(u, s)
QueuedElse(w, s) == \E u \in Workers \ {w} : QueuedBy(u, s)
Here(w, s) == \/ s \in Range(queue) \/ s \in Range(blocked)
              \/ QueuedBy(w, s) \/ ListedBy(w, s) \/ ToldBy(w, s)

LEMMA OthersSame ==
    ASSUME NEW w \in Workers, \A u \in Workers : u # w => wk'[u] = wk[u], UNCHANGED project
    PROVE  \A u \in Workers : u # w =>
               /\ At(u)' = At(u) /\ Step(u)' = Step(u) /\ HoldsBytes(u)' = HoldsBytes(u)
               /\ \A s : /\ QueuedBy(u, s)' = QueuedBy(u, s) /\ ListedBy(u, s)' = ListedBy(u, s)
                         /\ ToldBy(u, s)' = ToldBy(u, s)
<1>1. maxRss' = maxRss
  BY ProjectStays
<1>2. \A u \in Workers : u # w => At(u)' = At(u) /\ Step(u)' = Step(u) /\ wk'[u] = wk[u]
  BY DEF At, Step
<1> QED
  BY <1>1, <1>2 DEF HoldsBytes, QueuedBy, ListedBy, ToldBy

\* A step that could be made is tended if w does not lose it.
LEMMA TendedStep ==
    ASSUME Tended, NEW w \in Workers, \A u \in Workers : u # w => wk'[u] = wk[u],
           UNCHANGED <<project, toSpawn>>,
           \A s \in Needed : Waiting(s)' => \/ Here(w, s)'
                                            \/ Waiting(s) /\ (Here(w, s) => Here(w, s)')
    PROVE  Tended'
<1>1. Needed' = Needed
  BY ProjectStays
<1>2. \A s : Elsewhere(w, s)' = Elsewhere(w, s)
  BY OthersSame DEF Elsewhere
<1>3. \A s : (s \in Range(toSpawn) \/ Queued(s) \/ Listed(s) \/ \E u \in Workers : ToldBy(u, s))
              <=> s \in Range(toSpawn) \/ Here(w, s) \/ Elsewhere(w, s)
  BY DEF Queued, Listed, Here, Elsewhere
<1>4. \A s : (s \in Range(toSpawn)' \/ Queued(s)' \/ Listed(s)' \/ \E u \in Workers : ToldBy(u, s)')
              <=> s \in Range(toSpawn)' \/ Here(w, s)' \/ Elsewhere(w, s)'
  BY DEF Queued, Listed, Here, Elsewhere
<1>5. \A s \in Needed : Waiting(s)' => s \in Range(toSpawn)' \/ Here(w, s)' \/ Elsewhere(w, s)'
  BY <1>2, <1>3 DEF Tended
<1> QED
  BY <1>1, <1>4, <1>5 DEF Tended

\* What moves goes on moving if w does not give memory back.
LEMMA MovingStep ==
    ASSUME NEW w \in Workers, \A u \in Workers : u # w => wk'[u] = wk[u], UNCHANGED project,
           HoldsBytes(w) => HoldsBytes(w)',
           \A s \in Needed : maxRss[s] # 0 /\ Waiting(s) /\ Queued(s) =>
               \/ HoldsBytes(w)'
               \/ /\ Waiting(s)'
                  /\ s \in Range(queue) \/ QueuedBy(w, s) => s \in Range(queue)' \/ QueuedBy(w, s)'
               \/ Moving'
    PROVE  Moving => Moving'
<1>1. Needed' = Needed /\ maxRss' = maxRss
  BY ProjectStays
<1>2. \A s : QueuedElse(w, s)' = QueuedElse(w, s)
  BY OthersSame DEF QueuedElse
<1>3. \A s : Queued(s) <=> s \in Range(queue) \/ QueuedBy(w, s) \/ QueuedElse(w, s)
  BY DEF Queued, QueuedElse
<1>4. \A s : Queued(s)' <=> s \in Range(queue)' \/ QueuedBy(w, s)' \/ QueuedElse(w, s)'
  BY DEF Queued, QueuedElse
<1>5. HoldsBytes(w)' => Moving'
  BY DEF Moving
<1>6. ASSUME NEW s \in Needed, maxRss[s] # 0, Waiting(s), Queued(s) PROVE Moving'
  <2>1. ASSUME Waiting(s)', s \in Range(queue) \/ QueuedBy(w, s) => s \in Range(queue)' \/ QueuedBy(w, s)'
        PROVE  Moving'
    <3>1. Queued(s)'
      BY <1>2, <1>3, <1>4, <1>6, <2>1
    <3>2. maxRss'[s] # 0 /\ s \in Needed'
      BY <1>1, <1>6
    <3> QED
      BY <2>1, <3>1, <3>2 DEF Moving
  <2> QED
    BY <1>5, <1>6, <2>1
<1>7. ASSUME NEW u \in Workers, HoldsBytes(u) PROVE Moving'
  <2>1. CASE u = w
    BY <1>5, <1>7, <2>1
  <2>2. CASE u # w
    BY <1>7, <2>2, OthersSame DEF Moving
  <2> QED
    BY <2>1, <2>2
<1> QED
  BY <1>6, <1>7 DEF Moving

\* The lists and the scans, when what moves goes on moving.
LEMMA ListsStep ==
    ASSUME TendInv, NEW w \in Workers, \A u \in Workers : u # w => wk'[u] = wk[u],
           UNCHANGED project, project \in Projects,
           \A t \in Steps : Ready(t) => Ready(t)',
           \A s \in Needed : s \in Range(blocked)' \/ ListedBy(w, s)' =>
               Listed(s) \/ (maxRss[s] # 0 /\ Ready(s)),
           ~stale' => ~stale /\ (Moving => Moving'),
           ~stale' => \A s \in Range(blocked)' : s \in Range(blocked) \/ (Fits(maxRss[s]) => Moving'),
           ~stale' /\ At(w)' = "scan" =>
               wk'[w].remaining <= project.limit /\ (wk'[w].remaining = project.limit \/ Moving')
    PROVE  ListedReady' /\ (~stale' => ScanFits' /\ BlockedMoves')
<1>1. Needed' = Needed /\ maxRss' = maxRss /\ Needed \subseteq Steps
  BY ProjectStays, NeededFacts
<1>2. \A u \in Workers : u # w => At(u)' = At(u) /\ \A s : ListedBy(u, s)' = ListedBy(u, s)
  BY OthersSame
<1>3. \A s \in Needed : Listed(s)' => maxRss[s] # 0 /\ Ready(s)
  BY <1>2 DEF Listed, TendInv, ListedReady
<1>4. ListedReady'
  <2> SUFFICES ASSUME NEW s \in Needed, Listed(s)' PROVE maxRss'[s] # 0 /\ Ready(s)'
    BY <1>1 DEF ListedReady
  <2> QED
    BY <1>1, <1>3
<1>5. ~stale' => ScanFits'
  <2> SUFFICES ASSUME ~stale', NEW u \in Workers, At(u)' = "scan"
               PROVE  wk'[u].remaining <= project'.limit /\ (wk'[u].remaining = project'.limit \/ Moving')
    BY DEF ScanFits
  <2> QED
    BY <1>2 DEF TendInv, ScanFits
<1>6. ~stale' => BlockedMoves'
  <2> SUFFICES ASSUME ~stale', NEW s \in Range(blocked)', Fits(maxRss[s])' PROVE Moving'
    BY DEF BlockedMoves
  <2>1. Fits(maxRss[s])
    BY <1>1 DEF Fits
  <2> QED
    BY <2>1 DEF TendInv, BlockedMoves
<1> QED
  BY <1>4, <1>5, <1>6

LEMMA HeadRange ==
    ASSUME NEW S, NEW q \in Seq(S), q # <<>>
    PROVE  /\ Range(q) = {Head(q)} \cup Range(Tail(q))
           /\ Len(q) = 1 => Range(Tail(q)) = {}
<1>1. Len(q) \in Nat \ {0} /\ DOMAIN q = 1 .. Len(q) /\ Head(q) = q[1]
  BY EmptySeq, LenProperties
<1>2. /\ Tail(q) \in Seq(S) /\ Len(Tail(q)) = Len(q) - 1
      /\ \A i \in 1 .. Len(Tail(q)) : Tail(q)[i] = q[i + 1]
  BY HeadTailProperties
<1>3. DOMAIN Tail(q) = 1 .. Len(q) - 1
  BY <1>2, LenProperties
<1> DEFINE t == Tail(q)  h == Head(q)  n == Len(q)
<1> HIDE DEF t, h, n
<1>4. /\ n \in Nat \ {0} /\ DOMAIN q = 1 .. n /\ h = q[1] /\ DOMAIN t = 1 .. n - 1
      /\ \A i \in 1 .. n - 1 : t[i] = q[i + 1]
  BY <1>1, <1>2, <1>3 DEF t, h, n
<1>5. \A j \in 1 .. n : j = 1 \/ (j - 1 \in 1 .. n - 1 /\ q[j] = t[j - 1])
  BY <1>4
<1>6. Range(q) = {h} \cup Range(t)
  <2>1. \A x \in Range(q) : x \in {h} \cup Range(t)
    <3> SUFFICES ASSUME NEW j \in 1 .. n PROVE q[j] \in {h} \cup Range(t)
      BY <1>4 DEF Range
    <3> QED
      BY <1>4, <1>5 DEF Range
  <2>2. h \in Range(q)
    BY <1>4 DEF Range
  <2>3. \A i \in 1 .. n - 1 : i + 1 \in 1 .. n
    BY <1>4
  <2>4. \A x \in Range(t) : x \in Range(q)
    BY <1>4, <2>3 DEF Range
  <2> QED
    BY <2>1, <2>2, <2>4
<1>7. n = 1 => Range(t) = {}
  BY <1>4 DEF Range
<1> QED
  BY <1>6, <1>7 DEF t, h, n

LEMMA PrependRange ==
    ASSUME NEW S, NEW q \in Seq(S), NEW s \in S
    PROVE  Range(<<s>> \o q) = {s} \cup Range(q)
<1> DEFINE h == <<s>>  r == h \o q  n == Len(q)
<1>1. h \in Seq(S) /\ Len(h) = 1 /\ h[1] = s
  OBVIOUS
<1> HIDE DEF h
<1>2. /\ h \o q \in Seq(S) /\ Len(h \o q) = Len(h) + Len(q)
      /\ \A i \in 1 .. Len(h) + Len(q) : (h \o q)[i] = IF i <= Len(h) THEN h[i] ELSE q[i - Len(h)]
  BY <1>1, ConcatProperties
<1>3. n \in Nat /\ DOMAIN q = 1 .. n /\ DOMAIN r = 1 .. 1 + n
  BY <1>1, <1>2, LenProperties
<1> HIDE DEF r, n
<1>4. \A i \in 1 .. 1 + n : r[i] = IF i <= 1 THEN h[i] ELSE q[i - 1]
  BY <1>1, <1>2 DEF r, n
<1>5. r[1] = s /\ 1 \in 1 .. 1 + n
  BY <1>1, <1>3, <1>4
<1>6. \A i \in 1 .. n : i + 1 \in 1 .. 1 + n /\ r[i + 1] = q[i]
  BY <1>3, <1>4
<1>7. \A j \in 1 .. 1 + n : j = 1 \/ (j - 1 \in 1 .. n /\ r[j] = q[j - 1])
  BY <1>3, <1>4
<1>8. \A x \in Range(r) : x \in {s} \cup Range(q)
  <2> SUFFICES ASSUME NEW j \in 1 .. 1 + n PROVE r[j] \in {s} \cup Range(q)
    BY <1>3 DEF Range
  <2> QED
    BY <1>3, <1>5, <1>7 DEF Range
<1>9. s \in Range(r) /\ \A x \in Range(q) : x \in Range(r)
  BY <1>3, <1>5, <1>6 DEF Range
<1> QED
  BY <1>8, <1>9 DEF r, h


\* The setting of each step of a worker
Working(w) ==
    /\ w \in Workers /\ WorkerRuns(w)
    /\ ForgetInv /\ BuildInv /\ MemoryInv /\ BuildInv' /\ MemoryInv'

LEMMA WorkingFacts ==
    ASSUME NEW w, Working(w)
    PROVE  /\ w \in Workers /\ UNCHANGED <<project, toSpawn, mpc>> /\ mpc \in {"spawn", "wait"}
           /\ TendInv /\ After /\ project \in Projects /\ Needed \subseteq Steps
           /\ wk \in [Workers -> Jobs] /\ wk[w] \in Jobs /\ state \in [Steps -> States]
           /\ At(w) # "idle" => Step(w) \in Needed
           /\ queue \in Seq(Needed) /\ blocked \in Seq(Needed)
           /\ wk[w].rest \in Seq(Needed) /\ wk[w].remaining \in Int
           /\ deps' = deps /\ maxRss' = maxRss /\ Needed' = Needed
           /\ maxRss \in [Steps -> Nat] /\ project.limit \in Nat
           /\ deps \in [Steps -> SUBSET Steps] /\ \A s \in Needed : deps[s] \subseteq Needed
<1>1. /\ w \in Workers /\ UNCHANGED <<project, toSpawn, mpc>> /\ ~Quiet
  BY DEF Working, WorkerRuns, Take, Check, ClaimFree, ClaimRss, Make, SpawnDependant,
     Return,
         GiveBack, Scan, graphVars, mainVars, Quiet, At
<1>2. mpc \in {"spawn", "wait"} /\ TendInv /\ After /\ project \in Projects
  BY <1>1 DEF Working, BuildInv, DepsInv, GraphInv, ForgetInv, After
<1>3. /\ wk \in [Workers -> Jobs] /\ wk[w] \in Jobs /\ state \in [Steps -> States]
      /\ At(w) # "idle" => Step(w) \in Needed
      /\ queue \in Seq(Needed) /\ blocked \in Seq(Needed)
  BY <1>1 DEF Working, BuildInv, WorkType, OnceInv, Shapes, Sound, At, Step
<1>4. wk[w].rest \in Seq(Needed) /\ wk[w].remaining \in Int
  BY <1>3 DEF Jobs
<1>5. deps' = deps /\ maxRss' = maxRss /\ Needed' = Needed
  BY <1>1, ProjectStays
<1>6. /\ maxRss \in [Steps -> Nat] /\ project.limit \in Nat /\ deps \in [Steps -> SUBSET Steps]
      /\ Needed \subseteq Steps /\ \A s \in Needed : deps[s] \subseteq Needed
  BY <1>2, ProjectFacts, NeededFacts
<1> QED
  BY <1>1, <1>2, <1>3, <1>4, <1>5, <1>6

LEMMA Became ==
    ASSUME NEW w, Working(w), NEW new, Become(w, new)
    PROVE  /\ wk'[w] = new /\ At(w)' = new.at /\ Step(w)' = new.step
           /\ \A u \in Workers : u # w => wk'[u] = wk[u]
  BY WorkingFacts DEF Become, At, Step

LEMMA StateSame ==
    ASSUME NEW w, Working(w), UNCHANGED state
    PROVE  \A s : Ready(s)' = Ready(s) /\ Waiting(s)' = Waiting(s)
  BY WorkingFacts DEF Ready, Waiting, Fits

\* The step z comes to a state from which nothing becomes ready.
LEMMA StateMoves ==
    ASSUME NEW w, Working(w), NEW z \in Steps, NEW x, x \notin {"success", "skipped", "precheck_done"},
           state[z] \notin {"success", "skipped"}, state' = [state EXCEPT ![z] = x]
    PROVE  /\ \A t \in Steps : Ready(t)' = Ready(t) /\ ~Waiting(z)'
           /\ \A t \in Steps : t # z => Waiting(t)' = Waiting(t)
<1>1. /\ deps' = deps /\ maxRss' = maxRss /\ project' = project /\ state \in [Steps -> States]
      /\ deps \in [Steps -> SUBSET Steps]
  BY WorkingFacts
<1>2. \A t \in Steps : deps[t] \subseteq Steps
  BY <1>1
<1>3. \A t \in Steps : Ready(t)' = Ready(t)
  BY <1>1, <1>2 DEF Ready
<1> QED
  BY <1>1, <1>3 DEF Waiting, Fits

\* If memory is claimed after a step, somebody holds it then.
LEMMA ClaimedHeld ==
    ASSUME MemoryBudget', claimed' > 0
    PROVE  Moving'
<1>1. Claims' # {}
  BY FS_EmptySet DEF MemoryBudget
<1>2. PICK u \in Holders' : 1 .. (maxRss[Step(u)])' # {}
  BY <1>1 DEF Claims
<1>3. (maxRss[Step(u)])' # 0
  BY <1>2
<1>4. u \in Workers /\ HoldsBytes(u)'
  BY <1>2, <1>3 DEF Holders, HoldsBytes
<1> QED
  BY <1>4 DEF Moving

\* A step that changes no state, and keeps blocked and who holds memory
LEMMA TendPlain ==
    ASSUME NEW w, Working(w), UNCHANGED <<state, blocked, stale>>, NEW new, Become(w, new),
           HoldsBytes(w) => HoldsBytes(w)',
           \A s \in Needed : Waiting(s) /\ Here(w, s) => Here(w, s)',
           \A s \in Needed : maxRss[s] # 0 /\ Waiting(s) /\ (s \in Range(queue) \/ QueuedBy(w, s))
               => s \in Range(queue)' \/ QueuedBy(w, s)',
           new.at # "scan"
    PROVE  TendInv'
<1>1. /\ w \in Workers /\ UNCHANGED <<project, toSpawn>> /\ TendInv /\ project \in Projects
  BY WorkingFacts
<1>2. At(w)' # "scan" /\ \A u \in Workers : u # w => wk'[u] = wk[u]
  BY Became
<1>3. \A s : Ready(s)' = Ready(s) /\ Waiting(s)' = Waiting(s)
  BY StateSame
<1>4. Tended'
  BY <1>1, <1>2, <1>3, TendedStep DEF TendInv
<1>5. Moving => Moving'
  BY <1>1, <1>2, <1>3, MovingStep
<1>6. \A s : ~ListedBy(w, s)'
  BY <1>2 DEF ListedBy
<1>7. ListedReady' /\ (~stale' => ScanFits' /\ BlockedMoves')
  BY <1>1, <1>2, <1>3, <1>5, <1>6, ListsStep DEF Listed
<1> QED
  BY <1>4, <1>7 DEF TendInv

LEMMA TendTake == ASSUME NEW w, Working(w), Take(w) PROVE TendInv'
<1>1. /\ UNCHANGED <<state, blocked, stale>> /\ queue' = Tail(queue)
      /\ queue # <<>> /\ At(w) = "idle"
  BY DEF Take, rssVars, histVars
<1>2. PICK z : z = Head(queue)
  OBVIOUS
<1> DEFINE new == [Idle EXCEPT !.at = "check", !.step = z]
<1>3. Become(w, new) /\ new.at = "check" /\ new.step = z
  BY <1>2 DEF Take, Idle
<1>4. Range(queue) = {z} \cup Range(queue')
  BY <1>1, <1>2, WorkingFacts, HeadRange
<1> HIDE DEF new
<1>5. QueuedBy(w, z)'
  <2>1. At(w)' = "check" /\ Step(w)' = z
    BY <1>3, Became
  <2> QED
    BY <2>1 DEF QueuedBy
<1>6. \A s : ~QueuedBy(w, s) /\ ~ListedBy(w, s) /\ ~ToldBy(w, s)
  BY <1>1 DEF QueuedBy, ListedBy, ToldBy
<1>7. ~HoldsBytes(w)
  BY <1>1 DEF HoldsBytes
<1>8. Range(queue') = Range(queue)'
  OBVIOUS
<1>9. \A s : s \in Range(queue) => s \in Range(queue)' \/ QueuedBy(w, s)'
  BY <1>4, <1>5, <1>8
<1>10. Range(blocked)' = Range(blocked)
  BY <1>1
<1>11. \A s : Here(w, s) => Here(w, s)'
  BY <1>6, <1>9, <1>10 DEF Here
<1> QED
  BY <1>1, <1>3, <1>6, <1>7, <1>9, <1>11, TendPlain

LEMMA TendCheck == ASSUME NEW w, Working(w), Check(w) PROVE TendInv'
<1>1. /\ UNCHANGED <<blocked, stale, queue>> /\ At(w) = "check"
      /\ w \in Workers /\ UNCHANGED <<project, toSpawn>> /\ TendInv /\ project \in Projects
      /\ wk[w] \in Jobs /\ Needed \subseteq Steps
  BY WorkingFacts DEF Check, TooEarly, rssVars, histVars
<1>2. PICK z \in Needed : z = Step(w)
  BY <1>1, WorkingFacts
<1>3. \A s : ~ListedBy(w, s) /\ ~ToldBy(w, s) /\ (QueuedBy(w, s) => s = z)
  BY <1>1, <1>2 DEF ListedBy, ToldBy, QueuedBy
<1>4. ~HoldsBytes(w)
  BY <1>1 DEF HoldsBytes
<1> DEFINE new == [wk[w] EXCEPT !.at = "claim"]
<1>5. new.at = "claim" /\ new.step = z
  BY <1>1, <1>2 DEF Jobs, Step
<1> HIDE DEF new
<1>6. Range(queue)' = Range(queue) /\ Range(blocked)' = Range(blocked)
  BY <1>1
<1>7. CASE Become(w, new) /\ UNCHANGED state
  <2>1. QueuedBy(w, z)'
    <3>1. At(w)' = "claim" /\ Step(w)' = z
      BY <1>5, <1>7, Became
    <3> QED
      BY <3>1 DEF QueuedBy
  <2>2. \A s : Here(w, s) => Here(w, s)'
    BY <1>3, <1>6, <2>1 DEF Here
  <2>3. \A s : s \in Range(queue) \/ QueuedBy(w, s) => s \in Range(queue)' \/ QueuedBy(w, s)'
    BY <1>3, <1>6, <2>1
  <2> QED
    BY <1>1, <1>4, <1>5, <1>7, <2>2, <2>3, TendPlain
<1>8. CASE Become(w, Idle) /\ UNCHANGED state /\ Early(z)
  <2>1. ~Waiting(z)
    BY <1>8 DEF Early, Ready, Waiting
  <2>2. \A s : Waiting(s) /\ Here(w, s) => Here(w, s)'
    BY <1>3, <1>6, <2>1 DEF Here
  <2>3. \A s : Waiting(s) /\ (s \in Range(queue) \/ QueuedBy(w, s)) => s \in Range(queue)'
    BY <1>3, <1>6, <2>1
  <2>4. Idle.at # "scan"
    BY DEF Idle
  <2> QED
    BY <1>1, <1>4, <1>8, <2>2, <2>3, <2>4, TendPlain
<1>9. CASE Become(w, Idle) /\ Doomed(z) /\ state' = [state EXCEPT ![z] = "dependency_failure"]
  <2>1. ~Ready(z) /\ ~Waiting(z)
    BY <1>9 DEF Doomed, Ready, Waiting
  <2>2. state[z] \notin {"running", "success", "failure", "skipped"}
    BY <1>1, <1>2, <2>1 DEF Working, BuildInv, DepsInv, DepsFirst
  <2>3. /\ \A t \in Steps : Ready(t)' = Ready(t) /\ ~Waiting(z)'
        /\ \A t \in Steps : t # z => Waiting(t)' = Waiting(t)
    <3>1. "dependency_failure" \notin {"success", "skipped", "precheck_done"} /\ z \in Steps
      BY <1>1
    <3> QED
      BY <1>9, <2>2, <3>1, StateMoves
  <2>4. At(w)' = "idle" /\ \A u \in Workers : u # w => wk'[u] = wk[u]
    BY <1>9, Became DEF Idle
  <2>5. Tended'
    <3>1. \A s \in Needed : Waiting(s)' => Waiting(s) /\ (Here(w, s) => Here(w, s)')
      BY <1>1, <1>3, <1>6, <2>3 DEF Here
    <3> QED
      BY <1>1, <2>4, <3>1, TendedStep DEF TendInv
  <2>6. Moving => Moving'
    <3>1. \A s \in Needed : Waiting(s) => Waiting(s)' /\ ~QueuedBy(w, s)
      BY <1>1, <1>3, <2>1, <2>3
    <3> QED
      BY <1>1, <1>4, <1>6, <2>4, <3>1, MovingStep
  <2>7. \A s : ~ListedBy(w, s)'
    BY <2>4 DEF ListedBy
  <2>8. \A t \in Steps : Ready(t) => Ready(t)'
    BY <2>3
  <2>9. ListedReady' /\ (~stale' => ScanFits' /\ BlockedMoves')
    BY <1>1, <1>6, <2>8, <2>4, <2>6, <2>7, ListsStep DEF Listed
  <2> QED
    BY <2>5, <2>9 DEF TendInv
<1> QED
  BY <1>2, <1>7, <1>8, <1>9 DEF Check, TooEarly, Goto, new

LEMMA TendClaim == ASSUME NEW w, Working(w), ClaimFree(w) \/ ClaimRss(w) PROVE TendInv'
<1>1. /\ UNCHANGED <<stale, queue>> /\ At(w) = "claim"
      /\ w \in Workers /\ UNCHANGED <<project, toSpawn>> /\ TendInv /\ project \in Projects
      /\ wk[w] \in Jobs /\ Needed \subseteq Steps /\ maxRss' = maxRss
      /\ maxRss \in [Steps -> Nat] /\ project.limit \in Nat /\ blocked \in Seq(Needed)
  BY WorkingFacts DEF ClaimFree, ClaimRss
<1>2. PICK z \in Needed : z = Step(w)
  BY <1>1, WorkingFacts
<1>3. \A s : ~ListedBy(w, s) /\ ~ToldBy(w, s) /\ (QueuedBy(w, s) => s = z)
  BY <1>1, <1>2 DEF ListedBy, ToldBy, QueuedBy
<1>4. ~HoldsBytes(w)
  BY <1>1 DEF HoldsBytes
<1> DEFINE new == [wk[w] EXCEPT !.at = "make"]
<1>5. new.at = "make" /\ new.step = z
  BY <1>1, <1>2 DEF Jobs, Step
<1>6. Ready(z)
  BY <1>1, <1>2 DEF Working, BuildInv, DepsInv
<1> HIDE DEF new
<1>7. Range(queue)' = Range(queue)
  BY <1>1
<1>8. CASE Become(w, new) /\ state[z] = "precheck_done" /\ state' = [state EXCEPT ![z] = "running"]
           /\ UNCHANGED blocked
  <2>1. /\ \A t \in Steps : Ready(t)' = Ready(t) /\ ~Waiting(z)'
        /\ \A t \in Steps : t # z => Waiting(t)' = Waiting(t)
    <3>1. "running" \notin {"success", "skipped", "precheck_done"} /\ z \in Steps
      BY <1>1
    <3> QED
      BY <1>8, <3>1, StateMoves
  <2>2. At(w)' = "make" /\ Step(w)' = z /\ \A u \in Workers : u # w => wk'[u] = wk[u]
    BY <1>5, <1>8, Became
  <2>3. Range(blocked)' = Range(blocked)
    BY <1>8
  <2>4. Tended'
    <3>1. \A s \in Needed : Waiting(s)' => Waiting(s) /\ (Here(w, s) => Here(w, s)')
      BY <1>1, <1>3, <1>7, <2>1, <2>3 DEF Here
    <3> QED
      BY <1>1, <2>2, <3>1, TendedStep DEF TendInv
  <2>5. Moving => Moving'
    <3>1. maxRss[z] # 0 => HoldsBytes(w)'
      BY <1>1, <2>2 DEF HoldsBytes
    <3>2. \A s \in Needed : s # z /\ Waiting(s) => Waiting(s)' /\ ~QueuedBy(w, s)
      BY <1>1, <1>3, <2>1
    <3> QED
      BY <1>1, <1>4, <1>7, <2>2, <3>1, <3>2, MovingStep
  <2>6. \A s : ~ListedBy(w, s)'
    BY <2>2 DEF ListedBy
  <2>7. \A t \in Steps : Ready(t) => Ready(t)'
    BY <2>1
  <2>8. ListedReady' /\ (~stale' => ScanFits' /\ BlockedMoves')
    BY <1>1, <2>2, <2>3, <2>5, <2>6, <2>7, ListsStep DEF Listed
  <2> QED
    BY <2>4, <2>8 DEF TendInv
<1>9. CASE Become(w, Idle) /\ UNCHANGED <<state, blocked>> /\ state[z] # "precheck_done"
  <2>1. ~Waiting(z)
    BY <1>9 DEF Waiting
  <2>2. Range(blocked)' = Range(blocked)
    BY <1>9
  <2>3. \A s : Waiting(s) /\ Here(w, s) => Here(w, s)'
    BY <1>3, <1>7, <2>1, <2>2 DEF Here
  <2>4. \A s : Waiting(s) /\ (s \in Range(queue) \/ QueuedBy(w, s)) => s \in Range(queue)'
    BY <1>3, <1>7, <2>1
  <2>5. Idle.at # "scan"
    BY DEF Idle
  <2> QED
    BY <1>1, <1>4, <1>9, <2>3, <2>4, <2>5, TendPlain
<1>10. CASE /\ Become(w, Idle) /\ UNCHANGED <<state, claimed>> /\ ~FitsNow(z) /\ maxRss[z] # 0
            /\ blocked' = Append(blocked, z)
  <2>1. At(w)' = "idle" /\ \A u \in Workers : u # w => wk'[u] = wk[u]
    BY <1>10, Became DEF Idle
  <2>2. \A s : Ready(s)' = Ready(s) /\ Waiting(s)' = Waiting(s)
    BY <1>10, StateSame
  <2>3. Range(blocked)' = Range(blocked) \cup {z}
    BY <1>1, <1>10, AppendNew
  <2>4. Tended'
    <3>1. \A s \in Needed : Here(w, s) => Here(w, s)'
      BY <1>3, <1>7, <2>3 DEF Here
    <3> QED
      BY <1>1, <2>1, <2>2, <3>1, TendedStep DEF TendInv
  <2>5. Fits(maxRss[z]) => Moving'
    <3> SUFFICES ASSUME Fits(maxRss[z]) PROVE Moving'
      OBVIOUS
    <3>1. claimed' > 0
      <4>1. claimed \in Int /\ maxRss[z] \in Nat /\ maxRss[z] <= project.limit
        BY <1>1 DEF Working, BuildInv, WorkType, Fits
      <4>2. ~(claimed + maxRss[z] <= project.limit)
        BY <1>10 DEF FitsNow, Fits
      <4> QED
        BY <1>1, <1>10, <4>1, <4>2
    <3> QED
      BY <3>1, ClaimedHeld DEF Working, MemoryInv
  <2>6. Moving => Moving'
    <3>1. Waiting(z) => Moving'
      BY <2>5 DEF Waiting
    <3> QED
      BY <1>1, <1>3, <1>4, <1>7, <2>1, <2>2, <3>1, MovingStep
  <2>7. \A s : ~ListedBy(w, s)'
    BY <2>1 DEF ListedBy
  <2>8. \A s \in Range(blocked)' : s \in Range(blocked) \/ (Fits(maxRss[s]) => Moving')
    BY <2>3, <2>5
  <2>9. \A s \in Needed : s \in Range(blocked)' \/ ListedBy(w, s)' =>
            Listed(s) \/ (maxRss[s] # 0 /\ Ready(s))
    BY <1>6, <1>10, <2>3, <2>7 DEF Listed
  <2>10. ListedReady' /\ (~stale' => ScanFits' /\ BlockedMoves')
    BY <1>1, <2>1, <2>2, <2>6, <2>8, <2>9, ListsStep
  <2> QED
    BY <2>4, <2>10 DEF TendInv
<1> QED
  BY <1>2, <1>8, <1>9, <1>10 DEF ClaimFree, ClaimRss, Mine, Begin, Goto, new, rssVars


\* Whoever has made a step tells the dependants that became ready.
LEMMA TendMake == ASSUME NEW w, Working(w), NEW r \in Results, Make(w, r) PROVE TendInv'
<1>1. /\ UNCHANGED <<blocked, stale, queue>> /\ At(w) = "make"
      /\ w \in Workers /\ UNCHANGED <<project, toSpawn>> /\ TendInv /\ project \in Projects
      /\ wk[w] \in Jobs /\ Needed \subseteq Steps /\ maxRss' = maxRss /\ deps' = deps
      /\ deps \in [Steps -> SUBSET Steps] /\ state \in [Steps -> States]
  BY WorkingFacts DEF Make, rssVars, histVars
<1>2. PICK z \in Needed : z = Step(w)
  BY <1>1, WorkingFacts
<1>3. state[z] = "running" /\ state' = [state EXCEPT ![z] = r]
  BY <1>1, <1>2 DEF Make, Working, BuildInv, DepsInv
<1>4. PICK q : q = IF r = "failure" THEN <<>> ELSE dependants[z]
  OBVIOUS
<1> DEFINE new == [wk[w] EXCEPT !.at = "dependants", !.rest = q]
<1>5. Become(w, new) /\ new.at = "dependants" /\ new.step = z /\ new.rest = q
  BY <1>1, <1>2, <1>4 DEF Make, Jobs, Step
<1> HIDE DEF new
<1>6. At(w)' = "dependants" /\ Step(w)' = z /\ wk'[w].rest = q /\ \A u \in Workers : u # w => wk'[u] = wk[u]
  BY <1>5, Became
<1>7. \A s : ~ListedBy(w, s) /\ ~ToldBy(w, s) /\ ~QueuedBy(w, s) /\ ~ListedBy(w, s)'
  BY <1>1, <1>6 DEF ListedBy, ToldBy, QueuedBy
<1>8. HoldsBytes(w) => HoldsBytes(w)'
  BY <1>1, <1>2, <1>6 DEF HoldsBytes
<1>9. Range(queue)' = Range(queue) /\ Range(blocked)' = Range(blocked)
  BY <1>1
<1>10. \A t \in Steps : Ready(t) => Ready(t)'
  <2>1. z \in Steps /\ state[z] \notin {"success", "skipped"}
    BY <1>1, <1>3
  <2> QED
    BY <1>1, <1>3, <2>1, ReadyKept
<1>11. ~Waiting(z) /\ \A t \in Steps : Waiting(t) => Waiting(t)'
  <2>1. ~Waiting(z)
    BY <1>3 DEF Waiting
  <2>2. \A t \in Steps : t # z => state'[t] = state[t]
    BY <1>1, <1>3
  <2> QED
    BY <1>1, <1>10, <2>1, <2>2 DEF Waiting, Fits
<1>12. \A t \in Needed : Waiting(t)' => Waiting(t) \/ ToldBy(w, t)'
  <2> SUFFICES ASSUME NEW t \in Needed, Waiting(t)', ~Waiting(t) PROVE ToldBy(w, t)'
    OBVIOUS
  <2>1. t # z /\ state'[t] = state[t]
    BY <1>1, <1>3 DEF Waiting, Results
  <2>2. ~Ready(t) /\ Ready(t)'
    BY <1>1, <2>1 DEF Waiting, Fits
  <2>3. z \in deps[t] /\ r \in {"success", "skipped"}
    BY <1>1, <1>3, <2>2 DEF Ready
  <2>4. Range(dependants[z]) = {u \in Needed : z \in deps[u]}
    BY <1>2, WorkingFacts, DependantsFacts DEF Working, BuildInv
  <2>5. q = dependants[z]
    BY <1>4, <2>3
  <2>6. t \in Range(wk'[w].rest)
    BY <1>6, <2>3, <2>4, <2>5
  <2> QED
    BY <1>6, <2>6 DEF ToldBy
<1>13. Tended'
  <2>1. \A s \in Needed : ToldBy(w, s)' => Here(w, s)'
    BY DEF Here
  <2>2. \A s \in Needed : Here(w, s) => Here(w, s)'
    BY <1>7, <1>9 DEF Here
  <2> QED
    BY <1>1, <1>6, <1>12, <2>1, <2>2, TendedStep DEF TendInv
<1>14. Moving => Moving'
  <2>1. \A s \in Needed : Waiting(s) => Waiting(s)'
    BY <1>1, <1>11
  <2> QED
    BY <1>1, <1>6, <1>7, <1>8, <1>9, <2>1, MovingStep
<1>15. ListedReady' /\ (~stale' => ScanFits' /\ BlockedMoves')
  BY <1>1, <1>6, <1>7, <1>9, <1>10, <1>14, ListsStep DEF Listed
<1> QED
  BY <1>13, <1>15 DEF TendInv

LEMMA TendSpawn == ASSUME NEW w, Working(w), SpawnDependant(w) PROVE TendInv'
<1>1. /\ UNCHANGED <<state, blocked, stale>> /\ At(w) = "dependants" /\ wk[w].rest # <<>>
      /\ queue \in Seq(Needed) /\ wk[w].rest \in Seq(Needed) /\ wk[w] \in Jobs
  BY WorkingFacts DEF SpawnDependant, rssVars, histVars
<1>2. PICK h \in Needed : h = Head(wk[w].rest)
  BY <1>1, HeadTailProperties
<1>3. PICK q : q = Tail(wk[w].rest)
  OBVIOUS
<1>4. Range(wk[w].rest) = {h} \cup Range(q)
  BY <1>1, <1>2, <1>3, HeadRange
<1>5. Range(queue)' = {h} \cup Range(queue)
  BY <1>1, <1>2, PrependRange DEF SpawnDependant, Prepend
<1> DEFINE new == [wk[w] EXCEPT !.rest = q]
<1>6. Become(w, new) /\ new.at = "dependants" /\ new.step = Step(w) /\ new.rest = q
  BY <1>1, <1>3 DEF SpawnDependant, Jobs, Step, At
<1> HIDE DEF new
<1>7. At(w)' = "dependants" /\ Step(w)' = Step(w) /\ wk'[w].rest = q
  BY <1>6, Became
<1>8. \A s : ~ListedBy(w, s) /\ ~QueuedBy(w, s) /\ (ToldBy(w, s) => s = h \/ ToldBy(w, s)')
  BY <1>1, <1>4, <1>7 DEF ListedBy, ToldBy, QueuedBy
<1>9. HoldsBytes(w) => HoldsBytes(w)'
  BY <1>7, WorkingFacts DEF HoldsBytes
<1>10. Range(blocked)' = Range(blocked)
  BY <1>1
<1>11. \A s : Here(w, s) => Here(w, s)'
  BY <1>5, <1>8, <1>10 DEF Here
<1>12. \A s : s \in Range(queue) \/ QueuedBy(w, s) => s \in Range(queue)'
  BY <1>5, <1>8
<1>13. new.at # "scan"
  BY <1>6
<1> QED
  BY <1>1, <1>6, <1>9, <1>11, <1>12, <1>13, TendPlain

LEMMA TendReturn == ASSUME NEW w, Working(w), Return(w) PROVE TendInv'
<1>1. /\ UNCHANGED <<state, blocked, stale, queue>> /\ Become(w, Idle)
      /\ At(w) = "dependants" /\ wk[w].rest = <<>> /\ maxRss[Step(w)] = 0
  BY DEF Return, rssVars, histVars
<1>2. \A s : ~ListedBy(w, s) /\ ~QueuedBy(w, s) /\ ~ToldBy(w, s)
  BY <1>1 DEF ListedBy, ToldBy, QueuedBy, Range
<1>3. ~HoldsBytes(w) /\ Idle.at # "scan"
  BY <1>1 DEF HoldsBytes, Idle
<1>4. Range(queue)' = Range(queue) /\ Range(blocked)' = Range(blocked)
  BY <1>1
<1>5. \A s : Here(w, s) => Here(w, s)'
  BY <1>2, <1>4 DEF Here
<1>6. \A s : s \in Range(queue) \/ QueuedBy(w, s) => s \in Range(queue)'
  BY <1>2, <1>4
<1> QED
  BY <1>1, <1>3, <1>5, <1>6, TendPlain

\* Whoever gives memory back takes the blocked steps over; what it offers is
\* the whole limit unless others hold memory.
LEMMA TendGiveBack == ASSUME NEW w, Working(w), GiveBack(w) PROVE TendInv'
<1>1. /\ UNCHANGED <<state, stale, queue>> /\ blocked' = <<>> /\ MutexFree
      /\ At(w) = "dependants" /\ wk[w].rest = <<>>
      /\ w \in Workers /\ UNCHANGED <<project, toSpawn>> /\ TendInv
      /\ wk[w] \in Jobs /\ maxRss' = maxRss /\ Needed' = Needed /\ project.limit \in Nat
  BY WorkingFacts DEF GiveBack, histVars
<1>2. PICK m : m = project.limit - claimed'
  OBVIOUS
<1>3. claimed' \in Nat
  BY FS_CardinalityType DEF Working, MemoryInv, MemoryBudget
<1>4. \A u \in Workers : u # w => wk'[u] = wk[u]
  BY Became DEF GiveBack
<1>5. \/ blocked = <<>> /\ At(w)' = "idle"
      \/ At(w)' = "scan" /\ wk'[w].rest = blocked /\ wk'[w].remaining = m
  <2> DEFINE new == [wk[w] EXCEPT !.at = "scan", !.rest = blocked, !.remaining = m]
  <2>1. new.at = "scan" /\ new.rest = blocked /\ new.remaining = m /\ Idle.at = "idle"
    BY <1>1 DEF Jobs, Idle
  <2>2. (blocked = <<>> /\ Become(w, Idle)) \/ Become(w, new)
    BY <1>2 DEF GiveBack
  <2> HIDE DEF new
  <2> QED
    BY <2>1, <2>2, Became
<1>6. \A s : ~ListedBy(w, s) /\ ~QueuedBy(w, s) /\ ~ToldBy(w, s)
  BY <1>1 DEF ListedBy, ToldBy, QueuedBy, Range
<1>7. Range(queue)' = Range(queue) /\ Range(blocked)' = {} /\ Range(<<>>) = {}
  BY <1>1 DEF Range
<1>8. \A s : ListedBy(w, s)' <=> s \in Range(blocked)
  BY <1>5, <1>7 DEF ListedBy
<1>9. \A s : Ready(s)' = Ready(s) /\ Waiting(s)' = Waiting(s)
  BY <1>1, StateSame
<1>10. Tended'
  <2>1. \A s \in Needed : Here(w, s) => Here(w, s)'
    BY <1>6, <1>7, <1>8 DEF Here
  <2> QED
    BY <1>1, <1>4, <1>9, <2>1, TendedStep DEF TendInv
<1>11. \A u \in Workers : u # w => At(u)' = At(u) /\ \A s : ListedBy(u, s)' = ListedBy(u, s)
  BY <1>1, <1>4, OthersSame
<1>12. ListedReady'
  <2> SUFFICES ASSUME NEW s \in Needed, Listed(s)' PROVE maxRss'[s] # 0 /\ Ready(s)'
    BY <1>1 DEF ListedReady
  <2>1. Listed(s)
    BY <1>7, <1>8, <1>11 DEF Listed
  <2> QED
    BY <1>1, <1>9, <2>1 DEF TendInv, ListedReady
<1>13. ScanFits'
  <2> SUFFICES ASSUME NEW u \in Workers, At(u)' = "scan"
               PROVE  wk'[u].remaining <= project'.limit /\ (wk'[u].remaining = project'.limit \/ Moving')
    BY DEF ScanFits
  <2>1. u = w
    BY <1>1, <1>11 DEF MutexFree
  <2>2. wk'[u].remaining = m /\ project' = project
    BY <1>1, <1>5, <2>1
  <2>3. m <= project.limit /\ (m = project.limit \/ claimed' > 0)
    BY <1>1, <1>2, <1>3
  <2> QED
    BY <2>2, <2>3, ClaimedHeld DEF Working, MemoryInv
<1>14. BlockedMoves'
  BY <1>7 DEF BlockedMoves
<1> QED
  BY <1>10, <1>12, <1>13, <1>14 DEF TendInv

\* A scan queues what fits in what remains: that step, if it may still be made, moves.
\* What it keeps though it fits is kept because something moves already.
LEMMA TendScan == ASSUME NEW w, Working(w), Scan(w) PROVE TendInv'
<1>1. /\ UNCHANGED state /\ At(w) = "scan" /\ wk[w].rest # <<>>
      /\ w \in Workers /\ UNCHANGED <<project, toSpawn>> /\ TendInv /\ project \in Projects
      /\ wk[w] \in Jobs /\ maxRss' = maxRss /\ project.limit \in Nat /\ maxRss \in [Steps -> Nat]
      /\ queue \in Seq(Needed) /\ blocked \in Seq(Needed) /\ wk[w].rest \in Seq(Needed)
      /\ wk[w].remaining \in Int /\ Needed' = Needed /\ Needed \subseteq Steps
  BY WorkingFacts DEF Scan, Working, BuildInv, WorkType, Sound, At
<1>2. PICK h \in Needed : h = Head(wk[w].rest)
  BY <1>1, HeadTailProperties
<1>3. PICK q : q = Tail(wk[w].rest)
  OBVIOUS
<1>4. PICK m : m = wk[w].remaining
  OBVIOUS
<1>5. Range(wk[w].rest) = {h} \cup Range(q) /\ (Len(wk[w].rest) = 1 => Range(q) = {})
  BY <1>1, <1>2, <1>3, HeadRange
<1>6. ASSUME NEW left, Scanned(w, left)
      PROVE  /\ \A u \in Workers : u # w => wk'[u] = wk[u]
             /\ \A s : ListedBy(w, s)' <=> s \in Range(q)
             /\ \A s : ~QueuedBy(w, s)'
             /\ At(w)' = "scan" => wk'[w].remaining = left
  <2> DEFINE new == [wk[w] EXCEPT !.rest = q, !.remaining = left]
  <2>1. new.at = "scan" /\ new.rest = q /\ new.remaining = left /\ Idle.at = "idle"
    BY <1>1 DEF Jobs, Idle, At
  <2>2. (Range(q) = {} /\ Become(w, Idle)) \/ Become(w, new)
    BY <1>3, <1>5, <1>6 DEF Scanned
  <2> HIDE DEF new
  <2>3. /\ \A u \in Workers : u # w => wk'[u] = wk[u]
        /\ \/ Range(q) = {} /\ At(w)' = "idle"
           \/ At(w)' = "scan" /\ wk'[w].rest = q /\ wk'[w].remaining = left
    BY <2>1, <2>2, Became
  <2> QED
    BY <2>3 DEF ListedBy, QueuedBy
<1>7. \A s : ~QueuedBy(w, s) /\ ~ToldBy(w, s) /\ (ListedBy(w, s) <=> s = h \/ s \in Range(q))
  BY <1>1, <1>5 DEF ListedBy, ToldBy, QueuedBy
<1>8. ~HoldsBytes(w)
  BY <1>1 DEF HoldsBytes
<1>9. \A s : Ready(s)' = Ready(s) /\ Waiting(s)' = Waiting(s)
  BY <1>1, StateSame
<1>10. maxRss[h] # 0 /\ Ready(h) /\ maxRss[h] \in Nat
  <2>1. Listed(h)
    BY <1>1, <1>7 DEF Listed
  <2> QED
    BY <1>1, <2>1 DEF TendInv, ListedReady
<1>11. ~stale => m <= project.limit /\ (m = project.limit \/ Moving)
  BY <1>1, <1>4 DEF TendInv, ScanFits
<1>12. m \in Int
  BY <1>1, <1>4
<1>13. CASE /\ maxRss[h] <= m /\ Prepend(h) /\ Scanned(w, m - maxRss[h]) /\ UNCHANGED blocked
            /\ stale' = (stale \/ state[h] # "precheck_done")
  <2>1. Range(queue)' = {h} \cup Range(queue) /\ Range(blocked)' = Range(blocked)
    BY <1>1, <1>13, PrependRange DEF Prepend
  <2>2. /\ \A u \in Workers : u # w => wk'[u] = wk[u]
        /\ \A s : ListedBy(w, s)' <=> s \in Range(q)
        /\ At(w)' = "scan" => wk'[w].remaining = m - maxRss[h]
    BY <1>6, <1>13
  <2>3. Tended'
    <3>1. \A s \in Needed : Here(w, s) => Here(w, s)'
      BY <1>7, <2>1, <2>2 DEF Here
    <3> QED
      BY <1>1, <1>9, <2>2, <3>1, TendedStep DEF TendInv
  <2>4. ~stale' => Moving'
    <3> SUFFICES ASSUME ~stale' PROVE Moving'
      OBVIOUS
    <3>1. ~stale /\ state[h] = "precheck_done"
      BY <1>13
    <3>2. Fits(maxRss[h])
      BY <1>1, <1>10, <1>11, <1>12, <1>13, <3>1 DEF Fits
    <3>3. Waiting(h)'
      BY <1>9, <1>10, <3>1, <3>2 DEF Waiting
    <3>4. Queued(h)' /\ maxRss'[h] # 0 /\ h \in Needed'
      BY <1>1, <1>10, <2>1 DEF Queued
    <3> QED
      BY <3>3, <3>4 DEF Moving
  <2>5. ~stale' /\ At(w)' = "scan" =>
            wk'[w].remaining <= project.limit /\ (wk'[w].remaining = project.limit \/ Moving')
    <3> SUFFICES ASSUME ~stale', At(w)' = "scan" PROVE wk'[w].remaining <= project.limit
      BY <2>4
    <3>1. ~stale /\ wk'[w].remaining = m - maxRss[h]
      BY <1>13, <2>2
    <3> QED
      BY <1>1, <1>10, <1>11, <1>12, <3>1
  <2>6. \A s \in Needed : s \in Range(blocked)' \/ ListedBy(w, s)' => Listed(s)
    BY <1>1, <1>7, <2>1, <2>2 DEF Listed
  <2>7. ~stale' => ~stale /\ (Moving => Moving')
    BY <1>13, <2>4
  <2>8. \A t \in Steps : Ready(t) => Ready(t)'
    BY <1>9
  <2>9. ListedReady' /\ (~stale' => ScanFits' /\ BlockedMoves')
    BY <1>1, <2>1, <2>2, <2>5, <2>6, <2>7, <2>8, ListsStep
  <2> QED
    BY <2>3, <2>9 DEF TendInv
<1>14. CASE /\ ~(maxRss[h] <= m) /\ blocked' = Append(blocked, h) /\ Scanned(w, m)
            /\ UNCHANGED <<queue, stale>>
  <2>1. Range(queue)' = Range(queue) /\ Range(blocked)' = Range(blocked) \cup {h}
    BY <1>1, <1>14, AppendNew
  <2>2. /\ \A u \in Workers : u # w => wk'[u] = wk[u]
        /\ \A s : ListedBy(w, s)' <=> s \in Range(q)
        /\ At(w)' = "scan" => wk'[w].remaining = m
    BY <1>6, <1>14
  <2>3. Tended'
    <3>1. \A s \in Needed : Here(w, s) => Here(w, s)'
      BY <1>7, <2>1, <2>2 DEF Here
    <3> QED
      BY <1>1, <1>9, <2>2, <3>1, TendedStep DEF TendInv
  <2>4. Moving => Moving'
    BY <1>1, <1>7, <1>8, <1>9, <2>1, <2>2, MovingStep
  <2>5. ~stale /\ Fits(maxRss[h]) => Moving'
    <3> SUFFICES ASSUME ~stale, Fits(maxRss[h]) PROVE Moving
      BY <2>4
    <3>1. m # project.limit
      BY <1>1, <1>10, <1>12, <1>14 DEF Fits
    <3> QED
      BY <1>11, <3>1
  <2>6. ~stale' => \A s \in Range(blocked)' : s \in Range(blocked) \/ (Fits(maxRss[s]) => Moving')
    BY <1>14, <2>1, <2>5
  <2>7. ~stale' /\ At(w)' = "scan" =>
            wk'[w].remaining <= project.limit /\ (wk'[w].remaining = project.limit \/ Moving')
    BY <1>11, <1>14, <2>2, <2>4
  <2>8. \A s \in Needed : s \in Range(blocked)' \/ ListedBy(w, s)' => Listed(s)
    BY <1>1, <1>7, <2>1, <2>2 DEF Listed
  <2>9. \A t \in Steps : Ready(t) => Ready(t)'
    BY <1>9
  <2>10. ~stale' => ~stale /\ (Moving => Moving')
    BY <1>14, <2>4
  <2>11. ListedReady' /\ (~stale' => ScanFits' /\ BlockedMoves')
    BY <1>1, <2>2, <2>6, <2>7, <2>8, <2>9, <2>10, ListsStep
  <2> QED
    BY <2>3, <2>11 DEF TendInv
<1> QED
  BY <1>2, <1>4, <1>13, <1>14 DEF Scan


LEMMA ReverseRange ==
    ASSUME NEW S, NEW q \in Seq(S)
    PROVE  Range(Reverse(q)) = Range(q)
<1> DEFINE n == Len(q)
           r == Reverse(q)
<1>1. n \in Nat /\ DOMAIN q = 1 .. n
  BY LenProperties
<1>2. DOMAIN r = 1 .. n /\ \A i \in 1 .. n : r[i] = q[(n - i) + 1]
  BY DEF Reverse
<1> HIDE DEF n, r
<1>3. \A i \in 1 .. n : (n - i) + 1 \in 1 .. n /\ (n - ((n - i) + 1)) + 1 = i
  BY <1>1
<1>4. \A x \in Range(r) : x \in Range(q)
  BY <1>1, <1>2, <1>3 DEF Range
<1>5. \A i \in 1 .. n : q[i] \in Range(r)
  <2> SUFFICES ASSUME NEW i \in 1 .. n PROVE q[i] \in Range(r)
    OBVIOUS
  <2>1. (n - i) + 1 \in 1 .. n /\ r[(n - i) + 1] = q[i]
    BY <1>2, <1>3
  <2> QED
    BY <1>2, <2>1 DEF Range
<1> QED
  BY <1>1, <1>4, <1>5 DEF Range, r

\* When a build starts, everything that is needed is going to be spawned.
LEMMA TendStart ==
    ASSUME \A w \in Workers : At(w)' = "idle", Range(toSpawn)' = Needed', blocked' = <<>>
    PROVE  TendInv'
<1>1. Range(blocked)' = {}
  BY DEF Range
<1>2. \A w \in Workers : \A s : ~ListedBy(w, s)'
  BY DEF ListedBy
<1>3. \A s : ~Listed(s)'
  BY <1>1, <1>2 DEF Listed
<1> QED
  BY <1>1, <1>3 DEF TendInv, Tended, ListedReady, ScanFits, BlockedMoves

\* The main thread queues a step, or passes it over for it exceeds the limit.
LEMMA TendSpawnInitial ==
    ASSUME TendInv, SpawnInitial, BuildInv
    PROVE  TendInv'
<1>1. /\ UNCHANGED <<project, state, wk, blocked, stale>> /\ toSpawn # <<>>
      /\ toSpawn \in Seq(Needed) /\ queue \in Seq(Needed)
  BY DEF SpawnInitial, graphVars, rssVars, histVars, BuildInv, WorkType
<1>2. PICK h \in Needed : h = Head(toSpawn)
  BY <1>1, HeadTailProperties
<1>3. Range(toSpawn) = {h} \cup Range(toSpawn)'
  BY <1>1, <1>2, HeadRange DEF SpawnInitial
<1>4. /\ Range(queue) \subseteq Range(queue)'
      /\ h \in Range(queue)' \/ state[h] = "skipped_oom"
  <2>1. (state[h] = "skipped_oom" /\ queue' = queue) \/ queue' = <<h>> \o queue
    BY <1>2 DEF SpawnInitial, Prepend
  <2>2. Range(<<h>> \o queue) = {h} \cup Range(queue)
    BY <1>1, PrependRange
  <2> QED
    BY <2>1, <2>2
<1>5. deps' = deps /\ maxRss' = maxRss /\ Needed' = Needed
  BY <1>1, ProjectStays
<1>6. /\ \A s : Ready(s)' = Ready(s) /\ Waiting(s)' = Waiting(s)
      /\ \A w : /\ At(w)' = At(w) /\ Step(w)' = Step(w) /\ HoldsBytes(w)' = HoldsBytes(w)
                /\ \A s : /\ QueuedBy(w, s)' = QueuedBy(w, s) /\ ListedBy(w, s)' = ListedBy(w, s)
                          /\ ToldBy(w, s)' = ToldBy(w, s)
  BY <1>1, <1>5 DEF Ready, Waiting, Fits, At, Step, HoldsBytes, QueuedBy, ListedBy, ToldBy
<1>7. \A s : Listed(s)' = Listed(s) /\ (Queued(s) => Queued(s)')
  BY <1>1, <1>4, <1>6 DEF Listed, Queued
<1>8. Tended'
  <2> SUFFICES ASSUME NEW s \in Needed, Waiting(s)'
               PROVE  \/ s \in Range(toSpawn)' \/ Queued(s)' \/ Listed(s)'
                      \/ \E w \in Workers : ToldBy(w, s)'
    BY <1>5 DEF Tended
  <2>1. Waiting(s) /\ state[s] # "skipped_oom"
    BY <1>6 DEF Waiting
  <2>2. CASE s = h
    BY <1>4, <2>1, <2>2 DEF Queued
  <2>3. CASE s # h
    BY <1>3, <1>6, <1>7, <2>1, <2>3 DEF TendInv, Tended
  <2> QED
    BY <2>2, <2>3
<1>9. ListedReady'
  BY <1>5, <1>6, <1>7 DEF TendInv, ListedReady
<1>10. Moving => Moving'
  BY <1>5, <1>6, <1>7 DEF Moving
<1>11. ~stale' => ScanFits' /\ BlockedMoves'
  BY <1>1, <1>5, <1>6, <1>10 DEF TendInv, ScanFits, BlockedMoves, Fits
<1> QED
  BY <1>8, <1>9, <1>11 DEF TendInv

LEMMA ForgetMain ==
    ASSUME ForgetInv, BuildInv, BuildInv',
           (\E k \in Top.todo : Visit(k)) \/ Visited \/ Prepared \/ SpawnInitial \/ Summarise
               \/ RebuildAll \/ \E S \in SUBSET Steps : FilesChange(S)
    PROVE  ForgetInv'
<1>1. UNCHANGED <<project, wk, blocked>> /\ project \in Projects
  BY DEF Visit, Visited, Prepared, SpawnInitial, Summarise, RebuildAll, FilesChange,
     Rebuild,
         graphVars, rssVars, BuildInv, GraphInv
<1>2. Needed' = Needed /\ Needed \subseteq Steps /\ \A w : At(w)' = At(w)
  BY <1>1, ProjectStays, NeededFacts DEF At
<1>3. mpc \in {"prepare", "watch"} => \A w \in Workers : At(w)' = "idle"
  BY <1>2 DEF BuildInv, DepsInv, Quiet, At
<1>4. CASE (\E k \in Top.todo : Visit(k)) \/ Visited
  <2>1. mpc = "prepare" /\ mpc' \in {"prepare", "loop"}
    BY <1>4 DEF Visit, Descend, Visited, mainVars
  <2> QED
    BY <1>1, <2>1 DEF ForgetInv, NeededKnown, After
<1>5. CASE Prepared
  <2>1. /\ mpc = "prepare" /\ mpc' = "spawn" /\ PrepInv /\ blocked' = <<>>
        /\ toSpawn' = Reverse(stepStack)
    BY <1>1, <1>5 DEF Prepared, ForgetInv, BuildInv, GraphInv
  <2>2. /\ Range(stepStack) = Needed
        /\ \A s \in Steps : state[s] = IF s \in Needed THEN "precheck_done" ELSE "precheck_unstarted"
    BY <1>5, <2>1, PreparedFacts
  <2>3. stepStack \in Seq(Steps)
    BY <1>5, <2>1 DEF PrepInv, StackPart
  <2>4. Range(toSpawn)' = Needed'
    BY <1>2, <2>1, <2>2, <2>3, ReverseRange
  <2>5. NeededKnown'
    BY <1>2, <1>5, <2>2 DEF NeededKnown, Prepared
  <2>6. TendInv'
    BY <1>3, <2>1, <2>4, TendStart
  <2> QED
    BY <2>1, <2>5, <2>6 DEF ForgetInv
<1>6. CASE SpawnInitial
  <2>1. /\ mpc = "spawn" /\ mpc' = IF toSpawn' = <<>> THEN "wait" ELSE "spawn"
        /\ UNCHANGED state
    BY <1>6 DEF SpawnInitial
  <2>2. TendInv'
    BY <1>6, <2>1, TendSpawnInitial DEF ForgetInv
  <2>3. NeededKnown'
    BY <1>2, <2>1 DEF ForgetInv, NeededKnown, After
  <2> QED
    BY <2>1, <2>2, <2>3 DEF ForgetInv
<1>7. CASE Summarise
  <2>1. mpc = "wait" /\ (mpc' = "panic" \/ (mpc' = "watch" /\ blocked = <<>>))
    BY <1>7 DEF Summarise
  <2>2. \A s \in Steps : state'[s] = state[s] \/ state'[s] = "dependency_failure"
    BY <1>7 DEF Summarise
  <2>3. NeededKnown'
    BY <1>2, <2>1, <2>2 DEF ForgetInv, NeededKnown, After
  <2> QED
    BY <1>1, <2>1, <2>3 DEF ForgetInv
<1>8. CASE RebuildAll \/ \E S \in SUBSET Steps : FilesChange(S)
  <2>1. /\ mpc = "watch" /\ mpc' = "spawn" /\ toSpawn' = Reverse(stepStack)
        /\ blocked' = <<>>
    BY <1>1, <1>8 DEF RebuildAll, FilesChange, Rebuild, ForgetInv
  <2>2. stepStack \in Seq(Needed) /\ Range(stepStack) = Needed
    BY <2>1 DEF BuildInv, GraphInv, GraphBuilt, After, ToSet, Range
  <2>3. Range(toSpawn)' = Needed'
    BY <1>2, <2>1, <2>2, ReverseRange
  <2>4. \A s \in Steps : state'[s] = state[s] \/ state'[s] = "precheck_done"
    BY <1>8 DEF RebuildAll, FilesChange, Reset
  <2>5. NeededKnown'
    BY <1>2, <2>1, <2>4 DEF ForgetInv, NeededKnown, After
  <2>6. TendInv'
    BY <1>3, <2>1, <2>3, TendStart
  <2> QED
    BY <2>1, <2>5, <2>6 DEF ForgetInv
<1> QED
  BY <1>4, <1>5, <1>6, <1>7, <1>8

LEMMA ForgetWorker == ASSUME NEW w, Working(w) PROVE ForgetInv'
<1>1. TendInv'
  <2>1. Working(w) => WorkerRuns(w)
    BY DEF Working
  <2> QED
    BY <2>1, TendTake, TendCheck, TendClaim, TendMake, TendSpawn, TendReturn,
       TendGiveBack, TendScan
       DEF WorkerRuns
<1>2. /\ UNCHANGED <<mpc, toSpawn, project>> /\ mpc \in {"spawn", "wait"} /\ Needed' = Needed
      /\ Needed \subseteq Steps /\ state \in [Steps -> States]
  BY WorkingFacts
<1>3. \A s \in Steps : state'[s] = state[s] \/ state'[s] \notin {"precheck_unstarted", "precheck_started"}
  BY <1>2 DEF Working, WorkerRuns, Take, Check, ClaimFree, ClaimRss, Begin, Make,
     Results, SpawnDependant,
              Return, GiveBack, Scan
<1>4. NeededKnown'
  BY <1>2, <1>3 DEF Working, ForgetInv, NeededKnown, After
<1> QED
  BY <1>1, <1>2, <1>4 DEF Working, ForgetInv

LEMMA ForgetStays == ASSUME ForgetInv, UNCHANGED vars PROVE ForgetInv'
<1>1. UNCHANGED <<project, state, mpc, toSpawn, queue, wk, blocked, stale>>
  BY DEF vars, graphVars, mainVars, rssVars, histVars
<1>2. deps' = deps /\ maxRss' = maxRss /\ Needed' = Needed
  BY <1>1, ProjectStays
<1>3. /\ \A s : Ready(s)' = Ready(s) /\ Waiting(s)' = Waiting(s)
      /\ \A w : /\ At(w)' = At(w) /\ HoldsBytes(w)' = HoldsBytes(w)
                /\ \A s : /\ QueuedBy(w, s)' = QueuedBy(w, s) /\ ListedBy(w, s)' = ListedBy(w, s)
                          /\ ToldBy(w, s)' = ToldBy(w, s)
  BY <1>1, <1>2 DEF Ready, Waiting, Fits, At, Step, HoldsBytes, QueuedBy, ListedBy, ToldBy
<1>4. \A s : Listed(s)' = Listed(s) /\ Queued(s)' = Queued(s)
  BY <1>1, <1>3 DEF Listed, Queued
<1>5. Moving' = Moving
  BY <1>2, <1>3, <1>4 DEF Moving
<1>6. Tended' = Tended /\ ListedReady' = ListedReady
  BY <1>1, <1>2, <1>3, <1>4 DEF Tended, ListedReady
<1>7. ScanFits' = ScanFits /\ BlockedMoves' = BlockedMoves
  BY <1>1, <1>2, <1>3, <1>5 DEF ScanFits, BlockedMoves, Fits
<1> QED
  BY <1>1, <1>2, <1>6, <1>7 DEF ForgetInv, NeededKnown, After, TendInv

LEMMA ForgetOver == ForgetInv /\ BuildInv => NothingForgotten
<1> SUFFICES ASSUME ForgetInv, BuildInv, Over, ~stale, NEW s \in Needed, state[s] = "precheck_done",
                    Fits(maxRss[s]), ~Doomed(s), ~Early(s)
             PROVE  FALSE
  BY DEF NothingForgotten
<1>1. /\ mpc = "wait" /\ toSpawn = <<>> /\ queue = <<>> /\ \A w \in Workers : At(w) = "idle"
      /\ TendInv /\ NeededKnown /\ After
  BY DEF Over, Quiet, At, ForgetInv, After
<1>2. /\ project \in Projects /\ deps[s] \subseteq Needed /\ Needed \subseteq Steps
      /\ state \in [Steps -> States]
  BY NeededFacts DEF BuildInv, GraphInv, OnceInv, Shapes
<1>3. Ready(s)
  <2> SUFFICES ASSUME NEW d \in deps[s] PROVE state[d] \in {"success", "skipped"}
    BY DEF Ready
  <2>1. state[d] \in States /\ state[d] \notin {"precheck_unstarted", "precheck_started"}
    BY <1>1, <1>2 DEF NeededKnown
  <2> QED
    BY <2>1 DEF Doomed, Early, States
<1>4. Waiting(s)
  BY <1>3 DEF Waiting
<1>5. \A w \in Workers : ~HoldsBytes(w) /\ \A t : ~QueuedBy(w, t) /\ ~ListedBy(w, t) /\ ~ToldBy(w, t)
  BY <1>1 DEF HoldsBytes, QueuedBy, ListedBy, ToldBy
<1>6. Range(toSpawn) = {} /\ Range(queue) = {}
  BY <1>1 DEF Range
<1>7. ~Moving /\ \A t : ~Queued(t)
  BY <1>5, <1>6 DEF Moving, Queued
<1>8. s \in Range(blocked)
  BY <1>1, <1>4, <1>5, <1>6, <1>7 DEF TendInv, Tended, Listed
<1> QED
  BY <1>1, <1>7, <1>8 DEF TendInv, BlockedMoves

\* For every graph, limit and number of workers, when a build is over a step that was
\* not made had a dependency that failed or was not made, unless memory was set aside
\* for a step that had run already (NothingForgotten): the dependencies and whoever
\* gives memory back queue every step that is waiting for them.
THEOREM NoneLeft == Spec => []NothingForgotten
<1>1. Init => ForgetInv
  BY DEF Init, ForgetInv, NeededKnown, After
<1>2. BuildInv /\ MemoryInv /\ [Next]_vars => MemoryInv'
  BY MemoryNext
<1>3. /\ ForgetInv /\ BuildInv /\ MemoryInv /\ BuildInv' /\ MemoryInv' /\ [Next]_vars
      => ForgetInv'
  BY ForgetMain, ForgetWorker, ForgetStays DEF Next, MainRuns, Working
<1> QED
  BY <1>1, <1>2, <1>3, ForgetOver, BuildInit, BuildNext, MemoryInit, PTL DEF Spec
=============================================================================
