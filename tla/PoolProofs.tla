----------------------------- MODULE PoolProofs -----------------------------
(***************************************************************************)
(* What the thread pool keeps, for every number of workers and tasks and   *)
(* however deep calls nest: a task is called once at most, with an id if   *)
(* it takes one; wait groups are exact; the pool never comes to a          *)
(* standstill with something to do; and when it is gone no task was        *)
(* forgotten, no thread is inside a task, and no memory is left.           *)
(*                                                                         *)
(* Each part has an invariant of its own, which rests on those before it:  *)
(* the form of the stacks (Shape), where a task is on its way from spawn   *)
(* to its call (OnTheWay), who holds a closure (Held), what the places of  *)
(* the threads say of the pool's life (Life), who has an id (Known); then  *)
(* which calls are under way (CallInv), that tasks do not wait for each    *)
(* other in a circle (NoCycle), what wait groups count (Counted), and who  *)
(* will wake up (Told, Stopped).                                           *)
(***************************************************************************)
EXTENDS Pool, FiniteSetTheorems, SequenceTheorems, TLAPS

-----------------------------------------------------------------------------
(***************************************************************************)
(* Stacks.  The first frame is the thread itself; those above it are calls *)
(* of user code into the pool and of the pool into user code.  A frame     *)
(* that is not the last waits for such a call.                             *)
(***************************************************************************)
MainPlaces == {"init", "allocthreads", "spawning", "main", "join", "errjoin", "broadcast",
               "errbroadcast", "joining", "errjoining", "gone", "failed"}
ManagerPlaces == {"outside", "manager", "left"}
WorkerPlaces == {"unborn", "start", "loop", "asleep", "exited"}
Places(t) == IF t = Main THEN MainPlaces ELSE IF t = Manager THEN ManagerPlaces ELSE WorkerPlaces

InTask == {"queue", "signal", "run", "finish", "destroy"}
InWait == {"poll", "work", "await"}
AllPlaces == MainPlaces \cup ManagerPlaces \cup WorkerPlaces \cup InTask \cup InWait
Calling == {"run", "poll", "loop", "main", "manager"}

Frames == [at : AllPlaces, task : Tasks \cup {Main, NoTask}]
IsCall(f) ==
    \/ f.at \in InTask /\ f.task \in Tasks
    \/ f.at \in InWait /\ f.task \in Groups

Depth(t) == Len(stack[t])
Base(t) == stack[t][1].at

Shape ==
    /\ stack \in [Threads -> Seq(Frames)]
    /\ \A t \in Threads :
          /\ Depth(t) >= 1 /\ Base(t) \in Places(t)
          /\ \A i \in 2 .. Depth(t) : IsCall(stack[t][i])
          /\ \A i \in 1 .. Depth(t) - 1 : stack[t][i].at \in Calling

LEMMA FrontFacts ==
    ASSUME NEW S, NEW s \in Seq(S), Len(s) >= 1
    PROVE  /\ Front(s) \in Seq(S) /\ Len(Front(s)) = Len(s) - 1
           /\ \A i \in 1 .. Len(s) - 1 : Front(s)[i] = s[i]
<1> DEFINE n == Len(s) - 1
<1>1. n \in Nat /\ n - 1 + 1 = n /\ 1 \in 1 .. Len(s) + 1 /\ n \in 1 - 1 .. Len(s)
  OBVIOUS
<1>2. /\ SubSeq(s, 1, n) \in Seq(S) /\ Len(SubSeq(s, 1, n)) = IF 1 <= n THEN n - 1 + 1 ELSE 0
      /\ \A i \in 1 .. n - 1 + 1 : SubSeq(s, 1, n)[i] = s[1 + i - 1]
  <2> HIDE DEF n
  <2> QED
    BY <1>1, SubSeqProperties
<1>3. \A i \in 1 .. n : 1 + i - 1 = i
  BY <1>1
<1>4. Front(s) = SubSeq(s, 1, n)
  BY DEF Front
<1> QED
  <2> HIDE DEF n
  <2>1. Len(Front(s)) = n
    BY <1>1, <1>2, <1>4
  <2>2. \A i \in 1 .. n : Front(s)[i] = s[i]
    BY <1>1, <1>2, <1>3, <1>4
  <2> QED
    BY <1>2, <1>4, <2>1, <2>2 DEF n

LEMMA AppendFacts ==
    ASSUME NEW S, NEW s \in Seq(S), NEW e \in S
    PROVE  /\ Append(s, e) \in Seq(S) /\ Len(Append(s, e)) = Len(s) + 1
           /\ Append(s, e)[Len(s) + 1] = e
           /\ \A i \in 1 .. Len(s) : Append(s, e)[i] = s[i]
  OBVIOUS

LEMMA TopFacts ==
    ASSUME Shape, NEW t \in Threads
    PROVE  /\ Depth(t) \in Nat \ {0} /\ stack[t] \in Seq(Frames)
           /\ At(t) = stack[t][Depth(t)].at /\ Task(t) = stack[t][Depth(t)].task
           /\ Task(t) \in Tasks \cup {Main, NoTask}
           /\ At(t) \notin InTask \cup InWait => Depth(t) = 1 /\ At(t) = Base(t)
           /\ At(t) \in InTask => Task(t) \in Tasks /\ Depth(t) > 1
           /\ At(t) \in InWait => Task(t) \in Groups /\ Depth(t) > 1
           /\ Depth(t) > 1 => Base(t) \in {"loop", "main", "manager"}
<1>1. stack[t] \in Seq(Frames) /\ Depth(t) \in Nat \ {0}
  BY DEF Shape, Depth
<1>2. At(t) = stack[t][Depth(t)].at /\ Task(t) = stack[t][Depth(t)].task
  BY DEF At, Task, Last, Depth
<1>3. stack[t][Depth(t)] \in Frames
  BY <1>1 DEF Depth
<1>5. Base(t) \notin InTask \cup InWait
  BY DEF Shape, Places, MainPlaces, ManagerPlaces, WorkerPlaces, InTask, InWait
<1>6. ASSUME Depth(t) > 1
      PROVE  IsCall(stack[t][Depth(t)]) /\ Base(t) \in {"loop", "main", "manager"}
  <2>1. IsCall(stack[t][Depth(t)])
    BY <1>1, <1>6 DEF Shape
  <2>2. stack[t][1].at \in Calling
    BY <1>1, <1>6 DEF Shape
  <2> QED
    BY <2>1, <2>2, <1>5 DEF Base, Calling, InTask, InWait
<1>7. Depth(t) = 1 => At(t) = Base(t)
  BY <1>2 DEF Base
<1>8. Task(t) \in Tasks \cup {Main, NoTask}
  BY <1>2, <1>3 DEF Frames
<1> QED
  BY <1>1, <1>2, <1>5, <1>6, <1>7, <1>8 DEF IsCall, InTask, InWait

\* Where a thread stands tells who it is.
LEMMA WhoIsAt ==
    ASSUME Shape, NEW t \in Threads
    PROVE  /\ At(t) \in MainPlaces => t = Main
           /\ At(t) \in ManagerPlaces => t = Manager
           /\ At(t) \in WorkerPlaces => t \in Workers
           /\ Base(t) \in MainPlaces => t = Main
           /\ Base(t) \in ManagerPlaces => t = Manager
           /\ Base(t) \in WorkerPlaces => t \in Workers
<1>1. At(t) \in MainPlaces \cup ManagerPlaces \cup WorkerPlaces => At(t) = Base(t)
  BY TopFacts DEF MainPlaces, ManagerPlaces, WorkerPlaces, InTask, InWait
<1>2. Base(t) \in Places(t)
  BY DEF Shape
<1> QED
  BY <1>1, <1>2, PoolAssumption
  DEF Places, MainPlaces, ManagerPlaces, WorkerPlaces, Threads

\* What each operation on a stack does to its frames.
LEMMA FrameType ==
    ASSUME NEW p \in AllPlaces, NEW k \in Tasks \cup {Main, NoTask}
    PROVE  Frame(p, k) \in Frames /\ Frame(p, k).at = p /\ Frame(p, k).task = k
  BY DEF Frame, Frames

LEMMA GotoFrames ==
    ASSUME Shape, NEW t \in Threads, NEW p \in AllPlaces, Goto(t, p)
    PROVE  /\ stack' \in [Threads -> Seq(Frames)]
           /\ \A u \in Threads \ {t} : stack'[u] = stack[u]
           /\ Depth(t)' = Depth(t)
           /\ \A i \in 1 .. Depth(t) - 1 : stack'[t][i] = stack[t][i]
           /\ stack'[t][Depth(t)] = Frame(p, Task(t))
<1>1. stack \in [Threads -> Seq(Frames)] /\ stack[t] \in Seq(Frames) /\ Depth(t) >= 1
  BY DEF Shape
<1> DEFINE f == Front(stack[t])
           s == Append(f, Frame(p, Task(t)))
<1>2. /\ f \in Seq(Frames) /\ Len(f) = Depth(t) - 1
      /\ \A i \in 1 .. Depth(t) - 1 : f[i] = stack[t][i]
  BY <1>1, FrontFacts DEF Depth
<1>3. Frame(p, Task(t)) \in Frames
  BY TopFacts DEF Frame, Frames
<1>4. /\ s \in Seq(Frames) /\ Len(s) = Depth(t) /\ s[Depth(t)] = Frame(p, Task(t))
      /\ \A i \in 1 .. Depth(t) - 1 : s[i] = stack[t][i]
  <2>1. Depth(t) \in Nat
    BY <1>1 DEF Depth
  <2> DEFINE e == Frame(p, Task(t))
             n == Depth(t) - 1
  <2> HIDE DEF f, e, n
  <2>2. /\ Append(f, e) \in Seq(Frames) /\ Len(Append(f, e)) = Len(f) + 1
        /\ Append(f, e)[Len(f) + 1] = e
        /\ \A i \in 1 .. Len(f) : Append(f, e)[i] = f[i]
    BY <1>2, <1>3, AppendFacts DEF e
  <2>3. n + 1 = Depth(t) /\ Len(f) = n /\ \A i \in 1 .. n : f[i] = stack[t][i]
    BY <1>2, <2>1 DEF n
  <2>4. \A i \in 1 .. n : Append(f, e)[i] = stack[t][i]
    BY <2>2, <2>3
  <2> QED
    BY <2>2, <2>3, <2>4 DEF e, n
<1>5. stack' = [stack EXCEPT ![t] = s]
  BY DEF Goto
<1> HIDE DEF s
<1> QED
  BY <1>1, <1>4, <1>5 DEF Depth

LEMMA CallFrames ==
    ASSUME Shape, NEW t \in Threads, NEW p \in AllPlaces, NEW k \in Tasks \cup {Main}, Call(t, p, k)
    PROVE  /\ stack' \in [Threads -> Seq(Frames)]
           /\ \A u \in Threads \ {t} : stack'[u] = stack[u]
           /\ Depth(t)' = Depth(t) + 1
           /\ \A i \in 1 .. Depth(t) : stack'[t][i] = stack[t][i]
           /\ stack'[t][Depth(t) + 1] = Frame(p, k)
<1>1. stack \in [Threads -> Seq(Frames)] /\ stack[t] \in Seq(Frames) /\ Depth(t) >= 1
  BY DEF Shape
<1>2. Frame(p, k) \in Frames
  BY DEF Frame, Frames
<1> DEFINE s == Append(stack[t], Frame(p, k))
<1>3. /\ s \in Seq(Frames) /\ Len(s) = Depth(t) + 1 /\ s[Depth(t) + 1] = Frame(p, k)
      /\ \A i \in 1 .. Depth(t) : s[i] = stack[t][i]
  BY <1>1, <1>2, AppendFacts DEF Depth
<1>4. stack' = [stack EXCEPT ![t] = s]
  BY DEF Call
<1> HIDE DEF s
<1> QED
  BY <1>1, <1>3, <1>4 DEF Depth

LEMMA ReturnFrames ==
    ASSUME Shape, NEW t \in Threads, Return(t)
    PROVE  /\ stack' \in [Threads -> Seq(Frames)]
           /\ \A u \in Threads \ {t} : stack'[u] = stack[u]
           /\ Depth(t)' = Depth(t) - 1
           /\ \A i \in 1 .. Depth(t) - 1 : stack'[t][i] = stack[t][i]
<1>1. stack \in [Threads -> Seq(Frames)] /\ stack[t] \in Seq(Frames) /\ Depth(t) >= 1
  BY DEF Shape
<1> DEFINE f == Front(stack[t])
<1>2. /\ f \in Seq(Frames) /\ Len(f) = Depth(t) - 1
      /\ \A i \in 1 .. Depth(t) - 1 : f[i] = stack[t][i]
  BY <1>1, FrontFacts DEF Depth
<1>3. stack' = [stack EXCEPT ![t] = f]
  BY DEF Return
<1> HIDE DEF f
<1> QED
  BY <1>1, <1>2, <1>3 DEF Depth

LEMMA PopFrames ==
    ASSUME Shape, NEW t \in Threads, NEW p \in AllPlaces, runQueue \in Seq(Tasks), Pop(t, p)
    PROVE  /\ stack' \in [Threads -> Seq(Frames)]
           /\ \A u \in Threads \ {t} : stack'[u] = stack[u]
           /\ Depth(t)' = Depth(t) + 1
           /\ \A i \in 1 .. Depth(t) - 1 : stack'[t][i] = stack[t][i]
           /\ stack'[t][Depth(t)] = Frame(p, Task(t))
           /\ stack'[t][Depth(t) + 1] = Frame("run", Head(runQueue))
           /\ Head(runQueue) \in Tasks
<1>1. stack \in [Threads -> Seq(Frames)] /\ stack[t] \in Seq(Frames) /\ Depth(t) >= 1
  BY DEF Shape
<1> DEFINE f == Front(stack[t])
           g == Append(f, Frame(p, Task(t)))
           s == g \o <<Frame("run", Head(runQueue))>>
<1>2. /\ f \in Seq(Frames) /\ Len(f) = Depth(t) - 1
      /\ \A i \in 1 .. Depth(t) - 1 : f[i] = stack[t][i]
  BY <1>1, FrontFacts DEF Depth
<1>3. Head(runQueue) \in Tasks
  BY DEF Pop
<1>4. Frame(p, Task(t)) \in Frames /\ Frame("run", Head(runQueue)) \in Frames
  <2>1. Task(t) \in Tasks \cup {Main, NoTask}
    BY TopFacts
  <2>2. Frame(p, Task(t)) \in Frames
    BY <2>1, FrameType
  <2>3. "run" \in AllPlaces
    BY DEF AllPlaces, InTask
  <2> QED
    BY <1>3, <2>2, <2>3, FrameType
<1>5. Depth(t) \in Nat
  BY <1>1 DEF Depth
<1>6. /\ g \in Seq(Frames) /\ Len(g) = Depth(t) /\ g[Depth(t)] = Frame(p, Task(t))
      /\ \A i \in 1 .. Depth(t) - 1 : g[i] = stack[t][i]
  <2> HIDE DEF f
  <2> QED
    BY <1>2, <1>4, <1>5, AppendFacts
<1>7. /\ s \in Seq(Frames) /\ Len(s) = Depth(t) + 1
      /\ s[Depth(t) + 1] = Frame("run", Head(runQueue))
      /\ \A i \in 1 .. Depth(t) : s[i] = g[i]
  <2> HIDE DEF g
  <2> QED
    BY <1>4, <1>5, <1>6
<1>8. stack' = [stack EXCEPT ![t] = s]
  BY DEF Pop
<1> HIDE DEF s, g
<1>9. /\ stack' \in [Threads -> Seq(Frames)] /\ stack'[t] = s
      /\ \A u \in Threads \ {t} : stack'[u] = stack[u]
  BY <1>1, <1>7, <1>8
<1>10. Depth(t)' = Depth(t) + 1
  BY <1>7, <1>9 DEF Depth
<1>11. s[Depth(t)] = g[Depth(t)] /\ \A i \in 1 .. Depth(t) - 1 : s[i] = stack[t][i]
  <2>1. Depth(t) >= 1
    BY <1>1
  <2> QED
    BY <1>5, <1>6, <1>7, <2>1
<1> QED
  BY <1>3, <1>6, <1>7, <1>9, <1>10, <1>11

OthersKeep(t) == \A u \in Threads \ {t} :
    /\ stack'[u] = stack[u] /\ At(u)' = At(u) /\ Task(u)' = Task(u)
    /\ Depth(u)' = Depth(u) /\ Base(u)' = Base(u)

LEMMA Others ==
    ASSUME NEW t, \A u \in Threads \ {t} : stack'[u] = stack[u]
    PROVE  OthersKeep(t)
  BY DEF OthersKeep, At, Task, Depth, Base, Last

LEMMA ShapeFrom ==
    ASSUME Shape, NEW t \in Threads, stack' \in [Threads -> Seq(Frames)],
           \A u \in Threads \ {t} : stack'[u] = stack[u],
           Depth(t)' >= 1, Base(t)' \in Places(t),
           \A i \in 2 .. Depth(t)' : IsCall(stack'[t][i]),
           \A i \in 1 .. Depth(t)' - 1 : stack'[t][i].at \in Calling
    PROVE  Shape' /\ OthersKeep(t)
<1>1. OthersKeep(t)
  BY Others
<1>2. ASSUME NEW u \in Threads \ {t}
      PROVE  /\ Depth(u)' >= 1 /\ Base(u)' \in Places(u)
             /\ \A i \in 2 .. Depth(u)' : IsCall(stack'[u][i])
             /\ \A i \in 1 .. Depth(u)' - 1 : stack'[u][i].at \in Calling
  BY <1>1 DEF Shape, OthersKeep
<1>3. \A f : IsCall(f)' = IsCall(f)
  BY DEF IsCall, Groups
<1>4. \A u \in Threads :
         /\ Depth(u)' >= 1 /\ Base(u)' \in Places(u)
         /\ \A i \in 2 .. Depth(u)' : IsCall(stack'[u][i])
         /\ \A i \in 1 .. Depth(u)' - 1 : stack'[u][i].at \in Calling
  BY <1>2
<1> QED
  BY <1>1, <1>4 DEF Shape

\* A thread outside of any call goes to another place.
LEMMA GotoBase ==
    ASSUME Shape, NEW t \in Threads, NEW p \in Places(t), Goto(t, p),
           At(t) \notin InTask \cup InWait
    PROVE  /\ Shape' /\ OthersKeep(t) /\ Depth(t) = 1 /\ Depth(t)' = 1
           /\ Base(t)' = p /\ At(t)' = p
<1>1. Depth(t) = 1
  BY TopFacts
<1>2. p \in AllPlaces
  BY DEF Places, AllPlaces
<1>3. /\ stack' \in [Threads -> Seq(Frames)]
      /\ \A u \in Threads \ {t} : stack'[u] = stack[u]
      /\ Depth(t)' = 1 /\ stack'[t][1] = Frame(p, Task(t))
  BY <1>1, <1>2, GotoFrames
<1>4. Base(t)' = p /\ At(t)' = p
  <2>1. stack'[t][1].at = p
    BY <1>3 DEF Frame
  <2>2. Len(stack'[t]) = 1
    BY <1>3 DEF Depth
  <2> QED
    BY <2>1, <2>2 DEF Base, At, Last
<1>5. Shape' /\ OthersKeep(t)
  BY <1>3, <1>4, ShapeFrom
<1> QED
  BY <1>1, <1>3, <1>4, <1>5

\* A call goes on.
LEMMA GotoCall ==
    ASSUME Shape, NEW t \in Threads, NEW p, Goto(t, p),
           (At(t) \in InTask /\ p \in InTask) \/ (At(t) \in InWait /\ p \in InWait)
    PROVE  /\ Shape' /\ OthersKeep(t)
           /\ Depth(t) > 1 /\ Depth(t)' = Depth(t) /\ Base(t)' = Base(t)
           /\ At(t)' = p /\ Task(t)' = Task(t)
           /\ \A i \in 1 .. Depth(t) - 1 : stack'[t][i] = stack[t][i]
<1>1. p \in AllPlaces
  BY DEF AllPlaces
<1>2. /\ stack' \in [Threads -> Seq(Frames)]
      /\ \A u \in Threads \ {t} : stack'[u] = stack[u]
      /\ Depth(t)' = Depth(t)
      /\ \A i \in 1 .. Depth(t) - 1 : stack'[t][i] = stack[t][i]
      /\ stack'[t][Depth(t)] = Frame(p, Task(t))
  BY <1>1, GotoFrames
<1>3. Depth(t) > 1 /\ Depth(t) \in Nat /\ IsCall(Frame(p, Task(t)))
  BY TopFacts DEF IsCall, Frame, InTask, InWait
<1>4. At(t)' = p /\ Task(t)' = Task(t)
  BY <1>2 DEF At, Task, Last, Depth, Frame
<1>5. Base(t)' = Base(t)
  BY <1>2, <1>3 DEF Base
<1>6. ASSUME NEW i \in 2 .. Depth(t)'
      PROVE  IsCall(stack'[t][i])
  <2>1. CASE i = Depth(t)
    BY <2>1, <1>2, <1>3
  <2>2. CASE i # Depth(t)
    <3>1. i \in 2 .. Depth(t) /\ i \in 1 .. Depth(t) - 1
      BY <2>2, <1>2, <1>3
    <3> QED
      BY <3>1, <1>2 DEF Shape
  <2> QED
    BY <2>1, <2>2
<1>7. \A i \in 1 .. Depth(t)' - 1 : stack'[t][i].at \in Calling
  BY <1>2 DEF Shape
<1>8. Depth(t)' >= 1 /\ Base(t)' \in Places(t)
  BY <1>2, <1>3, <1>5 DEF Shape
<1>9. Shape' /\ OthersKeep(t)
  BY <1>2, <1>6, <1>7, <1>8, ShapeFrom
<1> QED
  BY <1>2, <1>3, <1>4, <1>5, <1>9

\* A call is made.
LEMMA CallMade ==
    ASSUME Shape, NEW t \in Threads, NEW p, NEW k, Call(t, p, k), At(t) \in Calling,
           (p \in InTask /\ k \in Tasks) \/ (p \in InWait /\ k \in Groups)
    PROVE  /\ Shape' /\ OthersKeep(t)
           /\ Depth(t)' = Depth(t) + 1 /\ Base(t)' = Base(t)
           /\ At(t)' = p /\ Task(t)' = k
           /\ \A i \in 1 .. Depth(t) : stack'[t][i] = stack[t][i]
<1>1. p \in AllPlaces /\ k \in Tasks \cup {Main}
  BY DEF AllPlaces, Groups
<1>2. /\ stack' \in [Threads -> Seq(Frames)]
      /\ \A u \in Threads \ {t} : stack'[u] = stack[u]
      /\ Depth(t)' = Depth(t) + 1
      /\ \A i \in 1 .. Depth(t) : stack'[t][i] = stack[t][i]
      /\ stack'[t][Depth(t) + 1] = Frame(p, k)
  BY <1>1, CallFrames
<1>3. Depth(t) \in Nat \ {0} /\ IsCall(Frame(p, k)) /\ stack[t][Depth(t)].at \in Calling
  BY TopFacts DEF IsCall, Frame
<1>4. At(t)' = p /\ Task(t)' = k
  BY <1>2 DEF At, Task, Last, Depth, Frame
<1>5. Base(t)' = Base(t)
  BY <1>2, <1>3 DEF Base
<1>6. ASSUME NEW i \in 2 .. Depth(t)'
      PROVE  IsCall(stack'[t][i])
  <2>1. CASE i = Depth(t) + 1
    BY <2>1, <1>2, <1>3
  <2>2. CASE i # Depth(t) + 1
    <3>1. i \in 2 .. Depth(t) /\ i \in 1 .. Depth(t)
      BY <2>2, <1>2, <1>3
    <3> QED
      BY <3>1, <1>2 DEF Shape
  <2> QED
    BY <2>1, <2>2
<1>7. ASSUME NEW i \in 1 .. Depth(t)' - 1
      PROVE  stack'[t][i].at \in Calling
  <2>1. i \in 1 .. Depth(t) /\ stack'[t][i] = stack[t][i]
    BY <1>2, <1>3
  <2>2. CASE i = Depth(t)
    BY <2>1, <2>2, <1>3
  <2>3. CASE i # Depth(t)
    BY <2>1, <2>3, <1>3 DEF Shape
  <2> QED
    BY <2>2, <2>3
<1>8. Depth(t)' >= 1 /\ Base(t)' \in Places(t)
  BY <1>2, <1>3, <1>5 DEF Shape
<1>9. Shape' /\ OthersKeep(t)
  BY <1>2, <1>6, <1>7, <1>8, ShapeFrom
<1> QED
  BY <1>2, <1>4, <1>5, <1>9

\* A call returns.
LEMMA CallReturns ==
    ASSUME Shape, NEW t \in Threads, Return(t), At(t) \in InTask \cup InWait
    PROVE  /\ Shape' /\ OthersKeep(t)
           /\ Depth(t) > 1 /\ Depth(t)' = Depth(t) - 1 /\ Base(t)' = Base(t)
           /\ At(t)' \in Calling
           /\ \A i \in 1 .. Depth(t) - 1 : stack'[t][i] = stack[t][i]
<1>1. /\ stack' \in [Threads -> Seq(Frames)]
      /\ \A u \in Threads \ {t} : stack'[u] = stack[u]
      /\ Depth(t)' = Depth(t) - 1
      /\ \A i \in 1 .. Depth(t) - 1 : stack'[t][i] = stack[t][i]
  BY ReturnFrames
<1>2. Depth(t) > 1 /\ Depth(t) \in Nat
  BY TopFacts
<1>3. Base(t)' = Base(t)
  BY <1>1, <1>2 DEF Base
<1>4. \A i \in 1 .. Depth(t) - 1 : stack'[t][i].at \in Calling
  BY <1>1 DEF Shape
<1>5. At(t)' \in Calling
  <2>1. At(t)' = stack'[t][Depth(t) - 1].at
    BY <1>1 DEF At, Last, Depth
  <2>2. Depth(t) - 1 \in 1 .. Depth(t) - 1
    BY <1>2
  <2> QED
    BY <2>1, <2>2, <1>4
<1>6. \A i \in 2 .. Depth(t)' : IsCall(stack'[t][i])
  BY <1>1, <1>2 DEF Shape
<1>7. Depth(t)' >= 1 /\ Base(t)' \in Places(t)
  BY <1>1, <1>2, <1>3 DEF Shape
<1>8. \A i \in 1 .. Depth(t)' - 1 : stack'[t][i].at \in Calling
  BY <1>1, <1>2, <1>4
<1>9. Shape' /\ OthersKeep(t)
  BY <1>1, <1>6, <1>7, <1>8, ShapeFrom
<1> QED
  BY <1>1, <1>2, <1>3, <1>5, <1>9

LEMMA RunIsCall == ASSUME NEW k \in Tasks PROVE IsCall(Frame("run", k))
  BY DEF IsCall, Frame, InTask

\* A task is taken from the queue and called, by a worker or by one who waits.
LEMMA TaskPopped ==
    ASSUME Shape, NEW t \in Threads, NEW p, runQueue \in Seq(Tasks), Pop(t, p),
           \/ At(t) \in {"start", "loop"} /\ p = "loop"
           \/ At(t) = "work" /\ p = "poll"
    PROVE  /\ Shape' /\ OthersKeep(t)
           /\ Depth(t)' = Depth(t) + 1
           /\ Base(t)' = IF At(t) = "work" THEN Base(t) ELSE "loop"
           /\ At(t)' = "run" /\ Task(t)' = Head(runQueue) /\ Head(runQueue) \in Tasks
           /\ \A i \in 1 .. Depth(t) - 1 : stack'[t][i] = stack[t][i]
           /\ stack'[t][Depth(t) + 1] = Frame("run", Head(runQueue))
<1>1. p \in AllPlaces
  BY DEF AllPlaces, WorkerPlaces, InWait
<1>2. /\ stack' \in [Threads -> Seq(Frames)]
      /\ \A u \in Threads \ {t} : stack'[u] = stack[u]
      /\ Depth(t)' = Depth(t) + 1
      /\ \A i \in 1 .. Depth(t) - 1 : stack'[t][i] = stack[t][i]
      /\ stack'[t][Depth(t)] = Frame(p, Task(t))
      /\ stack'[t][Depth(t) + 1] = Frame("run", Head(runQueue))
      /\ Head(runQueue) \in Tasks
  BY <1>1, PopFrames
<1> DEFINE k == Head(runQueue)
<1>3. k \in Tasks /\ stack'[t][Depth(t) + 1] = Frame("run", k)
  BY <1>2
<1> HIDE DEF k
<1>4. Depth(t) \in Nat \ {0} /\ IsCall(Frame("run", k)) /\ p \in Calling
  <2>1. Depth(t) \in Nat \ {0}
    BY TopFacts
  <2>2. k \in Tasks
    BY <1>3
  <2>3. IsCall(Frame("run", k))
    BY <2>2, RunIsCall
  <2> QED
    BY <2>1, <2>3 DEF Calling
<1>5. At(t)' = "run" /\ Task(t)' = k
  BY <1>2, <1>3 DEF At, Task, Last, Depth, Frame
<1>6. stack'[t][Depth(t)].at = p /\ stack'[t][Depth(t)].task = Task(t)
  BY <1>2 DEF Frame
<1>7. CASE At(t) = "work"
  <2>1. Depth(t) > 1 /\ Task(t) \in Groups /\ p = "poll"
    BY <1>7, TopFacts DEF InWait
  <2>2. Base(t)' = Base(t)
    BY <1>2, <1>4, <2>1 DEF Base
  <2>3. ASSUME NEW i \in 2 .. Depth(t)'
        PROVE  IsCall(stack'[t][i])
    <3>1. CASE i = Depth(t) + 1
      BY <3>1, <1>3, <1>4
    <3>2. CASE i = Depth(t)
      BY <3>2, <2>1, <1>6 DEF IsCall, InWait
    <3>3. CASE i \in 2 .. Depth(t) - 1
      BY <3>3, <1>2, <1>4 DEF Shape
    <3>4. i \in 2 .. Depth(t) + 1
      BY <1>2
    <3> QED
      BY <3>1, <3>2, <3>3, <3>4, <1>4
  <2>4. ASSUME NEW i \in 1 .. Depth(t)' - 1
        PROVE  stack'[t][i].at \in Calling
    <3>1. CASE i = Depth(t)
      BY <3>1, <1>4, <1>6
    <3>2. CASE i \in 1 .. Depth(t) - 1
      BY <3>2, <1>2 DEF Shape
    <3> QED
      BY <3>1, <3>2, <1>2, <1>4
  <2>5. Depth(t)' >= 1 /\ Base(t)' \in Places(t)
    BY <1>2, <1>4, <2>2 DEF Shape
  <2>6. Shape' /\ OthersKeep(t)
    BY <1>2, <2>3, <2>4, <2>5, ShapeFrom
  <2> QED
    BY <1>2, <1>3, <1>5, <1>7, <2>2, <2>6 DEF k
<1>8. CASE At(t) # "work"
  <2>1. p = "loop" /\ Depth(t) = 1 /\ Base(t) \in {"start", "loop"}
    BY <1>8, TopFacts DEF InTask, InWait
  <2>2. Base(t)' = "loop"
    BY <1>6, <2>1 DEF Base
  <2>3. \A i \in 2 .. Depth(t)' : IsCall(stack'[t][i])
    BY <1>2, <1>3, <1>4, <2>1
  <2>4. \A i \in 1 .. Depth(t)' - 1 : stack'[t][i].at \in Calling
    BY <1>2, <1>4, <1>6, <2>1
  <2>5. t \in Workers
    BY <2>1, WhoIsAt DEF WorkerPlaces
  <2>6. Depth(t)' >= 1 /\ Base(t)' \in Places(t)
    BY <1>2, <2>1, <2>2, <2>5, PoolAssumption DEF Places, WorkerPlaces
  <2>7. Shape' /\ OthersKeep(t)
    BY <1>2, <2>3, <2>4, <2>6, ShapeFrom
  <2> QED
    BY <1>2, <1>3, <1>5, <1>8, <2>2, <2>7 DEF k
<1> QED
  BY <1>7, <1>8

-----------------------------------------------------------------------------
(***************************************************************************)
(* What the actions do to the stacks: BaseStep is a step of a thread       *)
(* outside of any call, CallStep one that makes, continues or ends a call. *)
(***************************************************************************)
InUse == {"run", "finish", "destroy"}

BaseStep(t, p) ==
    /\ Shape' /\ OthersKeep(t) /\ At(t) = Base(t) /\ Depth(t) = 1 /\ Depth(t)' = 1
    /\ Base(t)' = p /\ At(t)' = p

CallStep(t) ==
    /\ Shape' /\ OthersKeep(t) /\ Base(t)' = Base(t) /\ Depth(t)' >= Depth(t) - 1
    /\ \A i \in 1 .. Depth(t) - 1 : stack'[t][i] = stack[t][i]

\* the last frame is still there, and in the same task
TopStays(t) ==
    /\ Depth(t)' >= Depth(t) /\ stack'[t][Depth(t)].task = Task(t)
    /\ stack'[t][Depth(t)].at \in InUse

LEMMA BaseSteps ==
    ASSUME Shape, NEW t \in Threads, NEW p \in Places(t), Goto(t, p),
           At(t) \notin InTask \cup InWait
    PROVE  BaseStep(t, p)
  BY GotoBase, TopFacts DEF BaseStep

LEMMA MainSteps ==
    ASSUME Shape
    PROVE  /\ InitIds => At(Main) = "init" /\
                  (BaseStep(Main, "allocthreads") \/ BaseStep(Main, "failed"))
           /\ InitThreads => At(Main) = "allocthreads" /\
                  (BaseStep(Main, "spawning") \/ BaseStep(Main, "failed"))
           /\ SpawnThreadFails => At(Main) = "spawning" /\ BaseStep(Main, "errjoin")
           /\ Deinit => At(Main) = "main" /\ BaseStep(Main, "join")
           /\ Stop => \/ At(Main) = "join" /\ BaseStep(Main, "broadcast")
                      \/ At(Main) = "errjoin" /\ BaseStep(Main, "errbroadcast")
           /\ Broadcast => \/ At(Main) = "broadcast" /\ BaseStep(Main, "joining")
                           \/ At(Main) = "errbroadcast" /\ BaseStep(Main, "errjoining")
           /\ JoinThreads => \/ At(Main) = "joining" /\ BaseStep(Main, "gone")
                             \/ At(Main) = "errjoining" /\ BaseStep(Main, "failed")
<1>1. Main \in Threads /\ Places(Main) = MainPlaces
  BY DEF Threads, Places
<1>2. \A p \in MainPlaces : Goto(Main, p) /\ At(Main) \in MainPlaces => BaseStep(Main, p)
  BY <1>1, BaseSteps DEF MainPlaces, InTask, InWait
<1>3. InitIds => At(Main) = "init" /\
         (BaseStep(Main, "allocthreads") \/ BaseStep(Main, "failed"))
  BY <1>2 DEF InitIds, MainPlaces
<1>4. InitThreads => At(Main) = "allocthreads" /\
         (BaseStep(Main, "spawning") \/ BaseStep(Main, "failed"))
  BY <1>2 DEF InitThreads, MainPlaces
<1>5. /\ SpawnThreadFails => At(Main) = "spawning" /\ BaseStep(Main, "errjoin")
      /\ Deinit => At(Main) = "main" /\ BaseStep(Main, "join")
  BY <1>2 DEF SpawnThreadFails, Deinit, MainPlaces
<1>6. Stop => \/ At(Main) = "join" /\ BaseStep(Main, "broadcast")
              \/ At(Main) = "errjoin" /\ BaseStep(Main, "errbroadcast")
  BY <1>2 DEF Stop, MainPlaces
<1>7. Broadcast => \/ At(Main) = "broadcast" /\ BaseStep(Main, "joining")
                   \/ At(Main) = "errbroadcast" /\ BaseStep(Main, "errjoining")
  BY <1>2 DEF Broadcast, MainPlaces
<1>8. JoinThreads => \/ At(Main) = "joining" /\ BaseStep(Main, "gone")
                     \/ At(Main) = "errjoining" /\ BaseStep(Main, "failed")
  BY <1>2 DEF JoinThreads, MainPlaces
<1> QED
  BY <1>3, <1>4, <1>5, <1>6, <1>7, <1>8

LEMMA ManagerSteps ==
    ASSUME Shape
    PROVE  /\ ManagerStarts => At(Main) = "main" /\ At(Manager) = "outside"
                               /\ BaseStep(Manager, "manager")
           /\ ManagerEnds => At(Manager) = "manager" /\ BaseStep(Manager, "left")
<1>1. Manager \in Threads /\ Places(Manager) = ManagerPlaces
  BY PoolAssumption DEF Threads, Places
<1>2. \A p \in ManagerPlaces :
         Goto(Manager, p) /\ At(Manager) \in ManagerPlaces => BaseStep(Manager, p)
  BY <1>1, BaseSteps DEF ManagerPlaces, InTask, InWait
<1> QED
  BY <1>2 DEF ManagerStarts, ManagerEnds, ManagerPlaces

\* A worker pops a task, falls asleep or ends; or it wakes up.
LEMMA WorkerSteps ==
    ASSUME Shape, runQueue \in Seq(Tasks), NEW w \in Workers
    PROVE  /\ (WorkerStarts(w) \/ WorkerTurns(w)) =>
                 /\ At(w) \in {"start", "loop"}
                 /\ Pop(w, "loop") \/ (runQueue = <<>> /\ UNCHANGED <<runQueue, ran>>)
                 /\ Pop(w, "loop") \/ (isRunning /\ BaseStep(w, "asleep"))
                                   \/ (~isRunning /\ BaseStep(w, "exited"))
           /\ (Awake(w) \/ AwakeSpuriously(w)) => At(w) = "asleep" /\ BaseStep(w, "loop")
<1>1. w \in Threads /\ Places(w) = WorkerPlaces
  BY PoolAssumption DEF Threads, Places
<1>2. \A p \in WorkerPlaces : Goto(w, p) /\ At(w) \in WorkerPlaces => BaseStep(w, p)
  BY <1>1, BaseSteps DEF WorkerPlaces, InTask, InWait
<1>3. (WorkerStarts(w) \/ WorkerTurns(w)) =>
         /\ At(w) \in {"start", "loop"}
         /\ Pop(w, "loop") \/ (runQueue = <<>> /\ UNCHANGED <<runQueue, ran>>)
         /\ Pop(w, "loop") \/ (isRunning /\ BaseStep(w, "asleep"))
                           \/ (~isRunning /\ BaseStep(w, "exited"))
  <2>1. (WorkerStarts(w) \/ WorkerTurns(w)) => At(w) \in {"start", "loop"} /\ Turn(w)
    BY DEF WorkerStarts, WorkerTurns
  <2>2. ASSUME At(w) \in {"start", "loop"}, Turn(w)
        PROVE  \/ Pop(w, "loop")
               \/ /\ runQueue = <<>> /\ UNCHANGED <<runQueue, ran>>
                  /\ \/ isRunning /\ BaseStep(w, "asleep")
                     \/ ~isRunning /\ BaseStep(w, "exited")
    BY <2>2, <1>2 DEF Turn, WorkerPlaces
  <2> QED
    BY <2>1, <2>2
<1>4. (Awake(w) \/ AwakeSpuriously(w)) => At(w) = "asleep" /\ BaseStep(w, "loop")
  BY <1>2 DEF Awake, AwakeSpuriously, WorkerPlaces
<1> QED
  BY <1>3, <1>4

\* init starts a thread
LEMMA SpawnThreadStep ==
    ASSUME Shape, NEW w \in Workers, SpawnThread(w), \E u \in Workers : At(u) = "unborn"
    PROVE  /\ Shape'
           /\ At(w) = "unborn" /\ Base(w) = "unborn" /\ Base(Main) = "spawning"
           /\ Base(w)' = "start" /\ At(w)' = "start"
           /\ Base(Main)' = IF Len(spawned) + 1 = Cardinality(Workers) THEN "main" ELSE "spawning"
           /\ At(Main)' = Base(Main)'
           /\ Depth(w) = 1 /\ Depth(Main) = 1 /\ Depth(w)' = 1 /\ Depth(Main)' = 1
           /\ \A u \in Threads \ {w, Main} :
                 /\ stack'[u] = stack[u] /\ At(u)' = At(u) /\ Task(u)' = Task(u)
                 /\ Depth(u)' = Depth(u) /\ Base(u)' = Base(u)
<1>1. At(w) = "unborn" /\ At(Main) = "spawning"
  BY DEF SpawnThread
<1>2. w \in Threads /\ Main \in Threads /\ w # Main
  BY PoolAssumption DEF Threads
<1>3. /\ Depth(w) = 1 /\ Base(w) = "unborn"
      /\ Depth(Main) = 1 /\ Base(Main) = "spawning"
  BY <1>1, <1>2, TopFacts DEF InTask, InWait
<1> DEFINE p == IF Len(spawned) + 1 = Cardinality(Workers) THEN "main" ELSE "spawning"
<1>4. p \in MainPlaces /\ "start" \in WorkerPlaces
  BY DEF MainPlaces, WorkerPlaces
<1>5. /\ stack' = [stack EXCEPT ![w] = <<Frame("start", NoTask)>>, ![Main] = <<Frame(p, NoTask)>>]
      /\ stack \in [Threads -> Seq(Frames)]
  BY DEF SpawnThread, Shape
<1> HIDE DEF p
<1>6. Frame("start", NoTask) \in Frames /\ Frame(p, NoTask) \in Frames
  BY <1>4, FrameType DEF AllPlaces
<1>7. /\ <<Frame("start", NoTask)>> \in Seq(Frames) /\ <<Frame(p, NoTask)>> \in Seq(Frames)
      /\ stack' \in [Threads -> Seq(Frames)]
      /\ stack'[w] = <<Frame("start", NoTask)>> /\ stack'[Main] = <<Frame(p, NoTask)>>
      /\ \A u \in Threads \ {w, Main} : stack'[u] = stack[u]
  <2> DEFINE a == <<Frame("start", NoTask)>>
             b == <<Frame(p, NoTask)>>
  <2>1. a \in Seq(Frames) /\ b \in Seq(Frames)
    BY <1>6
  <2>2. stack' = [stack EXCEPT ![w] = a, ![Main] = b]
    BY <1>5
  <2> HIDE DEF a, b
  <2>3. /\ stack' \in [Threads -> Seq(Frames)] /\ stack'[w] = a /\ stack'[Main] = b
        /\ \A u \in Threads \ {w, Main} : stack'[u] = stack[u]
    BY <2>1, <2>2, <1>2, <1>5
  <2> QED
    BY <2>1, <2>3 DEF a, b
<1>8. /\ Base(w)' = "start" /\ At(w)' = "start" /\ Depth(w)' = 1
      /\ Base(Main)' = p /\ At(Main)' = p /\ Depth(Main)' = 1
  BY <1>7 DEF Base, At, Depth, Last, Frame
<1>9. \A u \in Threads \ {w, Main} :
         /\ stack'[u] = stack[u] /\ At(u)' = At(u) /\ Task(u)' = Task(u)
         /\ Depth(u)' = Depth(u) /\ Base(u)' = Base(u)
  BY <1>7 DEF At, Task, Depth, Base, Last
<1>10. Shape'
  <2>1. Base(w)' \in Places(w) /\ Base(Main)' \in Places(Main)
    BY <1>2, <1>4, <1>8, PoolAssumption DEF Places, MainPlaces, WorkerPlaces
  <2>2. ASSUME NEW u \in Threads
        PROVE  /\ Depth(u)' >= 1 /\ Base(u)' \in Places(u)
               /\ \A i \in 2 .. Depth(u)' : IsCall(stack'[u][i])
               /\ \A i \in 1 .. Depth(u)' - 1 : stack'[u][i].at \in Calling
    <3>1. CASE u \in {w, Main}
      BY <3>1, <2>1, <1>8
    <3>2. CASE u \notin {w, Main}
      BY <3>2, <1>9 DEF Shape
    <3> QED
      BY <3>1, <3>2
  <2> QED
    BY <2>2, <1>7 DEF Shape
<1> QED
  BY <1>1, <1>3, <1>8, <1>9, <1>10 DEF p

\* When a call goes on, the last frame stays the last.
LEMMA TopOf ==
    ASSUME NEW t, Depth(t)' = Depth(t), Task(t)' = Task(t), At(t)' \in InUse, Depth(t) \in Nat
    PROVE  TopStays(t)
  BY DEF TopStays, At, Task, Last, Depth

\* A frame that makes a call stays.
LEMMA CallerStays ==
    ASSUME Shape, NEW t \in Threads, Depth(t)' = Depth(t) + 1,
           \A i \in 1 .. Depth(t) : stack'[t][i] = stack[t][i]
    PROVE  At(t) \in InUse => TopStays(t)
<1>1. Depth(t) \in Nat \ {0}
  BY TopFacts
<1>2. stack'[t][Depth(t)] = stack[t][Depth(t)]
  BY <1>1
<1> QED
  BY <1>1, <1>2, TopFacts DEF TopStays

LEMMA SpawnStep ==
    ASSUME Shape, NEW t \in Threads, NEW k \in Tasks, NEW how, NEW g, Spawn(t, k, how, g)
    PROVE  /\ CallStep(t) /\ At(t) \in {"main", "manager", "run"}
           /\ At(t)' = "queue" /\ Task(t)' = k
           /\ At(t) \in InUse => TopStays(t)
<1>1. Call(t, "queue", k) /\ At(t) \in {"main", "manager", "run"}
  BY DEF Spawn, MayCall
<1>2. /\ Shape' /\ OthersKeep(t)
      /\ Depth(t)' = Depth(t) + 1 /\ Base(t)' = Base(t)
      /\ At(t)' = "queue" /\ Task(t)' = k
      /\ \A i \in 1 .. Depth(t) : stack'[t][i] = stack[t][i]
  BY <1>1, CallMade DEF Calling, InTask
<1>3. CallStep(t)
  <2>1. Depth(t) \in Nat
    BY TopFacts
  <2> QED
    BY <1>2, <2>1 DEF CallStep
<1> QED
  BY <1>1, <1>2, <1>3, CallerStays

LEMMA WaitAndWorkStep ==
    ASSUME Shape, NEW t \in Threads, NEW g \in Groups, WaitAndWork(t, g)
    PROVE  /\ CallStep(t) /\ At(t) # "queue" /\ At(t)' # "queue"
           /\ At(t) \in InUse => TopStays(t)
<1>1. Call(t, "poll", g) /\ At(t) \in {"main", "run"}
  BY DEF WaitAndWork
<1>2. /\ Shape' /\ OthersKeep(t)
      /\ Depth(t)' = Depth(t) + 1 /\ Base(t)' = Base(t)
      /\ At(t)' = "poll"
      /\ \A i \in 1 .. Depth(t) : stack'[t][i] = stack[t][i]
  BY <1>1, CallMade DEF Calling, InWait
<1>3. CallStep(t)
  <2>1. Depth(t) \in Nat
    BY TopFacts
  <2> QED
    BY <1>2, <2>1 DEF CallStep
<1> QED
  BY <1>1, <1>2, <1>3, CallerStays

LEMMA GotoStep ==
    ASSUME Shape, NEW t \in Threads, NEW p, Goto(t, p),
           (At(t) \in InTask /\ p \in InTask) \/ (At(t) \in InWait /\ p \in InWait)
    PROVE  /\ CallStep(t) /\ At(t)' = p /\ Task(t)' = Task(t)
           /\ p \in InUse => TopStays(t)
<1>1. /\ Shape' /\ OthersKeep(t)
      /\ Depth(t)' = Depth(t) /\ Base(t)' = Base(t)
      /\ At(t)' = p /\ Task(t)' = Task(t)
      /\ \A i \in 1 .. Depth(t) - 1 : stack'[t][i] = stack[t][i]
  BY GotoCall
<1>2. Depth(t) \in Nat
  BY TopFacts
<1>3. CallStep(t)
  BY <1>1, <1>2 DEF CallStep
<1> QED
  BY <1>1, <1>2, <1>3, TopOf

LEMMA ReturnStep ==
    ASSUME Shape, NEW t \in Threads, Return(t), At(t) \in InTask \cup InWait
    PROVE  CallStep(t) /\ At(t)' \in Calling
<1>1. Depth(t) \in Nat
  BY TopFacts
<1> QED
  BY <1>1, CallReturns DEF CallStep

\* Nothing is queued in these steps, and the last frame stays in its task.
LEMMA QuietSteps ==
    ASSUME Shape, NEW t \in Threads,
           FunctionReturns(t) \/ Signal(t) \/ Poll(t) \/ Await(t)
    PROVE  /\ CallStep(t) /\ At(t) # "queue" /\ At(t)' # "queue"
           /\ At(t) \in InUse => TopStays(t)
<1>1. CASE FunctionReturns(t)
  <2>1. PICK p \in {"finish", "destroy"} : Goto(t, p)
    BY <1>1 DEF FunctionReturns
  <2> QED
    BY <2>1, <1>1, GotoStep DEF FunctionReturns, InTask, InUse
<1>2. CASE Signal(t)
  BY <1>2, ReturnStep DEF Signal, InTask, InUse, Calling
<1>3. CASE Poll(t)
  <2>1. Return(t) \/ Goto(t, "work")
    BY <1>3 DEF Poll
  <2> QED
    BY <2>1, <1>3, ReturnStep, GotoStep DEF Poll, InWait, InUse, Calling
<1>4. CASE Await(t)
  BY <1>4, ReturnStep DEF Await, InWait, InUse, Calling
<1> QED
  BY <1>1, <1>2, <1>3, <1>4

LEMMA EnqueueStep ==
    ASSUME Shape, NEW t \in Threads, Enqueue(t)
    PROVE  CallStep(t) /\ At(t) = "queue" /\ Task(t) \in Tasks /\ At(t)' # "queue"
  BY GotoStep, TopFacts DEF Enqueue, InTask

LEMMA EnqueueFailsStep ==
    ASSUME Shape, NEW t \in Threads, EnqueueFails(t)
    PROVE  CallStep(t) /\ At(t) = "queue" /\ Task(t) \in Tasks /\ At(t)' # "queue"
<1>1. At(t) = "queue" /\ (Return(t) \/ Goto(t, "run"))
  BY DEF EnqueueFails
<1> QED
  BY <1>1, ReturnStep, GotoStep, TopFacts DEF InTask, Calling

LEMMA FinishStep ==
    ASSUME Shape, NEW t \in Threads, Finish(t)
    PROVE  /\ CallStep(t) /\ At(t) = "finish" /\ Task(t) \in Tasks /\ At(t)' # "queue"
           /\ Task(t) \in memory => TopStays(t)
<1>1. At(t) = "finish" /\ IF Task(t) \in memory THEN Goto(t, "destroy") ELSE Return(t)
  BY DEF Finish
<1> QED
  BY <1>1, ReturnStep, GotoStep, TopFacts DEF InTask, InUse, Calling

LEMMA DestroyStep ==
    ASSUME Shape, NEW t \in Threads, Destroy(t)
    PROVE  CallStep(t) /\ At(t) = "destroy" /\ Task(t) \in Tasks /\ At(t)' # "queue"
  BY ReturnStep, TopFacts DEF Destroy, InTask, Calling

LEMMA WorkStep ==
    ASSUME Shape, NEW t \in Threads, runQueue \in Seq(Tasks), Work(t)
    PROVE  /\ At(t) = "work" /\ At(t)' # "queue" /\ CallStep(t)
           /\ \/ Pop(t, "poll")
              \/ UNCHANGED <<runQueue, ran>>
<1>1. At(t) = "work"
  BY DEF Work
<1>2. CASE Pop(t, "poll")
  <2>1. /\ Shape' /\ OthersKeep(t)
        /\ Depth(t)' = Depth(t) + 1 /\ Base(t)' = Base(t) /\ At(t)' = "run"
        /\ \A i \in 1 .. Depth(t) - 1 : stack'[t][i] = stack[t][i]
    BY <1>1, <1>2, TaskPopped
  <2>2. Depth(t) \in Nat
    BY TopFacts
  <2>3. CallStep(t)
    BY <2>1, <2>2 DEF CallStep
  <2> QED
    BY <1>1, <1>2, <2>1, <2>3
<1>3. CASE Goto(t, "await") /\ UNCHANGED <<runQueue, ran>>
  BY <1>1, <1>3, GotoStep DEF InWait
<1> QED
  BY <1>2, <1>3 DEF Work

-----------------------------------------------------------------------------
(***************************************************************************)
(* A task's way to its call.  One that was taken is about to be queued by  *)
(* one thread, or queued once, or called; it is called when it leaves the  *)
(* queue, or instead of being queued.                                      *)
(***************************************************************************)
Queueing(t, k) == At(t) = "queue" /\ Task(t) = k

Uncalled(k) == kind[k] \in Kinds /\ ran[k] = 0

OnTheWay ==
    /\ runQueue \in Seq(Tasks) /\ ran \in [Tasks -> Nat]
    /\ kind \in [Tasks -> Kinds \cup {"new", "refused"}]
    /\ \A t \in Threads, k \in Tasks :
          Queueing(t, k) => Uncalled(k) /\ \A i \in DOMAIN runQueue : runQueue[i] # k
    /\ \A t, u \in Threads, k \in Tasks : Queueing(t, k) /\ Queueing(u, k) => t = u
    /\ \A i \in DOMAIN runQueue, k \in Tasks : runQueue[i] = k => Uncalled(k)
    /\ \A i, j \in DOMAIN runQueue : runQueue[i] = runQueue[j] => i = j
    /\ \A k \in Tasks :
          /\ ran[k] <= 1 /\ (kind[k] \notin Kinds => ran[k] = 0)
          /\ Uncalled(k) => \/ \E i \in DOMAIN runQueue : runQueue[i] = k
                            \/ \E t \in Threads : Queueing(t, k)

LEMMA KindFacts == "new" \notin Kinds /\ "refused" \notin Kinds
  BY PoolAssumption

LEMMA OnTheWayInit == Init => OnTheWay
<1> SUFFICES ASSUME Init PROVE OnTheWay
  OBVIOUS
<1>1. ASSUME NEW t \in Threads PROVE At(t) # "queue"
  BY DEF Init, At, Last, Frame
<1> QED
  BY <1>1, KindFacts DEF Init, OnTheWay, Queueing, Uncalled

\* Steps that leave the queue, the kinds and the calls alone, and in which nobody is
\* before the queue or comes there.
LEMMA OnTheWayStays ==
    ASSUME OnTheWay, UNCHANGED <<runQueue, kind, ran>>,
           \A t \in Threads, k \in Tasks : Queueing(t, k)' = Queueing(t, k)
    PROVE  OnTheWay'
<1>1. \A k \in Tasks : Uncalled(k)' = Uncalled(k)
  BY DEF Uncalled
<1> QED
  BY <1>1 DEF OnTheWay

LEMMA NobodyQueues ==
    ASSUME NEW t \in Threads, OthersKeep(t), At(t) # "queue", At(t)' # "queue"
    PROVE  \A u \in Threads, k \in Tasks : Queueing(u, k)' = Queueing(u, k)
  BY DEF OthersKeep, Queueing

LEMMA OnTheWaySpawn ==
    ASSUME Shape, OnTheWay, NEW t \in Threads, NEW k \in Tasks, NEW how \in Kinds, NEW g,
           Spawn(t, k, how, g)
    PROVE  OnTheWay'
<1>1. /\ OthersKeep(t) /\ At(t) # "queue" /\ At(t)' = "queue" /\ Task(t)' = k
  BY SpawnStep DEF CallStep
<1>2. kind[k] = "new" /\ kind' = [kind EXCEPT ![k] = how] /\ UNCHANGED <<runQueue, ran>>
  BY DEF Spawn, poolVars
<1>3. \A u \in Threads, j \in Tasks :
         Queueing(u, j)' = (Queueing(u, j) \/ (u = t /\ j = k))
  BY <1>1 DEF OthersKeep, Queueing
<1>4. \A j \in Tasks : Uncalled(j)' = (Uncalled(j) \/ j = k)
  BY <1>2, KindFacts DEF Uncalled, OnTheWay
<1>5. ~Uncalled(k) /\ ran[k] = 0
  BY <1>2, KindFacts DEF Uncalled, OnTheWay
<1>6. \A i \in DOMAIN runQueue : runQueue[i] # k
  BY <1>5 DEF OnTheWay
<1>7. \A u \in Threads : ~Queueing(u, k)
  BY <1>5 DEF OnTheWay
<1>8. kind' \in [Tasks -> Kinds \cup {"new", "refused"}]
  BY <1>2 DEF OnTheWay
<1>9. /\ \A u \in Threads, j \in Tasks :
            Queueing(u, j)' => Uncalled(j)' /\ \A i \in DOMAIN runQueue : runQueue[i] # j
      /\ \A u, v \in Threads, j \in Tasks : Queueing(u, j)' /\ Queueing(v, j)' => u = v
      /\ \A i \in DOMAIN runQueue, j \in Tasks : runQueue[i] = j => Uncalled(j)'
  <2>1. \A i \in DOMAIN runQueue : runQueue[i] \in Tasks
    BY DEF OnTheWay
  <2> QED
    BY <2>1, <1>3, <1>4, <1>6, <1>7 DEF OnTheWay
<1>10. ASSUME NEW j \in Tasks
       PROVE  /\ ran[j] <= 1 /\ (kind'[j] \notin Kinds => ran[j] = 0)
              /\ Uncalled(j)' => \/ \E i \in DOMAIN runQueue : runQueue[i] = j
                                 \/ \E u \in Threads : Queueing(u, j)'
  BY <1>2, <1>3, <1>4, <1>5 DEF OnTheWay
<1> QED
  BY <1>2, <1>8, <1>9, <1>10 DEF OnTheWay

LEMMA OnTheWayEnqueue ==
    ASSUME Shape, OnTheWay, NEW t \in Threads, Enqueue(t)
    PROVE  OnTheWay'
<1>1. OthersKeep(t) /\ At(t) = "queue" /\ Task(t) \in Tasks /\ At(t)' # "queue"
  BY EnqueueStep DEF CallStep
<1> PICK k \in Tasks : k = Task(t)
  BY <1>1
<1>2. runQueue' = <<k>> \o runQueue /\ UNCHANGED <<kind, ran>>
  BY DEF Enqueue, taskVars
<1>3. Queueing(t, k) /\ Uncalled(k) /\ (\A i \in DOMAIN runQueue : runQueue[i] # k)
  BY <1>1 DEF OnTheWay, Queueing
<1>4. /\ runQueue' \in Seq(Tasks) /\ Len(runQueue') = Len(runQueue) + 1 /\ runQueue'[1] = k
      /\ \A i \in DOMAIN runQueue : runQueue'[i + 1] = runQueue[i]
      /\ \A i \in DOMAIN runQueue' : i = 1 \/ (i - 1 \in DOMAIN runQueue /\ runQueue'[i] = runQueue[i - 1])
      /\ DOMAIN runQueue' = 1 .. Len(runQueue) + 1 /\ DOMAIN runQueue = 1 .. Len(runQueue)
      /\ Len(runQueue) \in Nat
  BY <1>1, <1>2 DEF OnTheWay
<1>5. \A u \in Threads, j \in Tasks : Queueing(u, j)' = (Queueing(u, j) /\ u # t)
  BY <1>1 DEF OthersKeep, Queueing
<1>6. \A j \in Tasks : Uncalled(j)' = Uncalled(j)
  BY <1>2 DEF Uncalled
<1>7. \A u \in Threads, j \in Tasks : Queueing(u, j)' => j # k
  BY <1>1, <1>3, <1>5 DEF OnTheWay
<1>8. /\ \A u \in Threads, j \in Tasks :
            Queueing(u, j)' => Uncalled(j)' /\ \A i \in DOMAIN runQueue' : runQueue'[i] # j
      /\ \A u, v \in Threads, j \in Tasks : Queueing(u, j)' /\ Queueing(v, j)' => u = v
  <2>1. ASSUME NEW u \in Threads, NEW j \in Tasks, Queueing(u, j)'
        PROVE  Uncalled(j)' /\ \A i \in DOMAIN runQueue' : runQueue'[i] # j
    <3>1. Queueing(u, j) /\ j # k
      BY <2>1, <1>5, <1>7
    <3>2. Uncalled(j) /\ \A i \in DOMAIN runQueue : runQueue[i] # j
      BY <3>1 DEF OnTheWay
    <3> QED
      BY <3>1, <3>2, <1>4, <1>6
  <2>2. \A u, v \in Threads, j \in Tasks : Queueing(u, j)' /\ Queueing(v, j)' => u = v
    BY <1>5 DEF OnTheWay
  <2> QED
    BY <2>1, <2>2
<1>9. \A i \in DOMAIN runQueue', j \in Tasks : runQueue'[i] = j => Uncalled(j)'
  <2>1. \A i \in DOMAIN runQueue : runQueue[i] \in Tasks
    BY DEF OnTheWay
  <2> QED
    BY <2>1, <1>1, <1>3, <1>4, <1>6 DEF OnTheWay
<1>10. \A i, j \in DOMAIN runQueue' : runQueue'[i] = runQueue'[j] => i = j
  <2> SUFFICES ASSUME NEW i \in DOMAIN runQueue', NEW j \in DOMAIN runQueue',
                      runQueue'[i] = runQueue'[j]
               PROVE  i = j
    OBVIOUS
  <2>1. CASE i = 1 \/ j = 1
    BY <2>1, <1>3, <1>4
  <2>2. CASE i # 1 /\ j # 1
    <3>1. i - 1 = j - 1
      BY <2>2, <1>4 DEF OnTheWay
    <3> QED
      BY <3>1, <1>4
  <2> QED
    BY <2>1, <2>2
<1>11. ASSUME NEW j \in Tasks
       PROVE  /\ ran[j] <= 1 /\ (kind[j] \notin Kinds => ran[j] = 0)
              /\ Uncalled(j)' => \/ \E i \in DOMAIN runQueue' : runQueue'[i] = j
                                 \/ \E u \in Threads : Queueing(u, j)'
  <2>1. /\ ran[j] <= 1 /\ (kind[j] \notin Kinds => ran[j] = 0)
        /\ Uncalled(j)' => \/ \E i \in DOMAIN runQueue : runQueue[i] = j
                           \/ \E u \in Threads : Queueing(u, j)
    BY <1>6 DEF OnTheWay
  <2>2. CASE j = k
    BY <2>1, <2>2, <1>4
  <2>3. CASE j # k
    <3>1. \A i \in DOMAIN runQueue : i + 1 \in DOMAIN runQueue'
      BY <1>4
    <3>2. ~Queueing(t, j)
      BY <2>3, <1>3 DEF Queueing
    <3> QED
      BY <2>1, <3>1, <3>2, <1>4, <1>5
  <2> QED
    BY <2>2, <2>3
<1> QED
  BY <1>2, <1>4, <1>8, <1>9, <1>10, <1>11 DEF OnTheWay

\* no memory: the task is called, or refused
LEMMA OnTheWayEnqueueFails ==
    ASSUME Shape, OnTheWay, NEW t \in Threads, EnqueueFails(t)
    PROVE  OnTheWay'
<1>1. OthersKeep(t) /\ At(t) = "queue" /\ Task(t) \in Tasks /\ At(t)' # "queue"
  BY EnqueueFailsStep DEF CallStep
<1> PICK k \in Tasks : k = Task(t)
  BY <1>1
<1>2. /\ UNCHANGED runQueue
      /\ \/ ran' = [ran EXCEPT ![k] = @ + 1] /\ UNCHANGED kind
         \/ kind' = [kind EXCEPT ![k] = "refused"] /\ UNCHANGED ran
  BY DEF EnqueueFails, poolVars
<1>3. Queueing(t, k) /\ Uncalled(k) /\ (\A i \in DOMAIN runQueue : runQueue[i] # k)
  BY <1>1 DEF OnTheWay, Queueing
<1>4. \A u \in Threads, j \in Tasks : Queueing(u, j)' = (Queueing(u, j) /\ u # t)
  BY <1>1 DEF OthersKeep, Queueing
<1>5. \A u \in Threads, j \in Tasks : Queueing(u, j)' => j # k
  BY <1>1, <1>3, <1>4 DEF OnTheWay
<1>6. /\ ran' \in [Tasks -> Nat] /\ kind' \in [Tasks -> Kinds \cup {"new", "refused"}]
      /\ \A j \in Tasks : ran'[j] <= 1 /\ (kind'[j] \notin Kinds => ran'[j] = 0)
      /\ ~Uncalled(k)'
      /\ \A j \in Tasks \ {k} : Uncalled(j)' = Uncalled(j)
  <2>1. ran[k] = 0 /\ kind[k] \in Kinds
    BY <1>3 DEF Uncalled
  <2>2. CASE ran' = [ran EXCEPT ![k] = @ + 1] /\ UNCHANGED kind
    BY <2>1, <2>2, <1>1 DEF Uncalled, OnTheWay
  <2>3. CASE kind' = [kind EXCEPT ![k] = "refused"] /\ UNCHANGED ran
    BY <2>1, <2>3, <1>1, KindFacts DEF Uncalled, OnTheWay
  <2> QED
    BY <1>2, <2>2, <2>3
<1>7. \A i \in DOMAIN runQueue : runQueue[i] \in Tasks \ {k}
  BY <1>3 DEF OnTheWay
<1>8. /\ \A u \in Threads, j \in Tasks :
            Queueing(u, j)' => Uncalled(j)' /\ \A i \in DOMAIN runQueue : runQueue[i] # j
      /\ \A u, v \in Threads, j \in Tasks : Queueing(u, j)' /\ Queueing(v, j)' => u = v
      /\ \A i \in DOMAIN runQueue, j \in Tasks : runQueue[i] = j => Uncalled(j)'
  BY <1>4, <1>5, <1>6, <1>7 DEF OnTheWay
<1>9. ASSUME NEW j \in Tasks, Uncalled(j)'
      PROVE  \/ \E i \in DOMAIN runQueue : runQueue[i] = j
             \/ \E u \in Threads : Queueing(u, j)'
  <2>1. j # k /\ Uncalled(j)
    BY <1>6, <1>9
  <2>2. ~Queueing(t, j)
    BY <2>1, <1>3 DEF Queueing
  <2>3. \/ \E i \in DOMAIN runQueue : runQueue[i] = j
        \/ \E u \in Threads : Queueing(u, j)
    BY <2>1 DEF OnTheWay
  <2> QED
    BY <2>2, <2>3, <1>4
<1> QED
  BY <1>2, <1>6, <1>8, <1>9 DEF OnTheWay

LEMMA OnTheWayPop ==
    ASSUME OnTheWay, NEW t \in Threads, NEW p, Pop(t, p), UNCHANGED kind,
           \A u \in Threads, k \in Tasks : Queueing(u, k)' = Queueing(u, k)
    PROVE  OnTheWay'
<1>0. runQueue # <<>> /\ Head(runQueue) \in Tasks
  BY DEF Pop, OnTheWay
<1> PICK k \in Tasks : k = Head(runQueue)
  BY <1>0
<1>1. runQueue # <<>> /\ runQueue' = Tail(runQueue) /\ ran' = [ran EXCEPT ![k] = @ + 1]
  BY DEF Pop
<1>2. /\ runQueue' \in Seq(Tasks) /\ k \in Tasks /\ k = runQueue[1] /\ 1 \in DOMAIN runQueue
      /\ \A i \in DOMAIN runQueue' : i + 1 \in DOMAIN runQueue /\ runQueue'[i] = runQueue[i + 1]
      /\ \A i \in DOMAIN runQueue : i = 1 \/ (i - 1 \in DOMAIN runQueue' /\ runQueue'[i - 1] = runQueue[i])
      /\ DOMAIN runQueue \subseteq Nat /\ DOMAIN runQueue' \subseteq Nat \ {0}
  <2>1. runQueue \in Seq(Tasks) /\ runQueue # <<>>
    BY <1>1 DEF OnTheWay
  <2>2. /\ runQueue' \in Seq(Tasks) /\ Len(runQueue') = Len(runQueue) - 1
        /\ Len(runQueue) \in Nat /\ Len(runQueue) > 0
        /\ DOMAIN runQueue = 1 .. Len(runQueue) /\ DOMAIN runQueue' = 1 .. Len(runQueue')
    BY <2>1, <1>1
  <2>3. \A i \in DOMAIN runQueue' : i + 1 \in DOMAIN runQueue /\ runQueue'[i] = runQueue[i + 1]
    BY <2>1, <2>2, <1>1
  <2>4. \A i \in DOMAIN runQueue : i = 1 \/ (i - 1 \in DOMAIN runQueue' /\ runQueue'[i - 1] = runQueue[i])
    BY <2>2, <2>3
  <2> QED
    BY <2>1, <2>2, <2>3, <2>4, <1>1
<1>3. Uncalled(k) /\ ran[k] = 0 /\ kind[k] \in Kinds
  BY <1>2 DEF OnTheWay, Uncalled
<1>4. /\ ran' \in [Tasks -> Nat]
      /\ \A j \in Tasks : ran'[j] <= 1 /\ (kind[j] \notin Kinds => ran'[j] = 0)
      /\ ~Uncalled(k)'
      /\ \A j \in Tasks \ {k} : Uncalled(j)' = Uncalled(j)
  BY <1>1, <1>2, <1>3 DEF Uncalled, OnTheWay
<1>5. \A i \in DOMAIN runQueue' : runQueue'[i] \in Tasks /\ runQueue'[i] # k
  <2> SUFFICES ASSUME NEW i \in DOMAIN runQueue', runQueue'[i] = k PROVE FALSE
    BY <1>2
  <2>1. i + 1 = 1
    BY <1>2 DEF OnTheWay
  <2> QED
    BY <2>1, <1>2
<1>6. \A u \in Threads, j \in Tasks : Queueing(u, j) => j # k
  BY <1>2 DEF OnTheWay
<1>7. \A i \in DOMAIN runQueue', j \in Tasks : runQueue'[i] = j => Uncalled(j)'
  BY <1>2, <1>4, <1>5 DEF OnTheWay
<1>8. \A i, j \in DOMAIN runQueue' : runQueue'[i] = runQueue'[j] => i = j
  <2> SUFFICES ASSUME NEW i \in DOMAIN runQueue', NEW j \in DOMAIN runQueue',
                      runQueue'[i] = runQueue'[j]
               PROVE  i = j
    OBVIOUS
  <2>1. i + 1 = j + 1
    BY <1>2 DEF OnTheWay
  <2> QED
    BY <2>1, <1>2
<1>9. /\ \A u \in Threads, j \in Tasks :
            Queueing(u, j)' => Uncalled(j)' /\ \A i \in DOMAIN runQueue' : runQueue'[i] # j
      /\ \A u, v \in Threads, j \in Tasks : Queueing(u, j)' /\ Queueing(v, j)' => u = v
  BY <1>2, <1>4, <1>6 DEF OnTheWay
<1>10. ASSUME NEW j \in Tasks, Uncalled(j)'
       PROVE  \/ \E i \in DOMAIN runQueue' : runQueue'[i] = j
              \/ \E u \in Threads : Queueing(u, j)'
  <2>1. j # k /\ Uncalled(j)
    BY <1>4, <1>10
  <2>2. CASE \E u \in Threads : Queueing(u, j)
    BY <2>2
  <2>3. CASE \E i \in DOMAIN runQueue : runQueue[i] = j
    <3>1. PICK i \in DOMAIN runQueue : runQueue[i] = j
      BY <2>3
    <3> QED
      BY <3>1, <2>1, <1>2
  <2> QED
    BY <2>1, <2>2, <2>3 DEF OnTheWay
<1> QED
  BY <1>2, <1>4, <1>7, <1>8, <1>9, <1>10 DEF OnTheWay

-----------------------------------------------------------------------------
(***************************************************************************)
(* Closures.  A closure is live from when its task is queued until it is   *)
(* destroyed, and until then the task is queued or somebody is inside it.  *)
(***************************************************************************)
HeldBy(k) == \E t \in Threads : \E i \in 1 .. Depth(t) :
    stack[t][i].at \in InUse /\ stack[t][i].task = k

Held ==
    /\ memory \subseteq Tasks \cup {"ids", "threads"}
    /\ \A k \in Tasks \cap memory :
          (\E i \in DOMAIN runQueue : runQueue[i] = k) \/ HeldBy(k)

LEMMA HeldInit == Init => Held
  BY DEF Init, Held

\* What a thread keeps: all frames but the last, and that one if it is inside of k.
LEMMA HeldByStays ==
    ASSUME Shape, NEW t \in Threads, OthersKeep(t),
           Depth(t)' >= Depth(t) - 1, Depth(t)' \in Nat,
           \A i \in 1 .. Depth(t) - 1 : stack'[t][i] = stack[t][i],
           NEW k, HeldBy(k),
           At(t) \in InUse => (TopStays(t) \/ Task(t) # k)
    PROVE  HeldBy(k)'
<1>0. PICK u \in Threads : \E i \in 1 .. Depth(u) :
         stack[u][i].at \in InUse /\ stack[u][i].task = k
  BY DEF HeldBy
<1>1. PICK i \in 1 .. Depth(u) : stack[u][i].at \in InUse /\ stack[u][i].task = k
  BY <1>0
<1>2. CASE u # t
  BY <1>1, <1>2 DEF HeldBy, OthersKeep
<1>3. CASE u = t /\ i # Depth(t)
  <2>1. Depth(t) \in Nat
    BY TopFacts
  <2>2. i \in 1 .. Depth(t) - 1 /\ i \in 1 .. Depth(t)'
    BY <1>3, <2>1
  <2> QED
    BY <1>1, <1>3, <2>2 DEF HeldBy
<1>4. CASE u = t /\ i = Depth(t)
  <2>1. Depth(t) \in Nat \ {0} /\ At(t) \in InUse /\ Task(t) = k
    BY <1>1, <1>4, TopFacts
  <2>2. TopStays(t)
    BY <2>1
  <2>3. i \in 1 .. Depth(t)' /\ stack'[t][i].at \in InUse /\ stack'[t][i].task = k
    BY <1>4, <2>1, <2>2 DEF TopStays
  <2> QED
    BY <2>3 DEF HeldBy
<1> QED
  BY <1>2, <1>3, <1>4

LEMMA DepthNat == ASSUME Shape', NEW t \in Threads PROVE Depth(t)' \in Nat
  BY DEF Shape, Depth

\* A step of t in which the queue stays, and no closure is allocated.
LEMMA HeldStays ==
    ASSUME Shape, Held, NEW t \in Threads,
           CallStep(t) \/ \E p : BaseStep(t, p),
           memory' \subseteq Tasks \cup {"ids", "threads"}, UNCHANGED runQueue,
           \A k \in Tasks \cap memory' :
              k \in memory /\ (At(t) \in InUse => (TopStays(t) \/ Task(t) # k))
    PROVE  Held'
<1>1. /\ OthersKeep(t) /\ Depth(t)' >= Depth(t) - 1
      /\ \A i \in 1 .. Depth(t) - 1 : stack'[t][i] = stack[t][i]
  BY DEF CallStep, BaseStep
<1>2. Depth(t)' \in Nat
  BY DepthNat DEF CallStep, BaseStep
<1>3. ASSUME NEW k \in Tasks \cap memory'
      PROVE  (\E i \in DOMAIN runQueue' : runQueue'[i] = k) \/ HeldBy(k)'
  <2>1. (\E i \in DOMAIN runQueue : runQueue[i] = k) \/ HeldBy(k)
    BY DEF Held
  <2> QED
    BY <2>1, <1>1, <1>2, HeldByStays
<1> QED
  BY <1>3 DEF Held

LEMMA HeldEnqueue ==
    ASSUME Shape, Held, OnTheWay, NEW t \in Threads, Enqueue(t)
    PROVE  Held'
<1>1. CallStep(t) /\ At(t) = "queue" /\ Task(t) \in Tasks
  BY EnqueueStep
<1>2. runQueue' = <<Task(t)>> \o runQueue /\ memory' = memory \cup {Task(t)}
  BY DEF Enqueue
<1>3. /\ runQueue'[1] = Task(t) /\ 1 \in DOMAIN runQueue'
      /\ \A i \in DOMAIN runQueue : i + 1 \in DOMAIN runQueue' /\ runQueue'[i + 1] = runQueue[i]
  BY <1>1, <1>2 DEF OnTheWay
<1>4. ASSUME NEW k \in Tasks \cap memory'
      PROVE  (\E i \in DOMAIN runQueue' : runQueue'[i] = k) \/ HeldBy(k)'
  <2>1. CASE k = Task(t)
    BY <2>1, <1>3
  <2>2. CASE k # Task(t)
    <3>1. (\E i \in DOMAIN runQueue : runQueue[i] = k) \/ HeldBy(k)
      BY <2>2, <1>2 DEF Held
    <3>2. CASE HeldBy(k)
      BY <3>2, <1>1, HeldByStays, DepthNat DEF CallStep, InUse
    <3> QED
      BY <3>1, <3>2, <1>3
  <2> QED
    BY <2>1, <2>2
<1> QED
  BY <1>1, <1>2, <1>4 DEF Held

LEMMA HeldPop ==
    ASSUME Shape, Held, OnTheWay, NEW t \in Threads, NEW p, Pop(t, p), UNCHANGED memory,
           \/ At(t) \in {"start", "loop"} /\ p = "loop"
           \/ At(t) = "work" /\ p = "poll"
    PROVE  Held'
<1>1. /\ Shape' /\ OthersKeep(t) /\ Depth(t)' = Depth(t) + 1
      /\ \A i \in 1 .. Depth(t) - 1 : stack'[t][i] = stack[t][i]
      /\ stack'[t][Depth(t) + 1] = Frame("run", Head(runQueue))
  BY TaskPopped DEF OnTheWay
<1>2. Depth(t) \in Nat /\ Depth(t)' \in Nat /\ Depth(t)' >= Depth(t) - 1
  BY <1>1, TopFacts
<1>3. runQueue # <<>> /\ runQueue' = Tail(runQueue)
  BY DEF Pop
<1>4. \A i \in DOMAIN runQueue : \/ i = 1 /\ runQueue[i] = Head(runQueue)
                                 \/ i - 1 \in DOMAIN runQueue' /\ runQueue'[i - 1] = runQueue[i]
  BY <1>3 DEF OnTheWay
<1>5. \A k : Head(runQueue) = k => HeldBy(k)'
  <2>1. Depth(t) + 1 \in 1 .. Depth(t)'
    BY <1>1, <1>2
  <2>2. /\ stack'[t][Depth(t) + 1].at = "run" /\ "run" \in InUse
        /\ stack'[t][Depth(t) + 1].task = Head(runQueue)
    BY <1>1 DEF Frame, InUse
  <2> QED
    BY <2>1, <2>2 DEF HeldBy
<1>6. ASSUME NEW k \in Tasks \cap memory'
      PROVE  (\E i \in DOMAIN runQueue' : runQueue'[i] = k) \/ HeldBy(k)'
  <2>1. (\E i \in DOMAIN runQueue : runQueue[i] = k) \/ HeldBy(k)
    BY DEF Held
  <2>2. CASE HeldBy(k)
    BY <2>2, <1>1, <1>2, HeldByStays DEF InUse
  <2>3. CASE \E i \in DOMAIN runQueue : runQueue[i] = k
    BY <2>3, <1>4, <1>5
  <2> QED
    BY <2>1, <2>2, <2>3
<1> QED
  BY <1>6 DEF Held

-----------------------------------------------------------------------------
(***************************************************************************)
(* The pool's life.  All threads are started before the pool is used; they *)
(* end only when it is stopped; and while something is queued one of them  *)
(* is there that has not ended: a thread ends with an empty queue, and who *)
(* queues is one of them, or the pool is not stopped yet.                  *)
(***************************************************************************)
Alive == \E w \in Workers : Base(w) \in {"start", "loop", "asleep"}

Life ==
    /\ spawned \in Seq(Workers) /\ Cardinality(Range(spawned)) = Len(spawned)
    /\ \A w \in Workers : Base(w) = "unborn" <=> w \notin Range(spawned)
    /\ Base(Main) \in {"init", "allocthreads"} => spawned = <<>>
    /\ Base(Main) = "spawning" => Len(spawned) < Cardinality(Workers)
    /\ Base(Main) \in {"main", "join", "broadcast", "joining", "gone"} =>
          Len(spawned) = Cardinality(Workers)
    /\ Base(Main) \in {"init", "allocthreads", "spawning", "main", "join", "errjoin"} => isRunning
    /\ \A w \in Workers : Base(w) = "exited" => ~isRunning
    /\ Base(Manager) = "manager" => Base(Main) = "main"
    /\ Base(Main) = "gone" => /\ \A w \in Workers : Base(w) = "exited"
                              /\ memory \cap {"ids", "threads"} = {}
    /\ runQueue # <<>> => Alive

LEMMA WorkersFacts ==
    /\ IsFiniteSet(Workers) /\ Workers # {} /\ Main # Manager
    /\ Cardinality(Workers) \in Nat /\ Cardinality(Workers) > 0
    /\ Main \in Threads /\ Manager \in Threads /\ Workers \subseteq Threads
    /\ Main \notin Workers /\ Manager \notin Workers
<1>1. IsFiniteSet(Workers) /\ Workers # {} /\ Main # Manager /\ {Main, Manager} \cap Workers = {}
  BY PoolAssumption
<1> QED
  BY <1>1, FS_CardinalityType, FS_EmptySet DEF Threads

LEMMA SpawnedFacts ==
    ASSUME spawned \in Seq(Workers)
    PROVE  /\ IsFiniteSet(Range(spawned)) /\ Range(spawned) \subseteq Workers
           /\ Cardinality(Range(spawned)) \in Nat
<1>1. Range(spawned) \subseteq Workers
  BY DEF Range
<1> QED
  BY <1>1, WorkersFacts, FS_Subset, FS_CardinalityType

\* Once all threads are started, each is.
LEMMA AllSpawned ==
    ASSUME Life, Len(spawned) = Cardinality(Workers)
    PROVE  Range(spawned) = Workers /\ \A w \in Workers : Base(w) # "unborn"
<1>1. Range(spawned) \subseteq Workers /\ Cardinality(Range(spawned)) = Cardinality(Workers)
  BY SpawnedFacts DEF Life
<1>2. Range(spawned) = Workers
  BY <1>1, WorkersFacts, FS_Subset
<1> QED
  BY <1>2 DEF Life

LEMMA SomeUnborn ==
    ASSUME Life, Shape, Base(Main) = "spawning"
    PROVE  \E u \in Workers : At(u) = "unborn"
<1>1. Range(spawned) \subseteq Workers /\ Cardinality(Range(spawned)) < Cardinality(Workers)
  BY SpawnedFacts DEF Life
<1>2. Range(spawned) # Workers
  BY <1>1, WorkersFacts
<1>3. PICK u \in Workers : u \notin Range(spawned)
  BY <1>1, <1>2
<1>4. Base(u) = "unborn" /\ u \in Threads
  BY <1>3, WorkersFacts DEF Life
<1>5. At(u) = "unborn"
  BY <1>4, TopFacts DEF Base
<1> QED
  BY <1>5

LEMMA LifeInit == Init => Life
<1> SUFFICES ASSUME Init PROVE Life
  OBVIOUS
<1>1. /\ \A w \in Workers : Base(w) = "unborn"
      /\ Base(Main) = "init" /\ Base(Manager) = "outside"
  BY WorkersFacts DEF Init, Base, Frame
<1>2. spawned = <<>> /\ runQueue = <<>> /\ isRunning
  BY DEF Init
<1>3. Range(spawned) = {}
  BY <1>2 DEF Range
<1>4. Cardinality(Range(spawned)) = Len(spawned) /\ spawned \in Seq(Workers)
  BY <1>2, <1>3, FS_EmptySet
<1> QED
  BY <1>1, <1>2, <1>3, <1>4 DEF Life

\* Who is called is not in the way of the threads that run.
LEMMA CallerAlive ==
    ASSUME Shape, Life, NEW t \in Threads, At(t) = "queue"
    PROVE  Alive
<1>1. Base(t) \in {"loop", "main", "manager"}
  BY TopFacts DEF InTask
<1>2. CASE Base(t) = "loop"
  BY <1>2, WhoIsAt DEF Alive, WorkerPlaces
<1>3. CASE Base(t) \in {"main", "manager"}
  <2>1. Base(Main) = "main"
    BY <1>3, WhoIsAt DEF Life, MainPlaces, ManagerPlaces
  <2>2. isRunning /\ \A w \in Workers : Base(w) # "unborn"
    BY <2>1, AllSpawned DEF Life
  <2>3. PICK w \in Workers : TRUE
    BY WorkersFacts
  <2>4. Base(w) \in WorkerPlaces /\ Base(w) \notin {"unborn", "exited"}
    BY <2>2, WorkersFacts DEF Life, Shape, Places
  <2> QED
    BY <2>4 DEF Alive, WorkerPlaces
<1> QED
  BY <1>1, <1>2, <1>3

LEMMA LifeCall ==
    ASSUME Life, \A t \in Threads : Base(t)' = Base(t), UNCHANGED <<spawned, isRunning>>,
           memory' \cap {"ids", "threads"} = memory \cap {"ids", "threads"},
           runQueue' # <<>> => Alive
    PROVE  Life'
<1>1. /\ \A w \in Workers : Base(w)' = Base(w)
      /\ Base(Main)' = Base(Main) /\ Base(Manager)' = Base(Manager)
  BY WorkersFacts
<1>2. Alive' <=> Alive
  BY <1>1 DEF Alive
<1>3. Range(spawned)' = Range(spawned)
  BY DEF Range
<1> QED
  BY <1>1, <1>2, <1>3 DEF Life

LEMMA LifeWorker ==
    ASSUME Life, NEW w \in Workers, OthersKeep(w),
           Base(w) \in {"start", "loop", "asleep"}, Base(w)' \in {"loop", "asleep", "exited"},
           UNCHANGED <<spawned, isRunning, memory>>,
           Base(w)' = "exited" => ~isRunning /\ runQueue' = <<>>
    PROVE  Life'
<1>1. /\ \A u \in Workers \ {w} : Base(u)' = Base(u)
      /\ Base(Main)' = Base(Main) /\ Base(Manager)' = Base(Manager)
  BY WorkersFacts DEF OthersKeep
<1>2. runQueue' # <<>> => Alive'
  BY DEF Alive
<1>3. Range(spawned)' = Range(spawned)
  BY DEF Range
<1>4. \A u \in Workers : (Base(u)' = "unborn" <=> Base(u) = "unborn")
  BY <1>1
<1>5. Base(Main) # "gone"
  BY DEF Life
<1>6. \A u \in Workers : Base(u)' = "exited" => ~isRunning
  BY <1>1 DEF Life
<1> QED
  BY <1>1, <1>2, <1>3, <1>4, <1>5, <1>6 DEF Life

LEMMA LifeMain ==
    ASSUME Shape, Life,
           InitIds \/ InitThreads \/ SpawnThreadFails \/ Deinit \/ Stop \/ Broadcast \/ JoinThreads
    PROVE  Life'
<1>1. UNCHANGED <<spawned, runQueue>>
  BY DEF InitIds, InitThreads, SpawnThreadFails, Deinit, Stop, Broadcast, JoinThreads,
     poolVars
<1>2. PICK p : BaseStep(Main, p)
  BY MainSteps
<1>3. /\ \A w \in Workers : Base(w)' = Base(w)
      /\ Base(Manager)' = Base(Manager) /\ Base(Main)' = p /\ At(Main) = Base(Main)
  BY <1>2, WorkersFacts DEF BaseStep, OthersKeep
<1>4. Alive' <=> Alive
  BY <1>3 DEF Alive
<1>5. Range(spawned)' = Range(spawned)
  BY <1>1 DEF Range
<1>6. /\ Base(Main)' # "main" /\ Base(Main) # "gone"
      /\ Base(Main)' \in {"init", "allocthreads"} => Base(Main) \in {"init", "allocthreads"}
      /\ Base(Main)' = "spawning" => Base(Main) = "allocthreads"
      /\ Base(Main)' \in {"main", "join", "broadcast", "joining", "gone"} =>
            Base(Main) \in {"main", "join", "broadcast", "joining"}
      /\ Base(Main)' = "gone" => JoinThreads /\ Base(Main) = "joining"
      /\ Base(Main)' \in {"init", "allocthreads", "spawning", "main", "join", "errjoin"} =>
            /\ Base(Main) \in {"init", "allocthreads", "spawning", "main"} /\ ~Stop
      /\ Base(Main) = "main" => Deinit
      /\ Base(Main) # "init"  => ~InitIds
  BY <1>3, MainSteps DEF BaseStep
<1>7. /\ ~Stop => UNCHANGED isRunning
      /\ Stop => ~isRunning'
  BY DEF InitIds, InitThreads, SpawnThreadFails, Deinit, Stop, Broadcast, JoinThreads,
     poolVars
<1>8. Base(Main) = "main" => Base(Manager)' # "manager"
  <2>1. Deinit => At(Manager) \in {"outside", "left"}
    BY DEF Deinit
  <2>2. At(Manager) \in {"outside", "left"} => Base(Manager) # "manager"
    BY TopFacts, WorkersFacts DEF InTask, InWait
  <2> QED
    BY <2>1, <2>2, <1>3, <1>6
<1>9. ASSUME Base(Main)' = "gone"
      PROVE  /\ \A w \in Workers : Base(w) = "exited"
             /\ memory' \cap {"ids", "threads"} = {}
  <2>1. JoinThreads /\ Base(Main) = "joining"
    BY <1>6, <1>9
  <2>2. Range(spawned) = Workers
    BY <2>1, AllSpawned DEF Life
  <2>3. \A w \in Workers : At(w) = "exited"
    BY <2>1, <2>2 DEF JoinThreads, Joined, Range
  <2>4. \A w \in Workers : Base(w) = "exited"
    BY <2>3, TopFacts, WorkersFacts DEF InTask, InWait
  <2>5. memory' = memory \ {"threads", "ids"}
    BY <2>1, <1>3 DEF JoinThreads
  <2> QED
    BY <2>4, <2>5
<1>10. /\ spawned' \in Seq(Workers) /\ Cardinality(Range(spawned)') = Len(spawned')
       /\ \A w \in Workers : Base(w)' = "unborn" <=> w \notin Range(spawned)'
       /\ Base(Main)' \in {"init", "allocthreads"} => spawned' = <<>>
       /\ Base(Main)' \in {"main", "join", "broadcast", "joining", "gone"} =>
             Len(spawned') = Cardinality(Workers)
       /\ Base(Manager)' = "manager" => Base(Main)' = "main"
       /\ runQueue' # <<>> => Alive'
  BY <1>1, <1>3, <1>4, <1>5, <1>6, <1>8 DEF Life
<1>11. Base(Main)' = "spawning" => Len(spawned') < Cardinality(Workers)
  <2>1. Len(<<>>) = 0
    OBVIOUS
  <2> QED
    BY <2>1, <1>1, <1>6, WorkersFacts DEF Life
<1>12. /\ Base(Main)' \in {"init", "allocthreads", "spawning", "main", "join", "errjoin"} => isRunning'
       /\ \A w \in Workers : Base(w)' = "exited" => ~isRunning'
  BY <1>3, <1>6, <1>7 DEF Life
<1> QED
  BY <1>3, <1>9, <1>10, <1>11, <1>12 DEF Life

LEMMA LifeManager ==
    ASSUME Shape, Life, ManagerStarts \/ ManagerEnds
    PROVE  Life'
<1>1. UNCHANGED <<spawned, runQueue, isRunning, memory>>
  BY DEF ManagerStarts, ManagerEnds, poolVars
<1>2. /\ \A w \in Workers : Base(w)' = Base(w)
      /\ Base(Main)' = Base(Main)
      /\ Base(Manager)' = "manager" => At(Main) = "main"
  BY ManagerSteps, WorkersFacts DEF BaseStep, OthersKeep
<1>3. At(Main) = "main" => Base(Main) = "main"
  BY TopFacts, WorkersFacts DEF InTask, InWait
<1>4. Alive' <=> Alive
  BY <1>2 DEF Alive
<1>5. Range(spawned)' = Range(spawned)
  BY <1>1 DEF Range
<1> QED
  BY <1>1, <1>2, <1>3, <1>4, <1>5 DEF Life

LEMMA LifeSpawnThread ==
    ASSUME Shape, Life, NEW w \in Workers, SpawnThread(w)
    PROVE  Life' /\ Shape'
<1>1. Base(Main) = "spawning"
  BY TopFacts, WorkersFacts DEF SpawnThread, InTask, InWait
<1>2. \E u \in Workers : At(u) = "unborn"
  BY <1>1, SomeUnborn
<1>3. /\ Shape'
      /\ Base(w) = "unborn" /\ Base(w)' = "start"
      /\ Base(Main)' = IF Len(spawned) + 1 = Cardinality(Workers) THEN "main" ELSE "spawning"
      /\ \A u \in Threads \ {w, Main} : Base(u)' = Base(u)
  BY <1>2, SpawnThreadStep
<1>4. /\ \A u \in Workers \ {w} : Base(u)' = Base(u)
      /\ Base(Manager)' = Base(Manager)
  BY <1>3, WorkersFacts
<1>5. spawned' = Append(spawned, w) /\ UNCHANGED <<runQueue, isRunning, memory>>
  BY DEF SpawnThread
<1>6. /\ spawned' \in Seq(Workers) /\ Len(spawned') = Len(spawned) + 1 /\ Len(spawned) \in Nat
      /\ Range(spawned)' = Range(spawned) \cup {w}
  <2>1. spawned \in Seq(Workers)
    BY DEF Life
  <2>2. /\ Len(spawned') = Len(spawned) + 1 /\ spawned' \in Seq(Workers) /\ Len(spawned) \in Nat
        /\ DOMAIN spawned = 1 .. Len(spawned) /\ DOMAIN spawned' = 1 .. Len(spawned) + 1
        /\ spawned'[Len(spawned) + 1] = w
        /\ \A i \in 1 .. Len(spawned) : spawned'[i] = spawned[i]
    BY <1>5, <2>1
  <2>3. Range(spawned)' = {spawned'[i] : i \in 1 .. Len(spawned) + 1}
    BY <2>2 DEF Range
  <2>4. Range(spawned) = {spawned[i] : i \in 1 .. Len(spawned)}
    BY <2>2 DEF Range
  <2>5. {spawned'[i] : i \in 1 .. Len(spawned) + 1} = {spawned[i] : i \in 1 .. Len(spawned)} \cup {w}
    BY <2>2
  <2> QED
    BY <2>2, <2>3, <2>4, <2>5
<1>7. w \notin Range(spawned) /\ Len(spawned) < Cardinality(Workers)
  BY <1>1, <1>3 DEF Life
<1>8. Cardinality(Range(spawned)') = Len(spawned')
  <2> DEFINE r == Range(spawned)
  <2>1. IsFiniteSet(r) /\ w \notin r /\ Cardinality(r) = Len(spawned)
    BY <1>7, SpawnedFacts DEF Life
  <2>2. Range(spawned)' = r \cup {w}
    BY <1>6
  <2> HIDE DEF r
  <2>3. Cardinality(r \cup {w}) = Cardinality(r) + 1
    BY <2>1, FS_AddElement
  <2> QED
    BY <2>1, <2>2, <2>3, <1>6
<1>9. \A u \in Workers : Base(u)' = "unborn" <=> u \notin Range(spawned)'
  BY <1>3, <1>4, <1>6 DEF Life
<1>10. Alive'
  BY <1>3 DEF Alive
<1>11. /\ Base(Main)' \in {"main", "spawning"}
       /\ Base(Main)' = "main" => Len(spawned') = Cardinality(Workers)
       /\ Base(Main)' = "spawning" => Len(spawned') < Cardinality(Workers)
  BY <1>3, <1>6, <1>7, WorkersFacts
<1>12. isRunning /\ Base(Manager) # "manager" /\ \A u \in Workers : Base(u)' = "exited" => ~isRunning
  BY <1>1, <1>3, <1>4 DEF Life
<1> QED
  BY <1>3, <1>4, <1>5, <1>6, <1>8, <1>9, <1>10, <1>11, <1>12 DEF Life

-----------------------------------------------------------------------------
(***************************************************************************)
(* Ids.  With TrackIds the owner has one from the start, and a worker from *)
(* its first turn on.                                                      *)
(***************************************************************************)
HasId(t) == \E i \in DOMAIN ids : ids[i] = t

Known ==
    /\ ids \in Seq(Threads)
    /\ TrackIds /\ Base(Main) \notin {"init", "failed"} => HasId(Main)
    /\ TrackIds => \A w \in Workers : Base(w) \notin {"unborn", "start"} => HasId(w)
    /\ TrackIds /\ (\E w \in Workers : Base(w) # "unborn") => ids # <<>>

LEMMA KnownInit == Init => Known
<1> SUFFICES ASSUME Init PROVE Known
  OBVIOUS
<1>1. Base(Main) = "init" /\ \A w \in Workers : Base(w) = "unborn"
  BY WorkersFacts DEF Init, Base, Frame
<1> QED
  BY <1>1 DEF Init, Known

LEMMA KnownStays ==
    ASSUME Known, UNCHANGED ids,
           Base(Main)' \notin {"init", "failed"} => Base(Main) \notin {"init", "failed"},
           \A w \in Workers :
              /\ Base(w)' \notin {"unborn", "start"} => Base(w) \notin {"unborn", "start"}
              /\ Base(w)' # "unborn" => Base(w) # "unborn"
    PROVE  Known'
<1>1. \A t : HasId(t)' <=> HasId(t)
  BY DEF HasId
<1> QED
  BY <1>1 DEF Known

LEMMA KnownMain ==
    ASSUME Shape, Life, Known,
           InitIds \/ InitThreads \/ SpawnThreadFails \/ Deinit \/ Stop \/ Broadcast \/ JoinThreads
    PROVE  Known'
<1>1. PICK p : BaseStep(Main, p)
  BY MainSteps
<1>2. /\ \A w \in Workers : Base(w)' = Base(w)
      /\ Base(Main)' = p /\ At(Main) = Base(Main)
  BY <1>1, WorkersFacts DEF BaseStep, OthersKeep
<1>3. CASE InitIds
  <2>1. Base(Main) = "init" /\ Base(Main)' \in {"allocthreads", "failed"}
    BY <1>2, <1>3, MainSteps DEF BaseStep
  <2>2. \A w \in Workers : Base(w) = "unborn"
    BY <2>1 DEF Life, Range
  <2>3. CASE TrackIds /\ ids' = <<Main>>
    <3>1. ids' \in Seq(Threads) /\ 1 \in DOMAIN ids' /\ ids'[1] = Main
      BY <2>3, WorkersFacts
    <3> QED
      BY <3>1, <1>2, <2>2 DEF Known, HasId
  <2>4. CASE ids' = ids /\ Goto(Main, "failed")
    <3>1. "failed" \in Places(Main)
      BY DEF Places, MainPlaces
    <3>2. Base(Main)' = "failed"
      BY <2>4, <2>1, <1>2, <3>1, BaseSteps, WorkersFacts DEF BaseStep, InTask, InWait
    <3> QED
      BY <3>2, <2>4, <1>2, KnownStays
  <2>5. CASE ids' = ids /\ ~TrackIds
    BY <2>5 DEF Known
  <2> QED
    BY <2>3, <2>4, <2>5, <1>3 DEF InitIds
<1>4. CASE ~InitIds
  <2>1. UNCHANGED ids
    BY <1>4 DEF InitThreads, SpawnThreadFails, Deinit, Stop, Broadcast, JoinThreads,
       poolVars
  <2>2. Base(Main) \notin {"init", "failed"}
    BY <1>2, <1>4, MainSteps
  <2> QED
    BY <2>1, <2>2, <1>2, KnownStays
<1> QED
  BY <1>3, <1>4

LEMMA KnownSpawnThread ==
    ASSUME Shape, Life, Known, NEW w \in Workers, SpawnThread(w)
    PROVE  Known'
<1>1. Base(Main) = "spawning"
  BY TopFacts, WorkersFacts DEF SpawnThread, InTask, InWait
<1>2. \E u \in Workers : At(u) = "unborn"
  BY <1>1, SomeUnborn
<1>3. /\ Base(w)' = "start"
      /\ \A u \in Threads \ {w, Main} : Base(u)' = Base(u)
  BY <1>2, SpawnThreadStep
<1>4. UNCHANGED ids
  BY DEF SpawnThread
<1>5. TrackIds => HasId(Main)
  BY <1>1 DEF Known
<1>6. HasId(Main) => ids # <<>>
  BY DEF HasId
<1>7. \A t : HasId(t)' <=> HasId(t)
  BY <1>4 DEF HasId
<1>8. \A u \in Workers : Base(u)' \notin {"unborn", "start"} => Base(u) \notin {"unborn", "start"}
  BY <1>3, WorkersFacts
<1> QED
  BY <1>4, <1>5, <1>6, <1>7, <1>8 DEF Known

LEMMA KnownWorkerStarts ==
    ASSUME Shape, Known, NEW w \in Workers, WorkerStarts(w), OthersKeep(w), Base(w)' # "unborn"
    PROVE  Known'
<1>1. At(w) = "start" /\ Base(w) = "start"
  BY TopFacts, WorkersFacts DEF WorkerStarts, InTask, InWait
<1>2. TrackIds => ids # <<>>
  BY <1>1 DEF Known
<1>3. ids' = IF ids = <<>> THEN ids ELSE Append(ids, w)
  BY DEF WorkerStarts
<1>4. /\ \A u \in Workers \ {w} : Base(u)' = Base(u)
      /\ Base(Main)' = Base(Main)
  BY WorkersFacts DEF OthersKeep
<1>5. CASE ~TrackIds
  BY <1>3, <1>5, WorkersFacts DEF Known
<1>6. CASE TrackIds
  <2>1. ids' = Append(ids, w) /\ w \in Threads
    BY <1>2, <1>3, <1>6, WorkersFacts
  <2>2. /\ ids' \in Seq(Threads) /\ HasId(w)' /\ \A t : HasId(t) => HasId(t)'
    <3>1. /\ ids' \in Seq(Threads) /\ Len(ids) + 1 \in DOMAIN ids' /\ ids'[Len(ids) + 1] = w
          /\ \A i \in DOMAIN ids : i \in DOMAIN ids' /\ ids'[i] = ids[i]
      BY <2>1 DEF Known
    <3> QED
      BY <3>1 DEF HasId
  <2>3. ids' # <<>>
    BY <2>2 DEF HasId
  <2> QED
    BY <2>2, <2>3, <1>4 DEF Known
<1> QED
  BY <1>5, <1>6

-----------------------------------------------------------------------------
(***************************************************************************)
(* The invariant, and what follows from it.                                *)
(***************************************************************************)
PoolInv == Shape /\ OnTheWay /\ Held /\ Life /\ Known

LEMMA ShapeInit == Init => Shape
<1> SUFFICES ASSUME Init PROVE Shape
  OBVIOUS
<1> DEFINE p(t) == IF t = Main THEN "init" ELSE IF t = Manager THEN "outside" ELSE "unborn"
<1>1. stack = [t \in Threads |-> <<Frame(p(t), NoTask)>>]
  BY DEF Init
<1>2. ASSUME NEW t \in Threads
      PROVE  /\ stack[t] = <<Frame(p(t), NoTask)>> /\ stack[t] \in Seq(Frames)
             /\ Depth(t) = 1 /\ Base(t) \in Places(t)
  <2>1. p(t) \in Places(t) /\ p(t) \in AllPlaces
    BY WorkersFacts DEF Places, AllPlaces, MainPlaces, ManagerPlaces, WorkerPlaces
  <2> HIDE DEF p
  <2>2. Frame(p(t), NoTask) \in Frames /\ Frame(p(t), NoTask).at = p(t)
    BY <2>1, FrameType
  <2> QED
    BY <1>1, <2>1, <2>2 DEF Depth, Base
<1> QED
  BY <1>1, <1>2 DEF Shape

LEMMA PoolInvInit == Init => PoolInv
  BY ShapeInit, OnTheWayInit, HeldInit, LifeInit, KnownInit DEF PoolInv

\* A step outside of calls queues nothing and holds nothing.
LEMMA BaseQuiet ==
    ASSUME Shape, NEW t \in Threads, NEW p \in Places(t), BaseStep(t, p)
    PROVE  /\ At(t) # "queue" /\ At(t)' # "queue" /\ At(t) \notin InUse
<1>1. Base(t) \in Places(t) /\ At(t) = Base(t) /\ At(t)' = p
  BY DEF BaseStep, Shape
<1> QED
  BY <1>1 DEF Places, MainPlaces, ManagerPlaces, WorkerPlaces, InUse

\* the owner, outside of calls
LEMMA InvMain ==
    ASSUME PoolInv,
           InitIds \/ InitThreads \/ SpawnThreadFails \/ Deinit \/ Stop \/ Broadcast \/ JoinThreads
    PROVE  PoolInv'
<1>1. PICK p \in MainPlaces : BaseStep(Main, p)
  BY MainSteps DEF PoolInv, MainPlaces
<1>2. Main \in Threads /\ p \in Places(Main)
  BY WorkersFacts DEF Places
<1>3. At(Main) # "queue" /\ At(Main)' # "queue" /\ At(Main) \notin InUse
  BY <1>1, <1>2, BaseQuiet DEF PoolInv
<1>4. UNCHANGED <<runQueue, kind, ran>>
  BY DEF InitIds, InitThreads, SpawnThreadFails, Deinit, Stop, Broadcast, JoinThreads,
         poolVars, taskVars
<1>5. memory' \subseteq memory \cup {"ids", "threads"}
  BY DEF InitIds, InitThreads, SpawnThreadFails, Deinit, Stop, Broadcast, JoinThreads,
     poolVars
<1>6. memory' \subseteq Tasks \cup {"ids", "threads"} /\ (Tasks \cap memory') \subseteq memory
  BY <1>5, PoolAssumption DEF PoolInv, Held
<1>7. OnTheWay'
  BY <1>1, <1>2, <1>3, <1>4, NobodyQueues, OnTheWayStays DEF PoolInv, BaseStep
<1>8. Held'
  BY <1>1, <1>2, <1>3, <1>4, <1>6, HeldStays DEF PoolInv
<1> QED
  BY <1>1, <1>7, <1>8, LifeMain, KnownMain DEF PoolInv, BaseStep

LEMMA InvManager ==
    ASSUME PoolInv, ManagerStarts \/ ManagerEnds
    PROVE  PoolInv'
<1>1. PICK p \in ManagerPlaces : BaseStep(Manager, p)
  BY ManagerSteps DEF PoolInv, ManagerPlaces
<1>2. Manager \in Threads /\ p \in Places(Manager)
  BY WorkersFacts DEF Places
<1>3. At(Manager) # "queue" /\ At(Manager)' # "queue" /\ At(Manager) \notin InUse
  BY <1>1, <1>2, BaseQuiet DEF PoolInv
<1>4. UNCHANGED <<runQueue, kind, ran, memory, ids>>
  BY DEF ManagerStarts, ManagerEnds, poolVars, taskVars
<1>5. OnTheWay'
  BY <1>1, <1>2, <1>3, <1>4, NobodyQueues, OnTheWayStays DEF PoolInv, BaseStep
<1>6. Held'
  <2>1. memory' \subseteq Tasks \cup {"ids", "threads"}
    BY <1>4 DEF PoolInv, Held
  <2> QED
    BY <2>1, <1>1, <1>2, <1>3, <1>4, HeldStays DEF PoolInv
<1>7. Known'
  <2>1. Base(Main)' = Base(Main) /\ \A w \in Workers : Base(w)' = Base(w)
    BY <1>1, WorkersFacts DEF BaseStep, OthersKeep
  <2> QED
    BY <2>1, <1>4, KnownStays DEF PoolInv
<1> QED
  BY <1>1, <1>5, <1>6, <1>7, LifeManager DEF PoolInv, BaseStep

LEMMA InvSpawnThread ==
    ASSUME PoolInv, NEW w \in Workers, SpawnThread(w)
    PROVE  PoolInv'
<1>1. Life' /\ Shape' /\ Known'
  BY LifeSpawnThread, KnownSpawnThread DEF PoolInv
<1>2. Base(Main) = "spawning"
  BY TopFacts, WorkersFacts DEF SpawnThread, InTask, InWait, PoolInv
<1>3. \E u \in Workers : At(u) = "unborn"
  BY <1>2, SomeUnborn DEF PoolInv
<1>4. /\ At(w) = "unborn" /\ At(w)' = "start" /\ Depth(w) = 1 /\ Depth(Main) = 1
      /\ Base(w) = "unborn" /\ At(Main)' = Base(Main)'
      /\ Base(Main)' \in {"main", "spawning"}
      /\ \A u \in Threads \ {w, Main} :
            /\ stack'[u] = stack[u] /\ At(u)' = At(u) /\ Task(u)' = Task(u)
            /\ Depth(u)' = Depth(u)
  BY <1>3, SpawnThreadStep DEF PoolInv
<1>5. UNCHANGED <<runQueue, kind, ran, memory>> /\ At(Main) = "spawning"
  BY DEF SpawnThread, poolVars, taskVars
<1>6. OnTheWay'
  <2>1. \A u \in Threads, k \in Tasks : Queueing(u, k)' = Queueing(u, k)
    BY <1>4, <1>5 DEF Queueing
  <2> QED
    BY <2>1, <1>5, OnTheWayStays DEF PoolInv
<1>7. Held'
  <2>1. ASSUME NEW k, HeldBy(k)
        PROVE  HeldBy(k)'
    <3>1. PICK u \in Threads : \E i \in 1 .. Depth(u) :
             stack[u][i].at \in InUse /\ stack[u][i].task = k
      BY <2>1 DEF HeldBy
    <3>2. u \notin {w, Main}
      <4>1. \A i \in 1 .. 1 : i = 1
        OBVIOUS
      <4> QED
        BY <4>1, <3>1, <1>2, <1>4 DEF Base, InUse
    <3> QED
      BY <3>1, <3>2, <1>4 DEF HeldBy
  <2> QED
    BY <2>1, <1>5 DEF PoolInv, Held
<1> QED
  BY <1>1, <1>6, <1>7 DEF PoolInv

\* a worker's turn, and a worker that wakes up
LEMMA InvTurn ==
    ASSUME PoolInv, NEW w \in Workers, WorkerStarts(w) \/ WorkerTurns(w)
    PROVE  PoolInv'
<1>1. w \in Threads /\ Shape /\ OnTheWay /\ runQueue \in Seq(Tasks)
  BY WorkersFacts DEF PoolInv, OnTheWay
<1>2. At(w) \in {"start", "loop"} /\ At(w) = Base(w)
  BY <1>1, WorkerSteps, TopFacts DEF InTask, InWait
<1>3. UNCHANGED <<isRunning, memory, spawned, kind>>
  BY DEF WorkerStarts, WorkerTurns
<1>4. /\ Shape' /\ OthersKeep(w) /\ Base(w)' \in {"loop", "asleep", "exited"}
      /\ Base(w)' = "exited" => ~isRunning /\ runQueue' = <<>>
      /\ OnTheWay' /\ Held'
  <2>1. CASE Pop(w, "loop")
    <3>1. /\ Shape' /\ OthersKeep(w) /\ Base(w)' = "loop" /\ At(w)' = "run"
      BY <1>1, <1>2, <2>1, TaskPopped
    <3>2. OnTheWay'
      BY <3>1, <2>1, <1>1, <1>2, <1>3, NobodyQueues, OnTheWayPop
    <3>3. Held'
      BY <2>1, <1>1, <1>2, <1>3, HeldPop DEF PoolInv
    <3> QED
      BY <3>1, <3>2, <3>3
  <2>2. CASE ~Pop(w, "loop")
    <3>1. /\ runQueue = <<>> /\ UNCHANGED <<runQueue, ran>>
          /\ (isRunning /\ BaseStep(w, "asleep")) \/ (~isRunning /\ BaseStep(w, "exited"))
      BY <2>2, <1>1, WorkerSteps
    <3>2. PICK p \in {"asleep", "exited"} : BaseStep(w, p) /\ (p = "exited" => ~isRunning)
      BY <3>1
    <3>3. p \in Places(w)
      BY WorkersFacts DEF Places, WorkerPlaces
    <3>4. At(w) # "queue" /\ At(w)' # "queue" /\ At(w) \notin InUse
      BY <3>2, <3>3, <1>1, BaseQuiet
    <3>5. OnTheWay'
      BY <3>1, <3>2, <3>4, <1>1, <1>3, NobodyQueues, OnTheWayStays DEF BaseStep
    <3>6. Held'
      <4>1. memory' \subseteq Tasks \cup {"ids", "threads"}
        BY <1>3 DEF PoolInv, Held
      <4> QED
        BY <4>1, <3>1, <3>2, <3>4, <1>1, <1>3, HeldStays DEF PoolInv
    <3> QED
      BY <3>1, <3>2, <3>5, <3>6 DEF BaseStep
  <2> QED
    BY <2>1, <2>2
<1>5. Life'
  BY <1>2, <1>3, <1>4, LifeWorker DEF PoolInv
<1>6. Known'
  <2>1. CASE WorkerStarts(w)
    BY <2>1, <1>4, KnownWorkerStarts DEF PoolInv
  <2>2. CASE WorkerTurns(w)
    <3>1. UNCHANGED ids /\ Base(w) = "loop"
      BY <2>2, <1>2 DEF WorkerTurns
    <3>2. /\ \A u \in Workers \ {w} : Base(u)' = Base(u)
          /\ Base(Main)' = Base(Main)
      BY <1>4, WorkersFacts DEF OthersKeep
    <3> QED
      BY <3>1, <3>2, KnownStays DEF PoolInv
  <2> QED
    BY <2>1, <2>2
<1> QED
  BY <1>4, <1>5, <1>6 DEF PoolInv

LEMMA InvAwake ==
    ASSUME PoolInv, NEW w \in Workers, Awake(w) \/ AwakeSpuriously(w)
    PROVE  PoolInv'
<1>1. w \in Threads /\ Shape /\ OnTheWay /\ runQueue \in Seq(Tasks)
  BY WorkersFacts DEF PoolInv, OnTheWay
<1>2. At(w) = "asleep" /\ BaseStep(w, "loop")
  BY <1>1, WorkerSteps
<1>3. "loop" \in Places(w)
  BY WorkersFacts DEF Places, WorkerPlaces
<1>4. At(w) # "queue" /\ At(w)' # "queue" /\ At(w) \notin InUse
  BY <1>1, <1>2, <1>3, BaseQuiet
<1>5. UNCHANGED <<runQueue, isRunning, ids, memory, spawned, kind, ran>>
  BY DEF Awake, AwakeSpuriously, poolVars, taskVars
<1>6. OnTheWay'
  BY <1>1, <1>2, <1>4, <1>5, NobodyQueues, OnTheWayStays DEF BaseStep
<1>7. Held'
  <2>1. memory' \subseteq Tasks \cup {"ids", "threads"}
    BY <1>5 DEF PoolInv, Held
  <2> QED
    BY <2>1, <1>1, <1>2, <1>4, <1>5, HeldStays DEF PoolInv
<1>8. /\ OthersKeep(w) /\ Base(w) = "asleep" /\ Base(w)' = "loop" /\ Shape'
  BY <1>2 DEF BaseStep
<1>9. Life'
  BY <1>5, <1>8, LifeWorker DEF PoolInv
<1>10. Known'
  <2>1. /\ \A u \in Workers \ {w} : Base(u)' = Base(u)
        /\ Base(Main)' = Base(Main)
    BY <1>8, WorkersFacts DEF OthersKeep
  <2> QED
    BY <2>1, <1>5, <1>8, KnownStays DEF PoolInv
<1> QED
  BY <1>6, <1>7, <1>8, <1>9, <1>10 DEF PoolInv

\* In a step inside of calls, threads stay what they are.
LEMMA CallKeeps ==
    ASSUME PoolInv, NEW t \in Threads, CallStep(t), UNCHANGED <<ids, isRunning, spawned>>,
           memory' \cap {"ids", "threads"} = memory \cap {"ids", "threads"},
           runQueue' # <<>> => runQueue # <<>> \/ At(t) = "queue"
    PROVE  Shape' /\ Life' /\ Known'
<1>1. \A u \in Threads : Base(u)' = Base(u)
  BY DEF CallStep, OthersKeep
<1>2. runQueue' # <<>> => Alive
  BY CallerAlive DEF PoolInv, Life
<1>3. Life'
  BY <1>1, <1>2, LifeCall DEF PoolInv
<1>4. Known'
  BY <1>1, WorkersFacts, KnownStays DEF PoolInv
<1> QED
  BY <1>3, <1>4 DEF CallStep

\* tasks, and those who spawn them and wait for them
LEMMA InvQuiet ==
    ASSUME PoolInv, NEW t \in Threads,
           \/ FunctionReturns(t) \/ Signal(t) \/ Poll(t) \/ Await(t)
           \/ \E g \in Groups : WaitAndWork(t, g)
    PROVE  PoolInv'
<1>1. /\ CallStep(t) /\ At(t) # "queue" /\ At(t)' # "queue"
      /\ At(t) \in InUse => TopStays(t)
  BY QuietSteps, WaitAndWorkStep DEF PoolInv
<1>2. UNCHANGED <<runQueue, isRunning, ids, memory, spawned, kind, ran>>
  BY DEF FunctionReturns, Signal, Poll, Await, WaitAndWork, poolVars, taskVars
<1>3. OnTheWay'
  BY <1>1, <1>2, NobodyQueues, OnTheWayStays DEF PoolInv, CallStep
<1>4. Held'
  <2>1. memory' \subseteq Tasks \cup {"ids", "threads"}
    BY <1>2 DEF PoolInv, Held
  <2> QED
    BY <2>1, <1>1, <1>2, HeldStays DEF PoolInv
<1> QED
  BY <1>1, <1>2, <1>3, <1>4, CallKeeps DEF PoolInv

LEMMA InvSpawn ==
    ASSUME PoolInv, NEW t \in Threads, NEW k \in Tasks, NEW how \in Kinds, NEW g,
           Spawn(t, k, how, g)
    PROVE  PoolInv'
<1>1. CallStep(t) /\ (At(t) \in InUse => TopStays(t))
  BY SpawnStep DEF PoolInv
<1>2. UNCHANGED <<runQueue, isRunning, ids, memory, spawned>>
  BY DEF Spawn, poolVars
<1>3. OnTheWay'
  BY OnTheWaySpawn DEF PoolInv
<1>4. Held'
  <2>1. memory' \subseteq Tasks \cup {"ids", "threads"}
    BY <1>2 DEF PoolInv, Held
  <2> QED
    BY <2>1, <1>1, <1>2, HeldStays DEF PoolInv
<1> QED
  BY <1>1, <1>2, <1>3, <1>4, CallKeeps DEF PoolInv

LEMMA InvEnqueue ==
    ASSUME PoolInv, NEW t \in Threads, Enqueue(t)
    PROVE  PoolInv'
<1>1. CallStep(t) /\ At(t) = "queue" /\ Task(t) \in Tasks
  BY EnqueueStep DEF PoolInv
<1>2. UNCHANGED <<isRunning, ids, spawned>> /\ memory' = memory \cup {Task(t)}
  BY DEF Enqueue
<1>3. memory' \cap {"ids", "threads"} = memory \cap {"ids", "threads"}
  BY <1>1, <1>2, PoolAssumption
<1>4. OnTheWay' /\ Held'
  BY OnTheWayEnqueue, HeldEnqueue DEF PoolInv
<1> QED
  BY <1>1, <1>2, <1>3, <1>4, CallKeeps DEF PoolInv

LEMMA InvEnqueueFails ==
    ASSUME PoolInv, NEW t \in Threads, EnqueueFails(t)
    PROVE  PoolInv'
<1>1. CallStep(t) /\ At(t) = "queue"
  BY EnqueueFailsStep DEF PoolInv
<1>2. UNCHANGED <<runQueue, isRunning, ids, memory, spawned>>
  BY DEF EnqueueFails, poolVars
<1>3. OnTheWay'
  BY OnTheWayEnqueueFails DEF PoolInv
<1>4. Held'
  <2>1. memory' \subseteq Tasks \cup {"ids", "threads"}
    BY <1>2 DEF PoolInv, Held
  <2> QED
    BY <2>1, <1>1, <1>2, HeldStays DEF PoolInv, InUse
<1> QED
  BY <1>1, <1>2, <1>3, <1>4, CallKeeps DEF PoolInv

LEMMA InvFinish ==
    ASSUME PoolInv, NEW t \in Threads, Finish(t) \/ Destroy(t)
    PROVE  PoolInv'
<1>1. /\ CallStep(t) /\ At(t) # "queue" /\ At(t)' # "queue" /\ Task(t) \in Tasks
      /\ Task(t) \in memory' => TopStays(t)
      /\ memory' \in {memory, memory \ {Task(t)}}
  <2>1. CASE Finish(t)
    <3>1. UNCHANGED memory
      BY <2>1 DEF Finish, poolVars
    <3> QED
      BY <2>1, <3>1, FinishStep DEF PoolInv
  <2>2. CASE Destroy(t)
    BY <2>2, DestroyStep DEF PoolInv, Destroy
  <2> QED
    BY <2>1, <2>2
<1>2. UNCHANGED <<runQueue, isRunning, ids, spawned, kind, ran>>
  BY DEF Finish, Destroy, poolVars, taskVars
<1>3. memory' \cap {"ids", "threads"} = memory \cap {"ids", "threads"}
  BY <1>1, PoolAssumption
<1>4. OnTheWay'
  BY <1>1, <1>2, NobodyQueues, OnTheWayStays DEF PoolInv, CallStep
<1>5. Held'
  <2>1. memory' \subseteq Tasks \cup {"ids", "threads"} /\ memory' \subseteq memory
    BY <1>1 DEF PoolInv, Held
  <2>2. \A k \in Tasks \cap memory' : k \in memory /\ (TopStays(t) \/ Task(t) # k)
    BY <2>1, <1>1
  <2> QED
    BY <2>1, <2>2, <1>1, <1>2, HeldStays DEF PoolInv
<1> QED
  BY <1>1, <1>2, <1>3, <1>4, <1>5, CallKeeps DEF PoolInv

LEMMA InvWork ==
    ASSUME PoolInv, NEW t \in Threads, Work(t)
    PROVE  PoolInv'
<1>1. runQueue \in Seq(Tasks)
  BY DEF PoolInv, OnTheWay
<1>2. /\ At(t) = "work" /\ At(t)' # "queue" /\ CallStep(t)
      /\ Pop(t, "poll") \/ UNCHANGED <<runQueue, ran>>
  BY <1>1, WorkStep DEF PoolInv
<1>3. UNCHANGED <<isRunning, ids, memory, spawned, kind>>
  BY DEF Work
<1>4. \A u \in Threads, k \in Tasks : Queueing(u, k)' = Queueing(u, k)
  BY <1>2, NobodyQueues DEF CallStep
<1>5. OnTheWay'
  BY <1>2, <1>3, <1>4, OnTheWayStays, OnTheWayPop DEF PoolInv
<1>6. Held'
  <2>1. CASE Pop(t, "poll")
    BY <2>1, <1>2, <1>3, HeldPop DEF PoolInv
  <2>2. CASE UNCHANGED runQueue
    <3>1. memory' \subseteq Tasks \cup {"ids", "threads"}
      BY <1>3 DEF PoolInv, Held
    <3> QED
      BY <3>1, <2>2, <1>2, <1>3, HeldStays DEF PoolInv, InUse
  <2> QED
    BY <2>1, <2>2, <1>2
<1>7. runQueue' # <<>> => runQueue # <<>>
  BY <1>2 DEF Pop
<1> QED
  BY <1>2, <1>3, <1>5, <1>6, <1>7, CallKeeps DEF PoolInv

LEMMA InvStutter == ASSUME PoolInv, UNCHANGED vars PROVE PoolInv'
<1>1. /\ UNCHANGED <<runQueue, isRunning, ids, memory, spawned, kind, ran, stack>>
  BY DEF vars, poolVars, taskVars
<1>2. \A t : /\ Depth(t)' = Depth(t) /\ Base(t)' = Base(t) /\ At(t)' = At(t)
             /\ Task(t)' = Task(t)
  BY <1>1 DEF Depth, Base, At, Task, Last
<1>3. Shape'
  BY <1>1, <1>2 DEF PoolInv, Shape
<1>4. OnTheWay'
  BY <1>1, <1>2, OnTheWayStays DEF PoolInv, Queueing
<1>5. Held'
  BY <1>1, <1>2 DEF PoolInv, Held, HeldBy
<1>6. Life'
  BY <1>1, <1>2, LifeCall DEF PoolInv, Life
<1>7. Known'
  BY <1>1, <1>2, KnownStays DEF PoolInv
<1> QED
  BY <1>3, <1>4, <1>5, <1>6, <1>7 DEF PoolInv

LEMMA PoolInvNext == PoolInv /\ [Next]_vars => PoolInv'
<1> SUFFICES ASSUME PoolInv, [Next]_vars PROVE PoolInv'
  OBVIOUS
<1>1. CASE MainRuns \/ SpawnThreadFails \/ Deinit
  BY <1>1, InvMain DEF MainRuns
<1>2. CASE ManagerStarts \/ ManagerEnds
  BY <1>2, InvManager
<1>3. CASE \E w \in Workers : SpawnThread(w)
  BY <1>3, InvSpawnThread
<1>4. CASE \E t \in Threads : TaskRuns(t) \/ FunctionReturns(t)
  BY <1>4, InvQuiet, InvEnqueue, InvEnqueueFails, InvFinish, InvWork DEF TaskRuns
<1>5. CASE \E t \in Threads, k \in Tasks, how \in Kinds, g \in Groups : Spawn(t, k, how, g)
  BY <1>5, InvSpawn
<1>6. CASE \E t \in Threads, g \in Groups : WaitAndWork(t, g)
  BY <1>6, InvQuiet
<1>7. CASE \E w \in Workers : WorkerRuns(w) \/ Awake(w) \/ AwakeSpuriously(w)
  BY <1>7, InvTurn, InvAwake DEF WorkerRuns
<1>8. CASE UNCHANGED vars
  BY <1>8, InvStutter
<1> QED
  BY <1>1, <1>2, <1>3, <1>4, <1>5, <1>6, <1>7, <1>8 DEF Next

\* When the pool is gone no thread is inside a call.
LEMMA AllOut ==
    ASSUME PoolInv, At(Main) = "gone"
    PROVE  /\ Base(Main) = "gone" /\ runQueue = <<>>
           /\ \A t \in Threads : Depth(t) = 1 /\ At(t) = Base(t)
                                 /\ At(t) \in {"gone", "outside", "left", "exited"}
<1>1. Base(Main) = "gone"
  BY TopFacts, WorkersFacts DEF PoolInv, InTask, InWait
<1>2. /\ \A w \in Workers : Base(w) = "exited"
      /\ Base(Manager) \in {"outside", "left"}
  <2>1. Base(Manager) \in ManagerPlaces
    BY WorkersFacts DEF PoolInv, Shape, Places
  <2> QED
    BY <2>1, <1>1 DEF PoolInv, Life, ManagerPlaces
<1>3. ASSUME NEW t \in Threads
      PROVE  /\ Depth(t) = 1 /\ At(t) = Base(t)
             /\ At(t) \in {"gone", "outside", "left", "exited"}
  <2>1. Base(t) \in {"gone", "outside", "left", "exited"}
    BY <1>1, <1>2 DEF Threads
  <2>2. Depth(t) = 1
    BY <2>1, TopFacts DEF PoolInv
  <2>3. At(t) = Base(t)
    BY <2>2, TopFacts DEF PoolInv, Base
  <2> QED
    BY <2>1, <2>2, <2>3
<1>4. runQueue = <<>>
  BY <1>2 DEF PoolInv, Life, Alive
<1> QED
  BY <1>1, <1>3, <1>4

LEMMA CalledOnce == PoolInv => EachTaskOnce
<1> SUFFICES ASSUME PoolInv PROVE EachTaskOnce
  OBVIOUS
<1>1. \A k \in Tasks : ran[k] <= 1
  BY DEF PoolInv, OnTheWay
<1>2. ASSUME NEW t \in Threads \ {Manager}, At(t) = "run", kind[Task(t)] = "wgid"
      PROVE  \E i \in DOMAIN ids : ids[i] = t
  <2>1. Task(t) \in Tasks /\ Base(t) \in {"loop", "main", "manager"}
    BY <1>2, TopFacts DEF PoolInv, InTask
  <2>2. TrackIds
    <3>1. kind[Task(t)] \in Kinds \cup {"new", "refused"}
      BY <2>1 DEF PoolInv, OnTheWay
    <3> QED
      BY <3>1, <1>2, PoolAssumption
  <2>3. CASE t \in Workers
    <3>1. Base(t) = "loop"
      BY <2>1, <2>3, WhoIsAt, WorkersFacts DEF PoolInv, MainPlaces, ManagerPlaces
    <3> QED
      BY <3>1, <2>2, <2>3 DEF PoolInv, Known, HasId
  <2>4. CASE t = Main
    <3>1. Base(Main) = "main"
      BY <2>1, <2>4, WhoIsAt, WorkersFacts DEF PoolInv, WorkerPlaces, ManagerPlaces
    <3> QED
      BY <3>1, <2>2, <2>4 DEF PoolInv, Known, HasId
  <2> QED
    BY <2>3, <2>4 DEF Threads
<1>3. ASSUME At(Main) = "gone", NEW k \in Tasks, kind[k] \notin {"new", "refused"}
      PROVE  ran[k] = 1
  <2>1. runQueue = <<>> /\ \A t \in Threads : At(t) # "queue"
    BY <1>3, AllOut
  <2>2. ~Uncalled(k)
    BY <2>1 DEF PoolInv, OnTheWay, Queueing
  <2>3. kind[k] \in Kinds /\ ran[k] \in Nat /\ ran[k] <= 1
    BY <1>3 DEF PoolInv, OnTheWay
  <2> QED
    BY <2>2, <2>3 DEF Uncalled
<1> QED
  BY <1>1, <1>2, <1>3 DEF EachTaskOnce

LEMMA NobodyLeft == PoolInv => PoolOutlivesTasks
<1> SUFFICES ASSUME PoolInv, At(Main) = "gone"
             PROVE  /\ memory = {}
                    /\ \A t \in Threads : At(t) \in {"gone", "outside", "left", "exited"}
  BY DEF PoolOutlivesTasks
<1>1. /\ Base(Main) = "gone" /\ runQueue = <<>>
      /\ \A t \in Threads : Depth(t) = 1 /\ At(t) = Base(t)
                            /\ At(t) \in {"gone", "outside", "left", "exited"}
  BY AllOut
<1>2. \A k : ~HeldBy(k)
  <2>1. \A i \in 1 .. 1 : i = 1
    OBVIOUS
  <2> QED
    BY <2>1, <1>1 DEF HeldBy, Base, InUse
<1>3. Tasks \cap memory = {}
  BY <1>1, <1>2 DEF PoolInv, Held
<1>4. memory \cap {"ids", "threads"} = {} /\ memory \subseteq Tasks \cup {"ids", "threads"}
  BY <1>1 DEF PoolInv, Held, Life
<1> QED
  BY <1>1, <1>3, <1>4

LEMMA PoolInvAlways == Spec => []PoolInv
  BY PoolInvInit, PoolInvNext, PTL DEF Spec

\* A task is called once at most, by a thread that has an id if it takes one, and when the
\* pool is gone every task it took was called (EachTaskOnce): for every number of workers
\* and tasks, whoever spawns them, however calls nest, and whichever allocations fail.
THEOREM TasksCalledOnce == Spec => []EachTaskOnce
  BY PoolInvAlways, CalledOnce, PTL

\* When the pool is gone no thread is inside a task and no memory is left
\* (PoolOutlivesTasks), also of tasks that were spawned while it was being joined.
THEOREM PoolGone == Spec => []PoolOutlivesTasks
  BY PoolInvAlways, NobodyLeft, PTL

-----------------------------------------------------------------------------
(***************************************************************************)
(* The calls that are under way, frame by frame: On(t, i, a, k) is a frame *)
(* of thread t above its first one, at place a, for task or group k.  Each *)
(* action changes one or two of them, at the end of one stack.             *)
(***************************************************************************)
On(t, i, a, k) == i \in 2 .. Depth(t) /\ stack[t][i].at = a /\ stack[t][i].task = k

Keeps == \A u \in Threads : \A i \in Nat : \A a, k : On(u, i, a, k)' <=> On(u, i, a, k)

\* the last call goes on at another place, or returns; a call is made
Moves(t, p) == \A u \in Threads : \A i \in Nat : \A a, k :
    On(u, i, a, k)' <=> IF u = t /\ i = Depth(t) THEN a = p /\ k = Task(t) ELSE On(u, i, a, k)
Drops(t) == \A u \in Threads : \A i \in Nat : \A a, k :
    On(u, i, a, k)' <=> On(u, i, a, k) /\ ~(u = t /\ i = Depth(t))
Adds(t, p, j) == \A u \in Threads : \A i \in Nat : \A a, k :
    On(u, i, a, k)' <=> IF u = t /\ i = Depth(t) + 1 THEN a = p /\ k = j ELSE On(u, i, a, k)

\* a task is taken from the queue and called, by a worker or by one who waits
Takes(t, j) == \A u \in Threads : \A i \in Nat : \A a, k :
    On(u, i, a, k)' <=> IF u = t /\ i = Depth(t) + 1 THEN a = "run" /\ k = j
                        ELSE IF u = t /\ i = Depth(t) /\ At(t) = "work"
                             THEN a = "poll" /\ k = Task(t)
                        ELSE On(u, i, a, k)

LEMMA OnFacts ==
    ASSUME Shape, NEW t \in Threads, NEW i, NEW a, NEW k, On(t, i, a, k)
    PROVE  /\ i \in Nat /\ i >= 2 /\ Depth(t) \in Nat /\ i <= Depth(t)
           /\ (a \in InTask /\ k \in Tasks) \/ (a \in InWait /\ k \in Groups)
           /\ i < Depth(t) => a \in {"run", "poll"}
           /\ i = Depth(t) => a = At(t) /\ k = Task(t)
<1>1. Depth(t) \in Nat /\ i \in 2 .. Depth(t)
  BY TopFacts DEF On
<1>2. IsCall(stack[t][i])
  BY <1>1 DEF Shape
<1>3. (a \in InTask /\ k \in Tasks) \/ (a \in InWait /\ k \in Groups)
  BY <1>2 DEF On, IsCall
<1>4. ASSUME i < Depth(t) PROVE a \in {"run", "poll"}
  <2>1. i \in 1 .. Depth(t) - 1
    BY <1>1, <1>4
  <2>2. a \in Calling
    BY <2>1 DEF On, Shape
  <2> QED
    BY <1>3, <2>2 DEF Calling, InTask, InWait
<1>5. i = Depth(t) => a = At(t) /\ k = Task(t)
  BY TopFacts DEF On
<1> QED
  BY <1>1, <1>3, <1>4, <1>5

LEMMA OnTop ==
    ASSUME Shape, NEW t \in Threads, At(t) \in InTask \cup InWait
    PROVE  On(t, Depth(t), At(t), Task(t)) /\ Depth(t) >= 2 /\ Depth(t) \in Nat
  BY TopFacts DEF On

LEMMA OneOn ==
    ASSUME NEW t, NEW i, NEW a, NEW b, NEW k, NEW j, On(t, i, a, k), On(t, i, b, j)
    PROVE  a = b /\ k = j
  BY DEF On

LEMMA MovesOn ==
    ASSUME Shape, NEW t \in Threads, NEW p, Goto(t, p),
           (At(t) \in InTask /\ p \in InTask) \/ (At(t) \in InWait /\ p \in InWait)
    PROVE  Moves(t, p)
<1>1. /\ \A u \in Threads \ {t} : stack'[u] = stack[u]
      /\ Depth(t)' = Depth(t)
      /\ \A i \in 1 .. Depth(t) - 1 : stack'[t][i] = stack[t][i]
      /\ stack'[t][Depth(t)] = Frame(p, Task(t))
  BY GotoFrames DEF AllPlaces
<1>2. \A u \in Threads \ {t} : Depth(u)' = Depth(u)
  BY <1>1 DEF Depth
<1>3. Depth(t) \in Nat /\ Depth(t) >= 2
  BY OnTop
<1>4. ASSUME NEW i \in Nat, NEW a, NEW k
      PROVE  On(t, i, a, k)' <=> IF i = Depth(t) THEN a = p /\ k = Task(t) ELSE On(t, i, a, k)
  BY <1>1, <1>3 DEF On, Frame
<1>5. ASSUME NEW u \in Threads \ {t}, NEW i \in Nat, NEW a, NEW k
      PROVE  On(u, i, a, k)' <=> On(u, i, a, k)
  BY <1>1, <1>2 DEF On
<1> QED
  BY <1>4, <1>5 DEF Moves

LEMMA DropsOn ==
    ASSUME Shape, NEW t \in Threads, Return(t), At(t) \in InTask \cup InWait
    PROVE  Drops(t)
<1>1. /\ \A u \in Threads \ {t} : stack'[u] = stack[u]
      /\ Depth(t)' = Depth(t) - 1
      /\ \A i \in 1 .. Depth(t) - 1 : stack'[t][i] = stack[t][i]
  BY ReturnFrames
<1>2. \A u \in Threads \ {t} : Depth(u)' = Depth(u)
  BY <1>1 DEF Depth
<1>3. Depth(t) \in Nat /\ Depth(t) >= 2
  BY OnTop
<1>4. ASSUME NEW i \in Nat, NEW a, NEW k
      PROVE  On(t, i, a, k)' <=> On(t, i, a, k) /\ i # Depth(t)
  BY <1>1, <1>3 DEF On
<1>5. ASSUME NEW u \in Threads \ {t}, NEW i \in Nat, NEW a, NEW k
      PROVE  On(u, i, a, k)' <=> On(u, i, a, k)
  BY <1>1, <1>2 DEF On
<1> QED
  BY <1>4, <1>5 DEF Drops

LEMMA AddsOn ==
    ASSUME Shape, NEW t \in Threads, NEW p \in AllPlaces, NEW j \in Groups, Call(t, p, j)
    PROVE  Adds(t, p, j)
<1>1. /\ \A u \in Threads \ {t} : stack'[u] = stack[u]
      /\ Depth(t)' = Depth(t) + 1
      /\ \A i \in 1 .. Depth(t) : stack'[t][i] = stack[t][i]
      /\ stack'[t][Depth(t) + 1] = Frame(p, j)
  BY CallFrames DEF Groups
<1>2. \A u \in Threads \ {t} : Depth(u)' = Depth(u)
  BY <1>1 DEF Depth
<1>3. Depth(t) \in Nat \ {0}
  BY TopFacts
<1>4. ASSUME NEW i \in Nat, NEW a, NEW k
      PROVE  On(t, i, a, k)' <=> IF i = Depth(t) + 1 THEN a = p /\ k = j ELSE On(t, i, a, k)
  BY <1>1, <1>3 DEF On, Frame
<1>5. ASSUME NEW u \in Threads \ {t}, NEW i \in Nat, NEW a, NEW k
      PROVE  On(u, i, a, k)' <=> On(u, i, a, k)
  BY <1>1, <1>2 DEF On
<1> QED
  BY <1>4, <1>5 DEF Adds

LEMMA TakesOn ==
    ASSUME Shape, NEW t \in Threads, NEW p, runQueue \in Seq(Tasks), Pop(t, p),
           \/ At(t) \in {"start", "loop"} /\ p = "loop"
           \/ At(t) = "work" /\ p = "poll"
    PROVE  Takes(t, Head(runQueue))
<1>1. p \in AllPlaces
  BY DEF AllPlaces, WorkerPlaces, InWait
<1>2. /\ \A u \in Threads \ {t} : stack'[u] = stack[u]
      /\ Depth(t)' = Depth(t) + 1
      /\ \A i \in 1 .. Depth(t) - 1 : stack'[t][i] = stack[t][i]
      /\ stack'[t][Depth(t)] = Frame(p, Task(t))
      /\ stack'[t][Depth(t) + 1] = Frame("run", Head(runQueue))
  BY <1>1, PopFrames
<1>3. \A u \in Threads \ {t} : Depth(u)' = Depth(u)
  BY <1>2 DEF Depth
<1>4. /\ Depth(t) \in Nat \ {0} /\ (At(t) = "work" => Depth(t) >= 2 /\ p = "poll")
      /\ At(t) # "work" => Depth(t) = 1
  BY TopFacts DEF InWait, InTask
<1>5. ASSUME NEW i \in Nat, NEW a, NEW k
      PROVE  On(t, i, a, k)' <=> IF i = Depth(t) + 1 THEN a = "run" /\ k = Head(runQueue)
                                 ELSE IF i = Depth(t) /\ At(t) = "work"
                                      THEN a = "poll" /\ k = Task(t)
                                 ELSE On(t, i, a, k)
  BY <1>2, <1>4 DEF On, Frame
<1>6. ASSUME NEW u \in Threads \ {t}, NEW i \in Nat, NEW a, NEW k
      PROVE  On(u, i, a, k)' <=> On(u, i, a, k)
  BY <1>2, <1>3 DEF On
<1> QED
  BY <1>5, <1>6 DEF Takes

LEMMA KeepsOn == ASSUME NEW t \in Threads, NEW p, BaseStep(t, p) PROVE Keeps
<1>1. /\ \A u \in Threads \ {t} : stack'[u] = stack[u] /\ Depth(u)' = Depth(u)
      /\ Depth(t) = 1 /\ Depth(t)' = 1
  BY DEF BaseStep, OthersKeep
<1>2. 2 .. 1 = {}
  OBVIOUS
<1> QED
  BY <1>1, <1>2 DEF Keeps, On

-----------------------------------------------------------------------------
(***************************************************************************)
(* Five kinds of steps, for what they do to calls: in Quiet ones calls end *)
(* or go on; a task is called; one is spawned; one is refused; and a       *)
(* thread that found the queue empty waits for its group.                  *)
(***************************************************************************)
Quiet(t) ==
    \/ Keeps
    \/ Drops(t) /\ At(t) \in InTask \cup InWait
    \/ \E p : /\ Moves(t, p)
              /\ \/ At(t) = "queue" /\ p = "signal"
                 \/ At(t) = "run" /\ p = "destroy"
                 \/ At(t) = "run" /\ p = "finish" /\ kind[Task(t)] # "plain"
                 \/ At(t) = "finish" /\ p = "destroy"
                 \/ At(t) = "poll" /\ p = "work"
    \/ \E g : /\ Adds(t, "poll", g)
              /\ \/ At(t) = "run" /\ g = Task(t)
                 \/ At(t) = "main" /\ t = Main /\ g = Main

QuietStep(t) == Quiet(t) /\ UNCHANGED <<kind, group, ran>>

CalledStep(t, j) ==
    /\ j \in Tasks /\ Uncalled(j) /\ ran' = [ran EXCEPT ![j] = @ + 1]
    /\ UNCHANGED <<kind, group>>
    /\ \/ Takes(t, j) /\ At(t) \in {"start", "loop", "work"}
       \/ Moves(t, "run") /\ At(t) = "queue" /\ Task(t) = j /\ kind[j] # "plain"

SpawnedStep(t, j, g) ==
    /\ At(t) \in {"main", "manager", "run"} /\ Adds(t, "queue", j)
    /\ j \in Tasks /\ kind[j] = "new" /\ kind' \in {[kind EXCEPT ![j] = how] : how \in Kinds}
    /\ g \in GroupsOf(t) /\ group' = [group EXCEPT ![j] = g] /\ UNCHANGED ran

RefusedStep(t, j) ==
    /\ At(t) = "queue" /\ Task(t) = j /\ j \in Tasks /\ kind[j] = "plain" /\ Drops(t)
    /\ kind' = [kind EXCEPT ![j] = "refused"] /\ UNCHANGED <<group, ran>>

AwaitStep(t) ==
    /\ At(t) = "work" /\ runQueue = <<>> /\ Moves(t, "await") /\ UNCHANGED <<kind, group, ran>>

\* Keeps, for a step of a thread outside of calls
LEMMA BaseQuietStep ==
    ASSUME NEW t \in Threads, NEW p, BaseStep(t, p), UNCHANGED <<kind, group, ran>>
    PROVE  QuietStep(t)
  BY KeepsOn DEF QuietStep, Quiet

LEMMA SpawnThreadKeeps ==
    ASSUME PoolInv, NEW w \in Workers, SpawnThread(w)
    PROVE  Keeps /\ UNCHANGED <<kind, group, ran, pending>>
<1>1. UNCHANGED <<kind, group, ran, pending>> /\ At(Main) = "spawning"
  BY DEF SpawnThread, taskVars
<1>2. \E u \in Workers : At(u) = "unborn"
  BY <1>1, SomeUnborn, TopFacts, WorkersFacts DEF PoolInv, InTask, InWait
<1>3. /\ Depth(w) = 1 /\ Depth(Main) = 1 /\ Depth(w)' = 1 /\ Depth(Main)' = 1
      /\ \A u \in Threads \ {w, Main} : stack'[u] = stack[u] /\ Depth(u)' = Depth(u)
  BY <1>2, SpawnThreadStep DEF PoolInv
<1>4. 2 .. 1 = {}
  OBVIOUS
<1>5. ASSUME NEW u \in Threads, NEW i \in Nat, NEW a, NEW k
      PROVE  On(u, i, a, k)' <=> On(u, i, a, k)
  <2>1. CASE u \in {w, Main}
    BY <2>1, <1>3, <1>4 DEF On
  <2>2. CASE u \notin {w, Main}
    BY <2>2, <1>3 DEF On
  <2> QED
    BY <2>1, <2>2
<1> QED
  BY <1>1, <1>5 DEF Keeps

LEMMA PopCalls ==
    ASSUME PoolInv, NEW t \in Threads, NEW p, Pop(t, p), UNCHANGED <<kind, group>>,
           \/ At(t) \in {"start", "loop"} /\ p = "loop"
           \/ At(t) = "work" /\ p = "poll"
    PROVE  Head(runQueue) \in Tasks /\ CalledStep(t, Head(runQueue))
<1>0. Shape /\ OnTheWay /\ runQueue \in Seq(Tasks)
  BY DEF PoolInv, OnTheWay
<1>1. Takes(t, Head(runQueue)) /\ Head(runQueue) \in Tasks /\ runQueue # <<>>
  BY <1>0, TakesOn, TaskPopped DEF Pop
<1>2. Uncalled(Head(runQueue))
  <2>1. runQueue[1] = Head(runQueue) /\ 1 \in DOMAIN runQueue
    BY <1>0, <1>1
  <2> QED
    BY <1>0, <1>1, <2>1 DEF OnTheWay
<1> QED
  BY <1>1, <1>2 DEF CalledStep, Pop

LEMMA StepKinds ==
    ASSUME PoolInv, [Next]_vars
    PROVE  \E t \in Threads :
              \/ QuietStep(t) \/ AwaitStep(t)
              \/ \E j \in Tasks : CalledStep(t, j) \/ RefusedStep(t, j)
                                  \/ \E g \in Groups : SpawnedStep(t, j, g)
<1> DEFINE Goal == \E t \in Threads :
              \/ QuietStep(t) \/ AwaitStep(t)
              \/ \E j \in Tasks : CalledStep(t, j) \/ RefusedStep(t, j)
                                  \/ \E g \in Groups : SpawnedStep(t, j, g)
<1>0. Shape /\ OnTheWay /\ runQueue \in Seq(Tasks)
  BY DEF PoolInv, OnTheWay
<1>1. ASSUME \/ InitIds \/ InitThreads \/ SpawnThreadFails \/ Deinit
             \/ Stop \/ Broadcast \/ JoinThreads
      PROVE  Goal
  <2>1. UNCHANGED <<kind, group, ran>>
    BY <1>1 DEF InitIds, InitThreads, SpawnThreadFails, Deinit, Stop, Broadcast,
       JoinThreads,
       taskVars
  <2>2. PICK p : BaseStep(Main, p)
    BY <1>0, <1>1, MainSteps
  <2> QED
    BY <2>1, <2>2, WorkersFacts, BaseQuietStep
<1>2. ASSUME ManagerStarts \/ ManagerEnds PROVE Goal
  <2>1. UNCHANGED <<kind, group, ran>>
    BY <1>2 DEF ManagerStarts, ManagerEnds, taskVars
  <2>2. PICK p : BaseStep(Manager, p)
    BY <1>0, <1>2, ManagerSteps
  <2> QED
    BY <2>1, <2>2, WorkersFacts, BaseQuietStep
<1>3. ASSUME NEW w \in Workers, SpawnThread(w) PROVE Goal
  BY <1>3, SpawnThreadKeeps, WorkersFacts DEF QuietStep, Quiet
<1>4. ASSUME NEW w \in Workers, Awake(w) \/ AwakeSpuriously(w) PROVE Goal
  <2>1. UNCHANGED <<kind, group, ran>>
    BY <1>4 DEF Awake, AwakeSpuriously, taskVars
  <2> QED
    BY <1>0, <1>4, <2>1, WorkerSteps, WorkersFacts, BaseQuietStep
<1>5. ASSUME NEW t \in Threads, NEW p, Pop(t, p), UNCHANGED <<kind, group>>,
             \/ At(t) \in {"start", "loop"} /\ p = "loop"
             \/ At(t) = "work" /\ p = "poll"
      PROVE  Goal
  <2>1. Head(runQueue) \in Tasks /\ CalledStep(t, Head(runQueue))
    BY <1>5, PopCalls
  <2> QED
    BY <2>1
<1>6. ASSUME NEW w \in Workers, WorkerRuns(w) PROVE Goal
  <2>1. UNCHANGED <<kind, group>> /\ At(w) \in {"start", "loop"} /\ w \in Threads
    BY <1>6, WorkersFacts DEF WorkerRuns, WorkerStarts, WorkerTurns
  <2>2. \/ Pop(w, "loop")
        \/ UNCHANGED ran /\ (BaseStep(w, "asleep") \/ BaseStep(w, "exited"))
    BY <1>0, <1>6, WorkerSteps DEF WorkerRuns
  <2> QED
    BY <2>1, <2>2, <1>5, BaseQuietStep
<1>7. ASSUME NEW t \in Threads, NEW k \in Tasks, NEW how \in Kinds, NEW g \in Groups,
             Spawn(t, k, how, g)
      PROVE  Goal
  <2>1. Adds(t, "queue", k)
    BY <1>0, <1>7, AddsOn DEF Spawn, Groups, AllPlaces, InTask
  <2>2. SpawnedStep(t, k, g)
    BY <1>7, <2>1 DEF Spawn, SpawnedStep, MayCall
  <2> QED
    BY <2>2
<1>8. ASSUME NEW t \in Threads, NEW g \in Groups, WaitAndWork(t, g) PROVE Goal
  <2>1. Adds(t, "poll", g)
    BY <1>0, <1>8, AddsOn DEF WaitAndWork, AllPlaces, InWait
  <2>2. At(t) = "main" => t = Main
    BY <1>0, WhoIsAt DEF MainPlaces
  <2>3. QuietStep(t)
    BY <1>8, <2>1, <2>2 DEF WaitAndWork, QuietStep, Quiet, taskVars
  <2> QED
    BY <2>3
<1>9. ASSUME NEW t \in Threads, FunctionReturns(t) PROVE QuietStep(t)
  BY <1>0, <1>9, MovesOn DEF FunctionReturns, QuietStep, Quiet, InTask, taskVars
<1>10. ASSUME NEW t \in Threads, Enqueue(t) PROVE QuietStep(t)
  BY <1>0, <1>10, MovesOn DEF Enqueue, QuietStep, Quiet, InTask, taskVars
<1>11. ASSUME NEW t \in Threads, EnqueueFails(t) PROVE Goal
  <2>1. Task(t) \in Tasks /\ Uncalled(Task(t))
    BY <1>0, <1>11, TopFacts DEF EnqueueFails, InTask, OnTheWay, Queueing
  <2>2. CASE kind[Task(t)] # "plain"
    <3>1. CalledStep(t, Task(t))
      BY <1>0, <1>11, <2>1, <2>2, MovesOn DEF EnqueueFails, CalledStep, InTask
    <3> QED
      BY <2>1, <3>1
  <2>3. CASE kind[Task(t)] = "plain"
    <3>1. RefusedStep(t, Task(t))
      BY <1>0, <1>11, <2>1, <2>3, DropsOn DEF EnqueueFails, RefusedStep, InTask
    <3> QED
      BY <2>1, <3>1
  <2> QED
    BY <2>2, <2>3
<1>12. ASSUME NEW t \in Threads, Signal(t) \/ Destroy(t) \/ Await(t) PROVE QuietStep(t)
  BY <1>0, <1>12, DropsOn DEF Signal, Destroy, Await, QuietStep, Quiet, InTask, InWait,
     taskVars
<1>13. ASSUME NEW t \in Threads, Finish(t) PROVE QuietStep(t)
  BY <1>0, <1>13, MovesOn, DropsOn DEF Finish, QuietStep, Quiet, InTask
<1>14. ASSUME NEW t \in Threads, Poll(t) PROVE QuietStep(t)
  BY <1>0, <1>14, MovesOn, DropsOn DEF Poll, QuietStep, Quiet, InWait, taskVars
<1>15. ASSUME NEW t \in Threads, Work(t) PROVE Goal
  <2>1. CASE Pop(t, "poll")
    BY <1>5, <1>15, <2>1 DEF Work
  <2>2. CASE runQueue = <<>> /\ Goto(t, "await") /\ UNCHANGED ran
    <3>1. AwaitStep(t)
      BY <1>0, <1>15, <2>2, MovesOn DEF Work, AwaitStep, InWait
    <3> QED
      BY <3>1
  <2> QED
    BY <1>15, <2>1, <2>2 DEF Work
<1>16. ASSUME UNCHANGED vars PROVE Goal
  <2>1. UNCHANGED <<stack, kind, group, ran>>
    BY <1>16 DEF vars, taskVars
  <2>2. QuietStep(Main)
    BY <2>1 DEF QuietStep, Quiet, Keeps, On, Depth
  <2> QED
    BY <2>2, WorkersFacts
<1> HIDE DEF Goal
<1>17. ASSUME NEW t \in Threads, TaskRuns(t) \/ FunctionReturns(t) PROVE Goal
  <2>1. QuietStep(t) => Goal
    BY DEF Goal
  <2> QED
    BY <2>1, <1>9, <1>10, <1>11, <1>12, <1>13, <1>14, <1>15, <1>17 DEF TaskRuns
<1>18. Goal
  BY <1>1, <1>2, <1>3, <1>4, <1>6, <1>7, <1>8, <1>16, <1>17 DEF Next, MainRuns
<1> QED
  BY <1>18 DEF Goal

-----------------------------------------------------------------------------
(***************************************************************************)
(* Calls.  A task is inside one frame at most (Single), and was called     *)
(* when it is (Called).  A thread waits for the group of the task it runs, *)
(* Main for its own (Nested).  A group is used while its task runs (Own),  *)
(* and not any more when it waits: all its tasks were called when somebody *)
(* waits without working (Awaited).                                        *)
(***************************************************************************)
In(t, i, k) == \E a \in InUse : On(t, i, a, k)

Single == \A t, u \in Threads : \A i, j \in Nat : \A k \in Tasks :
    In(t, i, k) /\ In(u, j, k) => t = u /\ i = j
Called == \A t \in Threads : \A i \in Nat : \A k \in Tasks :
    /\ In(t, i, k) => ran[k] = 1
    /\ On(t, i, "finish", k) => kind[k] # "plain"
Nested == \A t \in Threads : \A i \in Nat : \A k \in Groups : \A a \in InWait :
    On(t, i, a, k) => (t = Main /\ i = 2 /\ k = Main) \/ On(t, i - 1, "run", k)
Own ==
    /\ group \in [Tasks -> Groups] /\ \A k \in Tasks : group[k] \in Tasks => ran[group[k]] = 1
    /\ \A t \in Threads : \A i \in Nat : \A k \in Tasks :
          On(t, i, "queue", k) /\ group[k] \in Tasks => On(t, i - 1, "run", group[k])
Awaited == \A t \in Threads : \A i \in Nat : \A g \in Tasks :
    On(t, i, "await", g) => \A j \in Tasks : group[j] = g /\ kind[j] \in Kinds => ran[j] = 1

CallInv == Single /\ Called /\ Nested /\ Own /\ Awaited

LEMMA MainNoTask == Main \notin Tasks /\ \A g \in Groups : g # Main => g \in Tasks
  BY PoolAssumption DEF Groups

LEMMA QuietOn ==
    ASSUME Shape, NEW t \in Threads, Quiet(t), NEW u \in Threads, NEW i \in Nat, NEW k
    PROVE  /\ \A a \in {"run", "queue", "await"} : On(u, i, a, k)' => On(u, i, a, k)
           /\ In(u, i, k)' => In(u, i, k)
           /\ On(u, i, "finish", k)' => On(u, i, "finish", k) \/ kind[k] # "plain"
           /\ \A a \in InTask : On(u, i, a, k)' => \E b \in InTask : On(u, i, b, k)
           /\ \A a \in InWait : On(u, i, a, k)' =>
                 \/ \E b \in InWait : On(u, i, b, k)
                 \/ u = t /\ i = Depth(t) + 1 /\ At(t) = "run" /\ k = Task(t)
                 \/ u = t /\ i = 2 /\ t = Main /\ k = Main
           /\ \A b, j : On(u, i, "run", k) /\ On(u, i + 1, b, j)' => On(u, i, "run", k)'
<1>1. CASE Keeps
  BY <1>1 DEF Keeps, In
<1>2. CASE Drops(t) /\ At(t) \in InTask \cup InWait
  <2>1. Depth(t) \in Nat
    BY TopFacts
  <2>2. \A a : On(u, i, a, k)' => On(u, i, a, k)
    BY <1>2 DEF Drops
  <2>3. ASSUME NEW b, NEW j, On(u, i, "run", k), On(u, i + 1, b, j)'
        PROVE  On(u, i, "run", k)'
    <3>1. On(u, i + 1, b, j)
      BY <1>2, <2>3 DEF Drops
    <3>2. i + 1 <= Depth(u)
      BY <3>1, OnFacts
    <3> QED
      BY <1>2, <2>1, <2>3, <3>2 DEF Drops
  <2> QED
    BY <2>2, <2>3 DEF In
<1>3. ASSUME NEW p, Moves(t, p),
             \/ At(t) = "queue" /\ p = "signal"
             \/ At(t) = "run" /\ p = "destroy"
             \/ At(t) = "run" /\ p = "finish" /\ kind[Task(t)] # "plain"
             \/ At(t) = "finish" /\ p = "destroy"
             \/ At(t) = "poll" /\ p = "work"
      PROVE  /\ \A a \in {"run", "queue", "await"} : On(u, i, a, k)' => On(u, i, a, k)
             /\ In(u, i, k)' => In(u, i, k)
             /\ On(u, i, "finish", k)' => On(u, i, "finish", k) \/ kind[k] # "plain"
             /\ \A a \in InTask : On(u, i, a, k)' => \E b \in InTask : On(u, i, b, k)
             /\ \A a \in InWait : On(u, i, a, k)' => \E b \in InWait : On(u, i, b, k)
             /\ \A b, j : On(u, i, "run", k) /\ On(u, i + 1, b, j)' => On(u, i, "run", k)'
  <2>1. On(t, Depth(t), At(t), Task(t)) /\ Depth(t) \in Nat
    BY <1>3, OnTop DEF InTask, InWait
  <2>2. CASE u = t /\ i = Depth(t)
    <3>1. \A a : On(u, i, a, k)' <=> a = p /\ k = Task(t)
      BY <1>3, <2>2 DEF Moves
    <3>2. \A b, j : ~On(u, i + 1, b, j)'
      <4>1. \A b, j : On(u, i + 1, b, j)' <=> On(u, i + 1, b, j)
        BY <1>3, <2>1, <2>2 DEF Moves
      <4>2. \A b, j : ~On(u, i + 1, b, j)
        BY <2>1, <2>2 DEF On
      <4> QED
        BY <4>1, <4>2
    <3> QED
      BY <1>3, <2>1, <2>2, <3>1, <3>2 DEF In, InUse, InTask, InWait
  <2>3. CASE ~(u = t /\ i = Depth(t))
    <3>1. \A a : On(u, i, a, k)' <=> On(u, i, a, k)
      BY <1>3, <2>3 DEF Moves
    <3> QED
      BY <3>1 DEF In
  <2> QED
    BY <2>2, <2>3
<1>4. ASSUME NEW g, Adds(t, "poll", g),
             \/ At(t) = "run" /\ g = Task(t)
             \/ At(t) = "main" /\ t = Main /\ g = Main
      PROVE  /\ \A a \in {"run", "queue", "await"} : On(u, i, a, k)' => On(u, i, a, k)
             /\ In(u, i, k)' => In(u, i, k)
             /\ On(u, i, "finish", k)' => On(u, i, "finish", k) \/ kind[k] # "plain"
             /\ \A a \in InTask : On(u, i, a, k)' => \E b \in InTask : On(u, i, b, k)
             /\ \A a \in InWait : On(u, i, a, k)' =>
                   \/ \E b \in InWait : On(u, i, b, k)
                   \/ u = t /\ i = Depth(t) + 1 /\ At(t) = "run" /\ k = Task(t)
                   \/ u = t /\ i = 2 /\ t = Main /\ k = Main
             /\ \A b, j : On(u, i, "run", k) /\ On(u, i + 1, b, j)' => On(u, i, "run", k)'
  <2>1. Depth(t) \in Nat /\ (At(t) = "main" => Depth(t) = 1)
    BY TopFacts DEF InTask, InWait
  <2>2. CASE u = t /\ i = Depth(t) + 1
    <3>1. \A a : On(u, i, a, k)' <=> a = "poll" /\ k = g
      BY <1>4, <2>2 DEF Adds
    <3>2. \A a : ~On(u, i, a, k)
      BY <2>1, <2>2 DEF On
    <3> QED
      BY <1>4, <2>1, <2>2, <3>1, <3>2 DEF In, InUse, InTask, InWait
  <2>3. CASE ~(u = t /\ i = Depth(t) + 1)
    <3>1. \A a : On(u, i, a, k)' <=> On(u, i, a, k)
      BY <1>4, <2>3 DEF Adds
    <3> QED
      BY <3>1 DEF In
  <2> QED
    BY <2>2, <2>3
<1> QED
  BY <1>1, <1>2, <1>3, <1>4 DEF Quiet

LEMMA CallQuiet ==
    ASSUME PoolInv, CallInv, NEW t \in Threads, QuietStep(t)
    PROVE  CallInv'
<1>0. Shape /\ UNCHANGED <<kind, group, ran>> /\ Quiet(t)
  BY DEF PoolInv, QuietStep
<1>1. Single'
  BY <1>0, QuietOn DEF CallInv, Single
<1>2. Called'
  BY <1>0, QuietOn DEF CallInv, Called
<1>3. Nested'
  <2> SUFFICES ASSUME NEW u \in Threads, NEW i \in Nat, NEW k \in Groups, NEW a \in InWait,
                      On(u, i, a, k)', ~(u = Main /\ i = 2 /\ k = Main)
               PROVE  On(u, i - 1, "run", k)'
    BY DEF Nested
  <2>1. i - 1 \in Nat /\ (i - 1) + 1 = i
    BY DEF On
  <2>2. On(u, i - 1, "run", k)
    <3>1. CASE \E b \in InWait : On(u, i, b, k)
      BY <3>1 DEF CallInv, Nested
    <3>2. CASE u = t /\ i = Depth(t) + 1 /\ At(t) = "run" /\ k = Task(t)
      <4>1. On(t, Depth(t), At(t), Task(t)) /\ Depth(t) \in Nat
        BY <1>0, <3>2, OnTop DEF InTask
      <4> QED
        BY <3>2, <4>1
    <3> QED
      BY <1>0, <3>1, <3>2, QuietOn
  <2> QED
    BY <1>0, <2>1, <2>2, QuietOn
<1>4. Own'
  <2> SUFFICES ASSUME NEW u \in Threads, NEW i \in Nat, NEW k \in Tasks,
                      On(u, i, "queue", k)', group[k] \in Tasks
               PROVE  On(u, i - 1, "run", group[k])'
    BY <1>0 DEF CallInv, Own, Groups
  <2>1. i - 1 \in Nat /\ (i - 1) + 1 = i
    BY DEF On
  <2>2. On(u, i - 1, "run", group[k])
    BY <1>0, QuietOn DEF CallInv, Own
  <2> QED
    BY <1>0, <2>1, <2>2, QuietOn
<1>5. Awaited'
  BY <1>0, QuietOn DEF CallInv, Awaited
<1> QED
  BY <1>1, <1>2, <1>3, <1>4, <1>5 DEF CallInv

\* Frames below the last stay, or the step leaves all.

\* the frame in which a task is called, the last one of its thread
Enters(t, d, j) ==
    /\ On(t, d, "run", j)'
    /\ \A u \in Threads : \A i \in Nat : \A k :
          /\ In(u, i, k)' => In(u, i, k) \/ (u = t /\ i = d /\ k = j)
          /\ \A a \in {"finish", "queue", "await"} : On(u, i, a, k)' => On(u, i, a, k)
          /\ On(u, i, "run", k)' => On(u, i, "run", k) \/ (u = t /\ i = d /\ k = j)
          /\ \A a \in InTask : On(u, i, a, k)' =>
                (\E b \in InTask : On(u, i, b, k)) \/ (u = t /\ i = d /\ k = j)
          /\ \A a \in InWait : On(u, i, a, k)' => \E b \in InWait : On(u, i, b, k)
          /\ \A b, m : On(u, i, "run", k) /\ On(u, i + 1, b, m)' => On(u, i, "run", k)'
          /\ \A a : On(t, i, a, k)' => i <= d

LEMMA CalledOn ==
    ASSUME Shape, NEW t \in Threads, NEW j, CalledStep(t, j)
    PROVE  \E d \in Nat : Enters(t, d, j)
<1>0. Depth(t) \in Nat /\ Depth(t) >= 1
  BY TopFacts
<1>1. CASE Takes(t, j) /\ At(t) \in {"start", "loop", "work"}
  <2> PICK d \in Nat : d = Depth(t) + 1
    BY <1>0
  <2>1. d # Depth(t) /\ d >= Depth(t)
    BY <1>0
  <2>2. At(t) = "work" => On(t, Depth(t), "work", Task(t))
    BY OnTop DEF InWait
  <2>3. \A u \in Threads : \A i \in Nat : \A a, k :
            On(u, i, a, k)' <=> IF u = t /\ i = d THEN a = "run" /\ k = j
                                ELSE IF u = t /\ i = Depth(t) /\ At(t) = "work"
                                     THEN a = "poll" /\ k = Task(t)
                                ELSE On(u, i, a, k)
    BY <1>1, <2>1 DEF Takes
  <2>4. \A i \in Nat : \A a, k : On(t, i, a, k) => i <= Depth(t)
    BY OnFacts
  <2>5. \A k : ~On(t, Depth(t), "run", k)
    BY <1>1, OnFacts
  <2>6. On(t, d, "run", j)'
    BY <2>1, <2>3
  <2>7. ASSUME NEW u \in Threads, NEW i \in Nat, NEW k
        PROVE  /\ In(u, i, k)' => In(u, i, k) \/ (u = t /\ i = d /\ k = j)
               /\ \A a \in {"finish", "queue", "await"} : On(u, i, a, k)' => On(u, i, a, k)
               /\ On(u, i, "run", k)' => On(u, i, "run", k) \/ (u = t /\ i = d /\ k = j)
               /\ \A a \in InTask : On(u, i, a, k)' =>
                     (\E b \in InTask : On(u, i, b, k)) \/ (u = t /\ i = d /\ k = j)
               /\ \A a \in InWait : On(u, i, a, k)' => \E b \in InWait : On(u, i, b, k)
    <3>1. CASE u = t /\ i = d
      BY <3>1, <2>3 DEF In, InUse, InWait, InTask
    <3>2. CASE u = t /\ i = Depth(t) /\ At(t) = "work"
      BY <3>2, <2>1, <2>2, <2>3 DEF In, InUse, InWait, InTask
    <3>3. CASE ~(u = t /\ i = d) /\ ~(u = t /\ i = Depth(t) /\ At(t) = "work")
      <4>1. \A a : On(u, i, a, k)' <=> On(u, i, a, k)
        BY <3>3, <2>3
      <4> QED
        BY <4>1 DEF In
    <3> QED
      BY <3>1, <3>2, <3>3
  <2>8. ASSUME NEW i \in Nat, NEW a, NEW k, On(t, i, a, k)' PROVE i <= d
    BY <2>1, <2>3, <2>4, <2>8, <1>0
  <2>9. ASSUME NEW u \in Threads, NEW i \in Nat, NEW k, NEW b, NEW m,
               On(u, i, "run", k), On(u, i + 1, b, m)'
        PROVE  On(u, i, "run", k)'
    <3>1. ~(u = t /\ i = Depth(t))
      BY <2>5, <2>9
    <3>2. ~(u = t /\ i = d)
      BY <2>4, <2>9, <1>0
    <3> QED
      BY <2>3, <2>9, <3>1, <3>2
  <2> QED
    BY <2>1, <2>6, <2>7, <2>8, <2>9 DEF Enters
<1>2. CASE Moves(t, "run") /\ At(t) = "queue" /\ Task(t) = j
  <2> PICK d \in Nat : d = Depth(t)
    BY <1>0
  <2>1. On(t, d, "queue", j)
    BY <1>2, OnTop DEF InTask
  <2>2. \A u \in Threads : \A i \in Nat : \A a, k :
            On(u, i, a, k)' <=> IF u = t /\ i = d THEN a = "run" /\ k = j ELSE On(u, i, a, k)
    BY <1>2 DEF Moves
  <2>3. \A i \in Nat : \A a, k : On(t, i, a, k) => i <= d
    BY OnFacts
  <2>4. On(t, d, "run", j)'
    BY <2>2, <1>0
  <2>5. ASSUME NEW u \in Threads, NEW i \in Nat, NEW k
        PROVE  /\ In(u, i, k)' => In(u, i, k) \/ (u = t /\ i = d /\ k = j)
               /\ \A a \in {"finish", "queue", "await"} : On(u, i, a, k)' => On(u, i, a, k)
               /\ On(u, i, "run", k)' => On(u, i, "run", k) \/ (u = t /\ i = d /\ k = j)
               /\ \A a \in InTask : On(u, i, a, k)' =>
                     (\E b \in InTask : On(u, i, b, k)) \/ (u = t /\ i = d /\ k = j)
               /\ \A a \in InWait : On(u, i, a, k)' => \E b \in InWait : On(u, i, b, k)
    <3>1. CASE u = t /\ i = d
      BY <3>1, <2>2 DEF In, InUse, InWait, InTask
    <3>2. CASE ~(u = t /\ i = d)
      <4>1. \A a : On(u, i, a, k)' <=> On(u, i, a, k)
        BY <3>2, <2>2
      <4> QED
        BY <4>1 DEF In
    <3> QED
      BY <3>1, <3>2
  <2>6. ASSUME NEW i \in Nat, NEW a, NEW k, On(t, i, a, k)' PROVE i <= d
    BY <2>2, <2>3, <2>6, <1>0
  <2>7. ASSUME NEW u \in Threads, NEW i \in Nat, NEW k, NEW b, NEW m,
               On(u, i, "run", k), On(u, i + 1, b, m)'
        PROVE  On(u, i, "run", k)'
    <3>1. CASE u = t /\ i = d
      <4>1. On(t, i, "queue", j) /\ On(t, i, "run", k)
        BY <2>1, <2>7, <3>1
      <4> QED
        BY <4>1, OneOn
    <3>2. CASE ~(u = t /\ i = d)
      BY <2>2, <2>7, <3>2
    <3> QED
      BY <3>1, <3>2
  <2> QED
    BY <1>0, <2>4, <2>5, <2>6, <2>7 DEF Enters
<1> QED
  BY <1>1, <1>2 DEF CalledStep

\* Who has a frame at this place is about to queue its task.
LEMMA QueueOn ==
    ASSUME PoolInv, NEW t \in Threads, NEW i \in Nat, NEW k \in Tasks, On(t, i, "queue", k)
    PROVE  Queueing(t, k) /\ Uncalled(k) /\ i = Depth(t)
<1>1. i = Depth(t) /\ At(t) = "queue" /\ Task(t) = k
  BY OnFacts DEF PoolInv
<1> QED
  BY <1>1 DEF PoolInv, OnTheWay, Queueing

LEMMA CallCalled ==
    ASSUME PoolInv, CallInv, NEW t \in Threads, NEW j \in Tasks, CalledStep(t, j)
    PROVE  CallInv'
<1>0. /\ Shape /\ UNCHANGED <<kind, group>> /\ ran[j] = 0 /\ ran' = [ran EXCEPT ![j] = @ + 1]
      /\ ran \in [Tasks -> Nat]
  BY DEF PoolInv, CalledStep, OnTheWay, Uncalled
<1>1. ran'[j] = 1 /\ \A k \in Tasks \ {j} : ran'[k] = ran[k]
  BY <1>0
<1>2. \A u \in Threads : \A i \in Nat : ~In(u, i, j) /\ ~On(u, i, "finish", j)
  BY <1>0 DEF CallInv, Called, In, InUse
<1>d. PICK d \in Nat : Enters(t, d, j)
  BY <1>0, CalledOn
<1>3. \A u \in Threads : \A i \in Nat : \A k :
         /\ In(u, i, k)' => In(u, i, k) \/ (u = t /\ i = d /\ k = j)
         /\ \A a \in {"finish", "queue", "await"} : On(u, i, a, k)' => On(u, i, a, k)
         /\ \A a \in InWait : On(u, i, a, k)' => \E b \in InWait : On(u, i, b, k)
         /\ \A b, m : On(u, i, "run", k) /\ On(u, i + 1, b, m)' => On(u, i, "run", k)'
  BY <1>d DEF Enters
<1>4. Single'
  BY <1>2, <1>3 DEF CallInv, Single
<1>5. Called'
  BY <1>0, <1>1, <1>3 DEF CallInv, Called
<1>6. Nested'
  <2> SUFFICES ASSUME NEW u \in Threads, NEW i \in Nat, NEW k \in Groups, NEW a \in InWait,
                      On(u, i, a, k)', ~(u = Main /\ i = 2 /\ k = Main)
               PROVE  On(u, i - 1, "run", k)'
    BY DEF Nested
  <2>1. i - 1 \in Nat /\ (i - 1) + 1 = i
    BY DEF On
  <2>2. On(u, i - 1, "run", k)
    BY <1>3 DEF CallInv, Nested
  <2> QED
    BY <1>3, <2>1, <2>2
<1>7. Own'
  <2>1. group \in [Tasks -> Groups] /\ \A k \in Tasks : group[k] \in Tasks => ran'[group[k]] = 1
    BY <1>1 DEF CallInv, Own
  <2>2. ASSUME NEW u \in Threads, NEW i \in Nat, NEW k \in Tasks,
               On(u, i, "queue", k)', group[k] \in Tasks
        PROVE  On(u, i - 1, "run", group[k])'
    <3>1. i - 1 \in Nat /\ (i - 1) + 1 = i
      BY <2>2 DEF On
    <3>2. On(u, i - 1, "run", group[k])
      BY <1>3, <2>2 DEF CallInv, Own
    <3> QED
      BY <1>0, <1>3, <2>2, <3>1, <3>2
  <2> QED
    BY <1>0, <2>1, <2>2 DEF Own, Groups
<1>8. Awaited'
  <2>1. \A u \in Threads : \A i \in Nat : \A g \in Tasks :
           On(u, i, "await", g)' => On(u, i, "await", g)
    BY <1>3
  <2>2. \A k \in Tasks : ran[k] = 1 => ran'[k] = 1
    BY <1>1
  <2> QED
    BY <1>0, <2>1, <2>2 DEF CallInv, Awaited
<1> QED
  BY <1>4, <1>5, <1>6, <1>7, <1>8 DEF CallInv

LEMMA AddsBelow ==
    ASSUME Shape, NEW t \in Threads, NEW p, NEW j, Adds(t, p, j),
           NEW u \in Threads, NEW i \in Nat, NEW a, NEW k
    PROVE  /\ On(u, i, a, k) => On(u, i, a, k)'
           /\ On(u, i, a, k)' => On(u, i, a, k) \/ (u = t /\ i = Depth(t) + 1 /\ a = p /\ k = j)
<1>1. Depth(t) \in Nat
  BY TopFacts
<1>2. On(u, i, a, k) => ~(u = t /\ i = Depth(t) + 1)
  BY <1>1 DEF On
<1> QED
  BY <1>2 DEF Adds

LEMMA CallSpawned ==
    ASSUME PoolInv, CallInv, NEW t \in Threads, NEW j \in Tasks, NEW g \in Groups,
           SpawnedStep(t, j, g)
    PROVE  CallInv'
<1>0. /\ Shape /\ kind[j] = "new" /\ ran[j] = 0 /\ UNCHANGED ran /\ ~Uncalled(j)
      /\ group' = [group EXCEPT ![j] = g] /\ group \in [Tasks -> Groups]
      /\ (\A k \in Tasks \ {j} : kind'[k] = kind[k]) /\ Adds(t, "queue", j)
  BY KindFacts DEF PoolInv, SpawnedStep, OnTheWay, Uncalled, CallInv, Own
<1>1. \A u \in Threads : \A i \in Nat : \A a, k :
         /\ On(u, i, a, k) => On(u, i, a, k)'
         /\ On(u, i, a, k)' => On(u, i, a, k) \/ (u = t /\ i = Depth(t) + 1 /\ a = "queue" /\ k = j)
  BY <1>0, AddsBelow
<1>2. /\ Depth(t) \in Nat
      /\ g \in Tasks => At(t) = "run" /\ g = Task(t) /\ On(t, Depth(t), "run", g)
  BY <1>0, OnTop, TopFacts, MainNoTask DEF SpawnedStep, GroupsOf, InTask
<1>3. g \in Tasks => In(t, Depth(t), g) /\ ran[g] = 1
  BY <1>2 DEF In, InUse, CallInv, Called
<1>4. \A u \in Threads : \A i \in Nat : \A k : In(u, i, k)' => In(u, i, k)
  BY <1>1 DEF In, InUse
<1>5. Single'
  BY <1>4 DEF CallInv, Single
<1>6. Called'
  <2>1. \A u \in Threads : \A i \in Nat : ~On(u, i, "finish", j)
    BY <1>0 DEF CallInv, Called, In, InUse
  <2>2. \A u \in Threads : \A i \in Nat : \A k : On(u, i, "finish", k)' => On(u, i, "finish", k)
    BY <1>1
  <2> QED
    BY <1>0, <1>4, <2>1, <2>2 DEF CallInv, Called
<1>7. Nested'
  <2> SUFFICES ASSUME NEW u \in Threads, NEW i \in Nat, NEW k \in Groups, NEW a \in InWait,
                      On(u, i, a, k)', ~(u = Main /\ i = 2 /\ k = Main)
               PROVE  On(u, i - 1, "run", k)'
    BY DEF Nested
  <2>1. i - 1 \in Nat
    BY DEF On
  <2>2. On(u, i, a, k)
    BY <1>1 DEF InWait
  <2>3. On(u, i - 1, "run", k)
    BY <2>2 DEF CallInv, Nested
  <2> QED
    BY <1>1, <2>1, <2>3
<1>8. Own'
  <2>1. group' \in [Tasks -> Groups] /\ \A k \in Tasks : group'[k] \in Tasks => ran[group'[k]] = 1
    BY <1>0, <1>3 DEF CallInv, Own
  <2>2. ASSUME NEW u \in Threads, NEW i \in Nat, NEW k \in Tasks, NEW h \in Tasks,
               On(u, i, "queue", k)', group'[k] = h
        PROVE  On(u, i - 1, "run", h)'
    <3>1. i - 1 \in Nat
      BY <2>2 DEF On
    <3>2. CASE On(u, i, "queue", k)
      <4>1. k # j
        BY <1>0, <3>2, QueueOn
      <4>2. On(u, i - 1, "run", h)
        BY <1>0, <2>2, <3>2, <4>1 DEF CallInv, Own
      <4> QED
        BY <1>1, <3>1, <4>2
    <3>3. CASE u = t /\ i = Depth(t) + 1 /\ k = j
      <4>1. On(t, Depth(t), "run", g) /\ h = g /\ i - 1 = Depth(t)
        BY <1>0, <1>2, <2>2, <3>3
      <4> QED
        BY <1>1, <1>2, <3>3, <4>1
    <3> QED
      BY <1>1, <2>2, <3>2, <3>3
  <2> QED
    BY <1>0, <2>1, <2>2 DEF Own, Groups
<1>9. Awaited'
  <2> SUFFICES ASSUME NEW u \in Threads, NEW i \in Nat, NEW h \in Tasks, On(u, i, "await", h)',
                      NEW m \in Tasks, group'[m] = h, kind'[m] \in Kinds
               PROVE  ran[m] = 1
    BY <1>0 DEF Awaited
  <2>1. On(u, i, "await", h)
    <3>1. \A v \in Threads : \A n \in Nat : \A k : On(v, n, "await", k)' => On(v, n, "await", k)
      BY <1>1
    <3> QED
      BY <3>1
  <2>2. CASE m # j
    <3>1. group[m] = h /\ kind[m] \in Kinds
      BY <1>0, <2>2
    <3> QED
      BY <2>1, <3>1 DEF CallInv, Awaited
  <2>3. CASE m = j
    <3>1. h = g
      BY <1>0, <2>3
    <3>2. On(u, i - 1, "run", g) /\ i - 1 \in Nat
      BY <2>1, <3>1, MainNoTask DEF CallInv, Nested, InWait, Groups, On
    <3>3. In(u, i - 1, g) /\ In(t, Depth(t), g)
      BY <1>3, <3>1, <3>2 DEF In, InUse
    <3>4. u = t /\ i - 1 = Depth(t)
      BY <1>2, <3>1, <3>2, <3>3 DEF CallInv, Single
    <3> QED
      BY <1>0, <1>2, <2>1, <3>4, OnFacts
  <2> QED
    BY <2>2, <2>3
<1> QED
  BY <1>5, <1>6, <1>7, <1>8, <1>9 DEF CallInv

LEMMA CallRefused ==
    ASSUME PoolInv, CallInv, NEW t \in Threads, NEW j \in Tasks, RefusedStep(t, j)
    PROVE  CallInv'
<1>0. /\ Shape /\ UNCHANGED <<group, ran>> /\ Quiet(t) /\ ran[j] = 0
      /\ (\A k \in Tasks \ {j} : kind'[k] = kind[k]) /\ kind'[j] = "refused"
  BY DEF PoolInv, RefusedStep, Quiet, InTask, OnTheWay, Queueing, Uncalled
<1>1. Single'
  BY <1>0, QuietOn DEF CallInv, Single
<1>2. Called'
  BY <1>0, QuietOn DEF CallInv, Called
<1>3. \A u \in Threads : \A i \in Nat : \A k, b, m :
         On(u, i, "run", k) /\ On(u, i + 1, b, m)' => On(u, i, "run", k)'
  BY <1>0, QuietOn
<1>4. \A u \in Threads : \A i \in Nat : \A a, k : On(u, i, a, k)' => On(u, i, a, k)
  BY DEF RefusedStep, Drops
<1>5. Nested'
  <2> SUFFICES ASSUME NEW u \in Threads, NEW i \in Nat, NEW k \in Groups, NEW a \in InWait,
                      On(u, i, a, k)', ~(u = Main /\ i = 2 /\ k = Main)
               PROVE  On(u, i - 1, "run", k)'
    BY DEF Nested
  <2>1. i - 1 \in Nat /\ (i - 1) + 1 = i
    BY DEF On
  <2>2. On(u, i - 1, "run", k)
    BY <1>4 DEF CallInv, Nested
  <2> QED
    BY <1>3, <2>1, <2>2
<1>6. Own'
  <2> SUFFICES ASSUME NEW u \in Threads, NEW i \in Nat, NEW k \in Tasks,
                      On(u, i, "queue", k)', group[k] \in Tasks
               PROVE  On(u, i - 1, "run", group[k])'
    BY <1>0 DEF CallInv, Own, Groups
  <2>1. i - 1 \in Nat /\ (i - 1) + 1 = i
    BY DEF On
  <2>2. On(u, i - 1, "run", group[k])
    BY <1>4 DEF CallInv, Own
  <2> QED
    BY <1>0, <1>3, <2>1, <2>2
<1>7. Awaited'
  BY <1>0, <1>4, KindFacts DEF CallInv, Awaited
<1> QED
  BY <1>1, <1>2, <1>5, <1>6, <1>7 DEF CallInv

\* Every task of the group was called: it left the queue, and only the thread that waits
\* could be about to queue one.
LEMMA CallAwait ==
    ASSUME PoolInv, CallInv, NEW t \in Threads, AwaitStep(t)
    PROVE  CallInv'
<1>0. /\ Shape /\ UNCHANGED <<kind, group, ran>> /\ At(t) = "work" /\ Depth(t) \in Nat
      /\ On(t, Depth(t), "work", Task(t)) /\ Task(t) \in Groups
  BY OnTop, TopFacts DEF PoolInv, AwaitStep, InWait
<1>1. \A u \in Threads : \A i \in Nat : \A a, k :
         On(u, i, a, k)' <=> IF u = t /\ i = Depth(t) THEN a = "await" /\ k = Task(t)
                             ELSE On(u, i, a, k)
  BY DEF AwaitStep, Moves
<1>2. \A u \in Threads : \A i \in Nat : \A k : \A a \in InTask : On(u, i, a, k)' <=> On(u, i, a, k)
  <2>1. \A k : \A a \in InTask : ~On(t, Depth(t), a, k)
    BY <1>0, OneOn DEF InTask
  <2>2. \A a \in InTask : a # "await"
    BY DEF InTask
  <2> QED
    BY <1>1, <2>1, <2>2
<1>3. \A u \in Threads : \A i \in Nat : \A k : In(u, i, k)' <=> In(u, i, k)
  BY <1>2 DEF In, InUse, InTask
<1>4. Single' /\ Called'
  BY <1>0, <1>2, <1>3 DEF CallInv, Single, Called, InTask
<1>5. Nested'
  <2> SUFFICES ASSUME NEW u \in Threads, NEW i \in Nat, NEW k \in Groups, NEW a \in InWait,
                      On(u, i, a, k)', ~(u = Main /\ i = 2 /\ k = Main)
               PROVE  On(u, i - 1, "run", k)'
    BY DEF Nested
  <2>1. i - 1 \in Nat
    BY DEF On
  <2>2. \E b \in InWait : On(u, i, b, k)
    BY <1>0, <1>1 DEF InWait
  <2>3. On(u, i - 1, "run", k)
    BY <2>2 DEF CallInv, Nested
  <2> QED
    BY <1>2, <2>1, <2>3 DEF InTask
<1>6. Own'
  <2>1. ASSUME NEW u \in Threads, NEW i \in Nat, NEW k \in Tasks,
               On(u, i, "queue", k)', group[k] \in Tasks
        PROVE  On(u, i - 1, "run", group[k])'
    <3>1. i - 1 \in Nat
      BY <2>1 DEF On
    <3>2. On(u, i - 1, "run", group[k])
      BY <1>2, <2>1 DEF CallInv, Own, InTask
    <3> QED
      BY <1>0, <1>2, <3>1, <3>2 DEF InTask
  <2> QED
    BY <1>0, <2>1 DEF CallInv, Own, Groups
<1>7. Awaited'
  <2> SUFFICES ASSUME NEW u \in Threads, NEW i \in Nat, NEW g \in Tasks, On(u, i, "await", g)',
                      NEW j \in Tasks, group[j] = g, kind[j] \in Kinds
               PROVE  ran[j] = 1
    BY <1>0 DEF Awaited
  <2>1. CASE On(u, i, "await", g)
    BY <2>1 DEF CallInv, Awaited
  <2>2. CASE u = t /\ i = Depth(t) /\ g = Task(t)
    <3> SUFFICES ASSUME ran[j] # 1 PROVE FALSE
      OBVIOUS
    <3>1. Uncalled(j)
      BY DEF PoolInv, OnTheWay, Uncalled
    <3>2. PICK v \in Threads : Queueing(v, j)
      BY <3>1 DEF PoolInv, OnTheWay, AwaitStep
    <3>3. On(v, Depth(v), "queue", j) /\ Depth(v) \in Nat /\ Depth(v) >= 2
      BY <1>0, <3>2, OnTop DEF Queueing, InTask
    <3>4. On(v, Depth(v) - 1, "run", g) /\ Depth(v) - 1 \in Nat
      BY <3>3 DEF CallInv, Own
    <3>5. On(t, Depth(t) - 1, "run", g) /\ Depth(t) - 1 \in Nat
      BY <1>0, <2>2, MainNoTask DEF CallInv, Nested, InWait, On
    <3>6. v = t
      BY <3>4, <3>5 DEF CallInv, Single, In, InUse
    <3> QED
      BY <1>0, <3>2, <3>6 DEF Queueing
  <2> QED
    BY <1>1, <2>1, <2>2
<1> QED
  BY <1>4, <1>5, <1>6, <1>7 DEF CallInv

LEMMA CallInvNext == ASSUME PoolInv, CallInv, [Next]_vars PROVE CallInv'
  BY StepKinds, CallQuiet, CallCalled, CallSpawned, CallRefused, CallAwait

LEMMA CallInvInit == Init => CallInv
<1> SUFFICES ASSUME Init PROVE CallInv
  OBVIOUS
<1>1. \A t \in Threads : \A i \in Nat : \A a, k : ~On(t, i, a, k)
  <2>1. \A t \in Threads : Depth(t) = 1
    BY DEF Init, Depth
  <2>2. 2 .. 1 = {}
    OBVIOUS
  <2> QED
    BY <2>1, <2>2 DEF On
<1>2. Own
  BY <1>1, MainNoTask DEF Init, Own, Groups
<1> QED
  BY <1>1, <1>2 DEF CallInv, Single, Called, Nested, Awaited, In

-----------------------------------------------------------------------------
(***************************************************************************)
(* Who waits for whom.  A task can be held up by one of its group, and by  *)
(* one that its thread took up meanwhile, on the same stack.  There is no  *)
(* circle of such tasks: in every set of them one leads to none of the     *)
(* set.  A task that is spawned or called does not lead anywhere yet.      *)
(***************************************************************************)
Above(k, m) == \E t \in Threads : \E i, j \in Nat :
    i < j /\ On(t, i, "run", k) /\ \E a \in InTask : On(t, j, a, m)
Leads(k, m) == group[m] = k \/ Above(k, m)
NoCycle == \A S \in SUBSET Tasks : S # {} => \E k \in S : \A m \in S : ~Leads(k, m)

LEMMA NoCycleSink ==
    ASSUME NoCycle, NEW b,
           \A k, m \in Tasks : Leads(k, m)' => Leads(k, m) \/ m = b,
           \A m \in Tasks : ~Leads(b, m)'
    PROVE  NoCycle'
<1> SUFFICES ASSUME NEW S \in SUBSET Tasks, S # {}
             PROVE  \E k \in S : \A m \in S : ~Leads(k, m)'
  BY DEF NoCycle
<1>1. CASE b \in S
  BY <1>1
<1>2. CASE b \notin S
  <2>1. PICK k \in S : \A m \in S : ~Leads(k, m)
    BY DEF NoCycle
  <2>2. \A m \in S : ~Leads(k, m)'
    BY <1>2, <2>1
  <2> QED
    BY <2>2
<1> QED
  BY <1>1, <1>2

LEMMA NoCycleLess ==
    ASSUME NoCycle, UNCHANGED group,
           \A u \in Threads : \A i \in Nat : \A k :
              /\ On(u, i, "run", k)' => On(u, i, "run", k)
              /\ \A a \in InTask : On(u, i, a, k)' => \E b \in InTask : On(u, i, b, k)
    PROVE  NoCycle'
<1>1. \A k, m \in Tasks : Above(k, m)' => Above(k, m)
  BY DEF Above
<1>2. \A k, m \in Tasks : Leads(k, m)' => Leads(k, m)
  BY <1>1 DEF Leads
<1> QED
  BY <1>2 DEF NoCycle

LEMMA NoCycleCalled ==
    ASSUME PoolInv, CallInv, NoCycle, NEW t \in Threads, NEW j \in Tasks, CalledStep(t, j)
    PROVE  NoCycle'
<1>0. Shape /\ UNCHANGED group /\ ran[j] = 0
  BY DEF PoolInv, CalledStep, Uncalled
<1>d. PICK d \in Nat : Enters(t, d, j)
  BY <1>0, CalledOn
<1>1. \A u \in Threads : \A i \in Nat : \A k :
         /\ On(u, i, "run", k)' => On(u, i, "run", k) \/ (u = t /\ i = d /\ k = j)
         /\ \A a \in InTask : On(u, i, a, k)' =>
               (\E b \in InTask : On(u, i, b, k)) \/ (u = t /\ i = d /\ k = j)
         /\ \A a : On(t, i, a, k)' => i <= d
  BY <1>d DEF Enters
<1>2. \A u \in Threads : \A i \in Nat : ~On(u, i, "run", j)
  BY <1>0 DEF CallInv, Called, In, InUse
<1>3. ASSUME NEW m \in Tasks PROVE ~Leads(j, m)'
  <2>1. group[m] # j
    BY <1>0 DEF CallInv, Own
  <2>2. ASSUME NEW u \in Threads, NEW i \in Nat, NEW n \in Nat, i < n, On(u, i, "run", j)',
               NEW a \in InTask, On(u, n, a, m)'
        PROVE  FALSE
    <3>1. u = t /\ i = d
      BY <1>1, <1>2, <2>2
    <3>2. n <= d
      BY <1>1, <2>2, <3>1
    <3> QED
      BY <2>2, <3>1, <3>2
  <2> QED
    BY <1>0, <2>1, <2>2 DEF Leads, Above
<1>4. ASSUME NEW k \in Tasks, NEW m \in Tasks, Leads(k, m)' PROVE Leads(k, m) \/ m = j
  <2>1. CASE group'[m] = k
    BY <1>0, <2>1 DEF Leads
  <2>2. CASE Above(k, m)'
    <3>1. PICK u \in Threads, i \in Nat, n \in Nat :
             i < n /\ On(u, i, "run", k)' /\ \E a \in InTask : On(u, n, a, m)'
      BY <2>2 DEF Above
    <3>2. k # j
      BY <1>3, <1>4
    <3>3. On(u, i, "run", k)
      BY <1>1, <3>1, <3>2
    <3>4. m = j \/ \E b \in InTask : On(u, n, b, m)
      BY <1>1, <3>1
    <3> QED
      BY <3>1, <3>3, <3>4 DEF Leads, Above
  <2> QED
    BY <1>4, <2>1, <2>2 DEF Leads
<1> QED
  BY <1>3, <1>4, NoCycleSink

LEMMA NoCycleSpawned ==
    ASSUME PoolInv, CallInv, NoCycle, NEW t \in Threads, NEW j \in Tasks, NEW g \in Groups,
           SpawnedStep(t, j, g)
    PROVE  NoCycle'
<1>0. /\ Shape /\ kind[j] = "new" /\ ran[j] = 0 /\ Adds(t, "queue", j)
      /\ group' = [group EXCEPT ![j] = g] /\ group \in [Tasks -> Groups]
  BY KindFacts DEF PoolInv, SpawnedStep, OnTheWay, CallInv, Own
<1>1. \A u \in Threads : \A i \in Nat : \A a, k :
         On(u, i, a, k)' => On(u, i, a, k) \/ (u = t /\ i = Depth(t) + 1 /\ a = "queue" /\ k = j)
  BY <1>0, AddsBelow
<1>2. g # j
  <2>1. CASE At(t) = "run" /\ g = Task(t)
    <3>1. On(t, Depth(t), "run", g) /\ Depth(t) \in Nat
      BY <1>0, <2>1, OnTop DEF InTask
    <3> QED
      BY <1>0, <3>1 DEF CallInv, Called, In, InUse
  <2>2. CASE g = Main
    BY <2>2, MainNoTask
  <2> QED
    BY <2>1, <2>2 DEF SpawnedStep, GroupsOf
<1>3. \A u \in Threads : \A i \in Nat : ~On(u, i, "run", j)
  BY <1>0 DEF CallInv, Called, In, InUse
<1>4. ASSUME NEW m \in Tasks PROVE ~Leads(j, m)'
  <2>1. group'[m] # j
    BY <1>0, <1>2 DEF CallInv, Own
  <2>2. \A u \in Threads : \A i \in Nat : ~On(u, i, "run", j)'
    BY <1>1, <1>3
  <2> QED
    BY <2>1, <2>2 DEF Leads, Above
<1>5. ASSUME NEW k \in Tasks, NEW m \in Tasks, m # j, Leads(k, m)' PROVE Leads(k, m)
  <2>1. group'[m] = group[m]
    BY <1>0, <1>5
  <2>2. \A u \in Threads : \A i \in Nat : /\ On(u, i, "run", k)' => On(u, i, "run", k)
                                          /\ \A a \in InTask : On(u, i, a, m)' => On(u, i, a, m)
    BY <1>1, <1>5
  <2>3. Above(k, m)' => Above(k, m)
    BY <2>2 DEF Above
  <2> QED
    BY <1>5, <2>1, <2>3 DEF Leads
<1> QED
  BY <1>4, <1>5, NoCycleSink

LEMMA NoCycleNext == ASSUME PoolInv, CallInv, NoCycle, [Next]_vars PROVE NoCycle'
<1>0. Shape
  BY DEF PoolInv
<1>1. ASSUME NEW t \in Threads, QuietStep(t) PROVE NoCycle'
  <2>1. Quiet(t) /\ UNCHANGED group
    BY <1>1 DEF QuietStep
  <2> QED
    BY <1>0, <2>1, QuietOn, NoCycleLess
<1>2. ASSUME NEW t \in Threads, NEW j \in Tasks, RefusedStep(t, j) PROVE NoCycle'
  BY <1>2, NoCycleLess DEF RefusedStep, Drops
<1>3. ASSUME NEW t \in Threads, AwaitStep(t) PROVE NoCycle'
  <2>1. \A u \in Threads : \A i \in Nat : \A a, k :
           On(u, i, a, k)' <=> IF u = t /\ i = Depth(t) THEN a = "await" /\ k = Task(t)
                               ELSE On(u, i, a, k)
    BY <1>3 DEF AwaitStep, Moves
  <2>2. \A u \in Threads : \A i \in Nat : \A k : \A a \in InTask : On(u, i, a, k)' => On(u, i, a, k)
    BY <2>1 DEF InTask
  <2>3. "run" \in InTask /\ UNCHANGED group
    BY <1>3 DEF InTask, AwaitStep
  <2> QED
    BY <2>2, <2>3, NoCycleLess
<1> QED
  BY <1>1, <1>2, <1>3, NoCycleCalled, NoCycleSpawned, StepKinds

LEMMA NoCycleInit == Init => NoCycle
<1> SUFFICES ASSUME Init PROVE NoCycle
  OBVIOUS
<1>1. \A t \in Threads : \A i \in Nat : \A a, k : ~On(t, i, a, k)
  <2>1. \A t \in Threads : Depth(t) = 1
    BY DEF Init, Depth
  <2>2. 2 .. 1 = {}
    OBVIOUS
  <2> QED
    BY <2>1, <2>2 DEF On
<1>2. \A k, m \in Tasks : ~Leads(k, m)
  BY <1>1, MainNoTask DEF Leads, Above, Init
<1> QED
  BY <1>2 DEF NoCycle

-----------------------------------------------------------------------------
(***************************************************************************)
(* What wait groups count.  A task of a group is Open from its spawn to    *)
(* the end of its function: not called yet, or in a frame that runs it.    *)
(***************************************************************************)
Going(k) == \E t \in Threads : \E i \in Nat : On(t, i, "run", k) \/ On(t, i, "finish", k)
Open(k) == kind[k] \in {"wg", "wgid"} /\ (ran[k] = 0 \/ Going(k))
OpenOf(g) == {k \in Tasks : group[k] = g /\ Open(k)}

Counted ==
    /\ pending \in [Groups -> Nat]
    /\ \A g \in Groups : IsFiniteSet(OpenOf(g)) /\ pending[g] = Cardinality(OpenOf(g))

OpenKeeps == UNCHANGED <<pending, group>> /\ \A k \in Tasks : Open(k)' <=> Open(k)

LEMMA GoingKeeps ==
    ASSUME \A u \in Threads : \A i \in Nat : \A k :
              (On(u, i, "run", k) \/ On(u, i, "finish", k))' <=>
              (On(u, i, "run", k) \/ On(u, i, "finish", k)),
           UNCHANGED <<kind, ran, group, pending>>
    PROVE  OpenKeeps
<1>1. \A k \in Tasks : Going(k)' <=> Going(k)
  BY DEF Going
<1> QED
  BY <1>1 DEF OpenKeeps, Open

\* steps of a thread whose last call, before and after, does not run a task
LEMMA GoingTop ==
    ASSUME Shape, NEW t \in Threads, At(t) \notin {"run", "finish"},
           \/ Drops(t)
           \/ \E p : Moves(t, p) /\ p \notin {"run", "finish"}
    PROVE  \A u \in Threads : \A i \in Nat : \A k :
              (On(u, i, "run", k) \/ On(u, i, "finish", k))' <=>
              (On(u, i, "run", k) \/ On(u, i, "finish", k))
<1>1. \A k : ~On(t, Depth(t), "run", k) /\ ~On(t, Depth(t), "finish", k)
  <2>1. At(t) = stack[t][Depth(t)].at
    BY TopFacts
  <2> QED
    BY <2>1 DEF On
<1>2. CASE Drops(t)
  BY <1>1, <1>2 DEF Drops
<1>3. ASSUME NEW p, Moves(t, p), p \notin {"run", "finish"},
             NEW u \in Threads, NEW i \in Nat, NEW k
      PROVE  (On(u, i, "run", k) \/ On(u, i, "finish", k))' <=>
             (On(u, i, "run", k) \/ On(u, i, "finish", k))
  BY <1>1, <1>3 DEF Moves
<1> QED
  BY <1>2, <1>3

LEMMA GoingReturns ==
    ASSUME Shape, NEW t \in Threads, FunctionReturns(t)
    PROVE  OpenKeeps
<1>0. /\ At(t) = "run" /\ UNCHANGED <<kind, ran, group, pending>> /\ Depth(t) \in Nat
      /\ On(t, Depth(t), "run", Task(t))
  BY OnTop, TopFacts DEF FunctionReturns, taskVars, InTask
<1>1. CASE kind[Task(t)] # "plain"
  <2>1. Moves(t, "finish")
    BY <1>1, MovesOn DEF FunctionReturns, InTask
  <2>2. \A u \in Threads : \A i \in Nat : \A k :
              (On(u, i, "run", k) \/ On(u, i, "finish", k))' <=>
              (On(u, i, "run", k) \/ On(u, i, "finish", k))
    <3> TAKE u \in Threads
    <3> TAKE i \in Nat
    <3> TAKE k
    <3>1. \A a : On(u, i, a, k)' <=> IF u = t /\ i = Depth(t) THEN a = "finish" /\ k = Task(t)
                                     ELSE On(u, i, a, k)
      BY <2>1 DEF Moves
    <3>2. CASE u = t /\ i = Depth(t)
      <4>1. (On(u, i, "run", k) \/ On(u, i, "finish", k)) <=> k = Task(t)
        BY <1>0, <3>2, OneOn
      <4> QED
        BY <3>1, <3>2, <4>1
    <3>3. CASE ~(u = t /\ i = Depth(t))
      BY <3>1, <3>3
    <3> QED
      BY <3>2, <3>3
  <2> QED
    BY <1>0, <2>2, GoingKeeps
<1>2. CASE kind[Task(t)] = "plain"
  <2>1. Moves(t, "destroy")
    BY <1>2, MovesOn DEF FunctionReturns, InTask
  <2>2. ASSUME NEW u \in Threads, NEW i \in Nat, NEW k, kind[k] # "plain"
        PROVE  \A a \in {"run", "finish"} : On(u, i, a, k)' <=> On(u, i, a, k)
    <3>1. \A a : On(u, i, a, k)' <=> IF u = t /\ i = Depth(t) THEN a = "destroy" /\ k = Task(t)
                                     ELSE On(u, i, a, k)
      BY <2>1 DEF Moves
    <3>2. u = t /\ i = Depth(t) => \A a : ~On(u, i, a, k)
      BY <1>0, <1>2, <2>2, OneOn
    <3> QED
      BY <3>1, <3>2
  <2>3. \A k \in Tasks : kind[k] # "plain" => (Going(k)' <=> Going(k))
    BY <2>2 DEF Going
  <2> QED
    BY <1>0, <2>3 DEF OpenKeeps, Open
<1> QED
  BY <1>1, <1>2

LEMMA GoingCalled ==
    ASSUME PoolInv, NEW t \in Threads, NEW j \in Tasks, CalledStep(t, j), UNCHANGED pending
    PROVE  OpenKeeps
<1>0. /\ Shape /\ UNCHANGED <<kind, group>> /\ ran[j] = 0 /\ ran' = [ran EXCEPT ![j] = @ + 1]
      /\ ran \in [Tasks -> Nat]
  BY DEF PoolInv, CalledStep, OnTheWay, Uncalled
<1>1. Going(j)'
  <2>1. PICK d \in Nat : Enters(t, d, j)
    BY <1>0, CalledOn
  <2>2. On(t, d, "run", j)'
    BY <2>1 DEF Enters
  <2> QED
    BY <2>2 DEF Going
<1>2. \A k \in Tasks \ {j} : ran'[k] = ran[k]
  BY <1>0
<1>3. ASSUME NEW k \in Tasks \ {j} PROVE Going(k)' <=> Going(k)
  <2>1. \A u \in Threads : \A i \in Nat : \A a \in {"run", "finish"} :
           On(u, i, a, k)' <=> On(u, i, a, k)
    <3> TAKE u \in Threads, i \in Nat, a \in {"run", "finish"}
    <3>0. Depth(t) \in Nat
      BY <1>0, TopFacts
    <3>1. CASE Takes(t, j) /\ At(t) \in {"start", "loop", "work"}
      <4>1. On(u, i, a, k)' <=> IF u = t /\ i = Depth(t) + 1 THEN a = "run" /\ k = j
                        ELSE IF u = t /\ i = Depth(t) /\ At(t) = "work"
                             THEN a = "poll" /\ k = Task(t)
                        ELSE On(u, i, a, k)
        BY <3>1 DEF Takes
      <4>2. u = t /\ i = Depth(t) + 1 => ~On(u, i, a, k)
        BY <3>0 DEF On
      <4>3. u = t /\ i = Depth(t) /\ At(t) = "work" => ~On(u, i, a, k)
        BY <1>0, OnFacts
      <4> QED
        BY <4>1, <4>2, <4>3
    <3>2. CASE Moves(t, "run") /\ At(t) = "queue" /\ Task(t) = j
      <4>1. On(u, i, a, k)' <=> IF u = t /\ i = Depth(t) THEN a = "run" /\ k = j
                                ELSE On(u, i, a, k)
        BY <3>2 DEF Moves
      <4>2. u = t /\ i = Depth(t) => ~On(u, i, a, k)
        BY <1>0, <3>2, OnFacts
      <4> QED
        BY <4>1, <4>2
    <3> QED
      BY <3>1, <3>2 DEF CalledStep
  <2> QED
    BY <2>1 DEF Going
<1>4. ASSUME NEW k \in Tasks PROVE Open(k)' <=> Open(k)
  BY <1>0, <1>1, <1>2, <1>3 DEF Open
<1> QED
  BY <1>0, <1>4 DEF OpenKeeps

LEMMA GoingAdds ==
    ASSUME Shape, NEW t \in Threads, NEW p, NEW j, Adds(t, p, j), p \notin {"run", "finish"}
    PROVE  \A u \in Threads : \A i \in Nat : \A k :
              (On(u, i, "run", k) \/ On(u, i, "finish", k))' <=>
              (On(u, i, "run", k) \/ On(u, i, "finish", k))
<1>1. \A u \in Threads : \A i \in Nat : \A a, k :
         /\ On(u, i, a, k) => On(u, i, a, k)'
         /\ On(u, i, a, k)' => On(u, i, a, k) \/ (u = t /\ i = Depth(t) + 1 /\ a = p /\ k = j)
  BY AddsBelow
<1> QED
  BY <1>1

\* A step opens or closes no task, or it spawns one, or finishes one.
LEMMA OpenSteps ==
    ASSUME PoolInv, [Next]_vars
    PROVE  \/ OpenKeeps
           \/ \E t \in Threads : Finish(t)
           \/ \E t \in Threads, k \in Tasks, how \in Kinds, g \in Groups : Spawn(t, k, how, g)
<1>0. Shape /\ runQueue \in Seq(Tasks)
  BY DEF PoolInv, OnTheWay
<1>k. ASSUME Keeps, UNCHANGED <<kind, ran, group, pending>> PROVE OpenKeeps
  BY <1>k, GoingKeeps DEF Keeps
<1>1. ASSUME \/ InitIds \/ InitThreads \/ SpawnThreadFails \/ Deinit
             \/ Stop \/ Broadcast \/ JoinThreads
      PROVE  OpenKeeps
  <2>1. UNCHANGED <<kind, ran, group, pending>>
    BY <1>1 DEF InitIds, InitThreads, SpawnThreadFails, Deinit, Stop, Broadcast,
       JoinThreads,
       taskVars
  <2>2. PICK p : BaseStep(Main, p)
    BY <1>0, <1>1, MainSteps
  <2> QED
    BY <1>k, <2>1, <2>2, WorkersFacts, KeepsOn
<1>2. ASSUME ManagerStarts \/ ManagerEnds PROVE OpenKeeps
  <2>1. UNCHANGED <<kind, ran, group, pending>>
    BY <1>2 DEF ManagerStarts, ManagerEnds, taskVars
  <2>2. PICK p : BaseStep(Manager, p)
    BY <1>0, <1>2, ManagerSteps
  <2> QED
    BY <1>k, <2>1, <2>2, WorkersFacts, KeepsOn
<1>3. ASSUME NEW w \in Workers, SpawnThread(w) PROVE OpenKeeps
  BY <1>k, <1>3, SpawnThreadKeeps
<1>4. ASSUME NEW w \in Workers, Awake(w) \/ AwakeSpuriously(w) PROVE OpenKeeps
  <2>1. UNCHANGED <<kind, ran, group, pending>>
    BY <1>4 DEF Awake, AwakeSpuriously, taskVars
  <2>2. Keeps
    BY <1>0, <1>4, WorkerSteps, WorkersFacts, KeepsOn
  <2> QED
    BY <1>k, <2>1, <2>2
<1>5. ASSUME NEW t \in Threads, NEW p, Pop(t, p), UNCHANGED <<kind, group, pending>>,
             \/ At(t) \in {"start", "loop"} /\ p = "loop"
             \/ At(t) = "work" /\ p = "poll"
      PROVE  OpenKeeps
  <2>1. Head(runQueue) \in Tasks /\ CalledStep(t, Head(runQueue))
    BY <1>5, PopCalls
  <2> QED
    BY <1>5, <2>1, GoingCalled
<1>6. ASSUME NEW w \in Workers, WorkerRuns(w) PROVE OpenKeeps
  <2>1. UNCHANGED <<kind, group, pending>> /\ At(w) \in {"start", "loop"} /\ w \in Threads
    BY <1>6, WorkersFacts DEF WorkerRuns, WorkerStarts, WorkerTurns
  <2>2. \/ Pop(w, "loop")
        \/ UNCHANGED ran /\ (BaseStep(w, "asleep") \/ BaseStep(w, "exited"))
    BY <1>0, <1>6, WorkerSteps DEF WorkerRuns
  <2> QED
    BY <1>k, <2>1, <2>2, <1>5, KeepsOn
<1>7. ASSUME NEW t \in Threads, NEW g \in Groups, WaitAndWork(t, g) PROVE OpenKeeps
  <2>1. Adds(t, "poll", g) /\ UNCHANGED <<kind, ran, group, pending>>
    BY <1>0, <1>7, AddsOn DEF WaitAndWork, AllPlaces, InWait, taskVars
  <2> QED
    BY <1>0, <2>1, GoingAdds, GoingKeeps
<1>8. ASSUME NEW t \in Threads, UNCHANGED <<kind, ran, group, pending>>,
             At(t) \in (InTask \cup InWait) \ {"run", "finish"},
             \/ Return(t)
             \/ Goto(t, "signal") /\ At(t) = "queue"
             \/ Goto(t, "work") /\ At(t) = "poll"
             \/ Goto(t, "await") /\ At(t) = "work"
      PROVE  OpenKeeps
  <2>1. \/ Drops(t)
        \/ Moves(t, "signal") \/ Moves(t, "work") \/ Moves(t, "await")
    BY <1>0, <1>8, MovesOn, DropsOn DEF InTask, InWait
  <2> QED
    BY <1>0, <1>8, <2>1, GoingTop, GoingKeeps
<1>9. ASSUME NEW t \in Threads,
             Enqueue(t) \/ Signal(t) \/ Destroy(t) \/ Poll(t) \/ Await(t)
      PROVE  OpenKeeps
  BY <1>8, <1>9 DEF Enqueue, Signal, Destroy, Poll, Await, taskVars, InTask, InWait
<1>10. ASSUME NEW t \in Threads, Work(t) PROVE OpenKeeps
  <2>1. CASE Pop(t, "poll")
    BY <1>5, <1>10, <2>1 DEF Work
  <2>2. CASE Goto(t, "await") /\ UNCHANGED ran
    BY <1>8, <1>10, <2>2 DEF Work, InWait
  <2> QED
    BY <1>10, <2>1, <2>2 DEF Work
<1>11. ASSUME NEW t \in Threads, EnqueueFails(t) PROVE OpenKeeps
  <2>0. Task(t) \in Tasks /\ Uncalled(Task(t)) /\ UNCHANGED <<group, pending>> /\ At(t) = "queue"
    BY <1>0, <1>11, TopFacts DEF EnqueueFails, InTask, PoolInv, OnTheWay, Queueing
  <2>1. CASE kind[Task(t)] # "plain"
    <3>1. CalledStep(t, Task(t))
      BY <1>0, <1>11, <2>0, <2>1, MovesOn DEF EnqueueFails, CalledStep, InTask
    <3> QED
      BY <2>0, <3>1, GoingCalled
  <2>2. CASE kind[Task(t)] = "plain"
    <3>1. Drops(t) /\ UNCHANGED ran /\ kind' = [kind EXCEPT ![Task(t)] = "refused"]
      BY <1>0, <1>11, <2>2, DropsOn DEF EnqueueFails, InTask
    <3>2. \A k \in Tasks : Going(k)' <=> Going(k)
      BY <1>0, <2>0, <3>1, GoingTop DEF Going
    <3> QED
      BY <2>0, <2>2, <3>1, <3>2 DEF OpenKeeps, Open, PoolInv, OnTheWay
  <2> QED
    BY <2>1, <2>2
<1>12. ASSUME UNCHANGED vars PROVE OpenKeeps
  <2>1. UNCHANGED <<kind, ran, group, pending, stack>>
    BY <1>12 DEF vars, taskVars
  <2>2. \A k : Going(k)' <=> Going(k)
    BY <2>1 DEF Going, On, Depth
  <2> QED
    BY <2>1, <2>2 DEF OpenKeeps, Open
<1> QED
  BY <1>1, <1>2, <1>3, <1>4, <1>6, <1>7, <1>9, <1>10, <1>11, <1>12, GoingReturns, <1>0
  DEF Next, MainRuns, TaskRuns

LEMMA OpenOfKeeps == ASSUME OpenKeeps, NEW g PROVE OpenOf(g)' = OpenOf(g)
<1>1. \A k \in Tasks : (group[k] = g /\ Open(k))' <=> (group[k] = g /\ Open(k))
  BY DEF OpenKeeps
<1> QED
  BY <1>1 DEF OpenOf

LEMMA CountedFinish ==
    ASSUME PoolInv, CallInv, Counted, NEW t \in Threads, Finish(t)
    PROVE  Counted'
<1> DEFINE j == Task(t)
<1>0. /\ Shape /\ At(t) = "finish" /\ j \in Tasks
      /\ Depth(t) \in Nat /\ On(t, Depth(t), "finish", j)
      /\ UNCHANGED <<kind, ran, group>> /\ (Drops(t) \/ Moves(t, "destroy"))
      /\ pending' = [pending EXCEPT ![group[j]] = @ - 1]
  BY OnTop, TopFacts, MovesOn, DropsOn DEF PoolInv, Finish, InTask
<1> HIDE DEF j
<1>1. In(t, Depth(t), j) /\ ran[j] = 1 /\ kind[j] # "plain" /\ group[j] \in Groups
  BY <1>0 DEF CallInv, Called, In, InUse, Own
<1>2. kind[j] \in {"wg", "wgid"}
  <2>1. kind[j] \in Kinds
    BY <1>0, <1>1 DEF PoolInv, OnTheWay
  <2>2. Kinds \subseteq {"wg", "wgid", "plain"}
    BY PoolAssumption
  <2> QED
    BY <1>1, <2>1, <2>2
<1>3. Open(j)
  BY <1>0, <1>2 DEF Open, Going
<1>4. ASSUME NEW u \in Threads, NEW i \in Nat, NEW k
      PROVE  \A a \in {"run", "finish"} : On(u, i, a, k)' <=> On(u, i, a, k) /\ k # j
  <2> TAKE a \in {"run", "finish"}
  <2>1. CASE u = t /\ i = Depth(t)
    <3>1. ~On(u, i, a, k)'
      BY <1>0, <2>1 DEF Drops, Moves
    <3>2. On(u, i, a, k) => k = j
      BY <1>0, <2>1, OneOn
    <3> QED
      BY <3>1, <3>2
  <2>2. CASE ~(u = t /\ i = Depth(t))
    <3>1. On(u, i, a, k)' <=> On(u, i, a, k)
      BY <1>0, <2>2 DEF Drops, Moves
    <3>2. ~On(u, i, a, j)
      BY <1>0, <1>1, <2>2 DEF CallInv, Single, In, InUse
    <3> QED
      BY <3>1, <3>2
  <2> QED
    BY <2>1, <2>2
<1>5. \A k : Going(k)' <=> Going(k) /\ k # j
  BY <1>4 DEF Going
<1>6. \A k \in Tasks : Open(k)' <=> Open(k) /\ k # j
  BY <1>0, <1>1, <1>5 DEF Open
<1>7. \A g \in Groups : OpenOf(g)' = OpenOf(g) \ {j}
  BY <1>0, <1>6 DEF OpenOf
<1>8. j \in OpenOf(group[j]) /\ \A g \in Groups : g # group[j] => j \notin OpenOf(g)
  BY <1>0, <1>3 DEF OpenOf
<1>9. ASSUME NEW g \in Groups
      PROVE  IsFiniteSet(OpenOf(g)') /\ pending'[g] = Cardinality(OpenOf(g)') /\ pending'[g] \in Nat
  <2>1. IsFiniteSet(OpenOf(g)) /\ pending[g] = Cardinality(OpenOf(g)) /\ pending[g] \in Nat
    BY DEF Counted
  <2>2. CASE g = group[j]
    <3>1. pending'[g] = pending[g] - 1
      BY <1>0, <2>2 DEF Counted
    <3>2. IsFiniteSet(OpenOf(g) \ {j}) /\ Cardinality(OpenOf(g) \ {j}) = Cardinality(OpenOf(g)) - 1
      BY <1>8, <2>1, <2>2, FS_RemoveElement
    <3>3. Cardinality(OpenOf(g) \ {j}) \in Nat
      BY <3>2, FS_CardinalityType
    <3> QED
      BY <1>7, <2>1, <3>1, <3>2, <3>3
  <2>3. CASE g # group[j]
    <3>1. pending'[g] = pending[g]
      BY <1>0, <2>3 DEF Counted
    <3>2. OpenOf(g)' = OpenOf(g)
      BY <1>7, <1>8, <2>3
    <3> QED
      BY <2>1, <3>1, <3>2
  <2> QED
    BY <2>2, <2>3
<1>10. pending' \in [Groups -> Nat]
  BY <1>0, <1>9 DEF Counted
<1> QED
  BY <1>9, <1>10 DEF Counted

LEMMA CountedSpawn ==
    ASSUME PoolInv, CallInv, Counted, NEW t \in Threads, NEW j \in Tasks, NEW how \in Kinds,
           NEW h \in Groups, Spawn(t, j, how, h)
    PROVE  Counted'
<1>0. /\ Shape /\ kind[j] = "new" /\ UNCHANGED ran /\ ran[j] = 0
      /\ kind' = [kind EXCEPT ![j] = how] /\ group' = [group EXCEPT ![j] = h]
      /\ pending' = [pending EXCEPT ![h] = IF how = "plain" THEN @ ELSE @ + 1]
      /\ group \in [Tasks -> Groups] /\ kind \in [Tasks -> Kinds \cup {"new", "refused"}]
  BY KindFacts DEF PoolInv, Spawn, OnTheWay, CallInv, Own
<1>1. Adds(t, "queue", j)
  BY <1>0, AddsOn DEF Spawn, Groups, AllPlaces, InTask
<1>2. \A k : Going(k)' <=> Going(k)
  BY <1>0, <1>1, GoingAdds DEF Going
<1>3. \A k \in Tasks \ {j} : kind'[k] = kind[k] /\ group'[k] = group[k]
  BY <1>0
<1>4. kind'[j] = how /\ group'[j] = h /\ ~Open(j)
  BY <1>0, KindFacts DEF Open
<1>5. \A k \in Tasks \ {j} : (group[k]' = group[k]) /\ (Open(k)' <=> Open(k))
  BY <1>0, <1>2, <1>3 DEF Open
<1>6. Open(j)' <=> how # "plain"
  BY <1>0, <1>4, PoolAssumption DEF Open
<1>7. ASSUME NEW g \in Groups
      PROVE  OpenOf(g)' = IF g = h /\ how # "plain" THEN OpenOf(g) \cup {j} ELSE OpenOf(g)
  <2>1. j \in OpenOf(g)' <=> g = h /\ how # "plain"
    BY <1>4, <1>6 DEF OpenOf
  <2>2. \A k \in Tasks \ {j} : k \in OpenOf(g)' <=> k \in OpenOf(g)
    BY <1>5 DEF OpenOf
  <2>3. OpenOf(g)' \subseteq Tasks /\ OpenOf(g) \subseteq Tasks /\ j \notin OpenOf(g)
    BY <1>4 DEF OpenOf
  <2> HIDE DEF OpenOf
  <2> QED
    BY <2>1, <2>2, <2>3
<1>8. \A g \in Groups : j \notin OpenOf(g)
  BY <1>4 DEF OpenOf
<1>9. ASSUME NEW g \in Groups
      PROVE  IsFiniteSet(OpenOf(g)') /\ pending'[g] = Cardinality(OpenOf(g)') /\ pending'[g] \in Nat
  <2>1. IsFiniteSet(OpenOf(g)) /\ pending[g] = Cardinality(OpenOf(g)) /\ pending[g] \in Nat
    BY DEF Counted
  <2>2. CASE g = h /\ how # "plain"
    <3>1. pending'[g] = pending[g] + 1
      BY <1>0, <2>2 DEF Counted
    <3>2. /\ IsFiniteSet(OpenOf(g) \cup {j})
          /\ Cardinality(OpenOf(g) \cup {j}) = Cardinality(OpenOf(g)) + 1
      BY <1>8, <2>1, FS_AddElement
    <3>3. OpenOf(g)' = OpenOf(g) \cup {j}
      BY <1>7, <2>2
    <3>4. pending'[g] \in Nat /\ pending'[g] = Cardinality(OpenOf(g) \cup {j})
      BY <2>1, <3>1, <3>2
    <3> QED
      BY <3>2, <3>3, <3>4
  <2>3. CASE ~(g = h /\ how # "plain")
    <3>1. pending'[g] = pending[g]
      BY <1>0, <2>3 DEF Counted
    <3> QED
      BY <1>7, <2>1, <2>3, <3>1
  <2> QED
    BY <2>2, <2>3
<1>10. pending' \in [Groups -> Nat]
  BY <1>0, <1>9 DEF Counted
<1> QED
  BY <1>9, <1>10 DEF Counted

LEMMA CountedNext == ASSUME PoolInv, CallInv, Counted, [Next]_vars PROVE Counted'
<1>1. ASSUME OpenKeeps PROVE Counted'
  <2>1. UNCHANGED pending /\ \A g \in Groups : OpenOf(g)' = OpenOf(g)
    BY <1>1, OpenOfKeeps DEF OpenKeeps
  <2> QED
    BY <2>1 DEF Counted
<1> QED
  BY <1>1, OpenSteps, CountedFinish, CountedSpawn

LEMMA CountedInit == Init => Counted
<1> SUFFICES ASSUME Init PROVE Counted
  OBVIOUS
<1>1. \A g \in Groups : OpenOf(g) = {}
  BY DEF Init, OpenOf, Open
<1> QED
  BY <1>1, FS_EmptySet DEF Counted, Init

LEMMA UnfinishedOpen == ASSUME PoolInv, CallInv, NEW g PROVE Unfinished(g) = OpenOf(g)
<1>0. Shape /\ OnTheWay
  BY DEF PoolInv
<1>1. ASSUME NEW k \in Tasks, kind[k] \in {"wg", "wgid"}, ran[k] = 0
      PROVE  \/ \E i \in DOMAIN runQueue : runQueue[i] = k
             \/ \E t \in Threads : \E i \in DOMAIN stack[t] :
                   stack[t][i].task = k /\ stack[t][i].at \in {"queue", "run", "finish"}
  <2>1. Uncalled(k)
    BY <1>0, <1>1 DEF OnTheWay, Uncalled
  <2>2. ASSUME NEW t \in Threads, Queueing(t, k)
        PROVE  \E i \in DOMAIN stack[t] : stack[t][i].task = k /\ stack[t][i].at = "queue"
    <3>1. /\ Depth(t) \in DOMAIN stack[t]
          /\ stack[t][Depth(t)].task = k /\ stack[t][Depth(t)].at = "queue"
      BY <1>0, <2>2, TopFacts DEF Queueing, Depth
    <3> QED
      BY <3>1
  <2> QED
    BY <1>0, <2>1, <2>2 DEF OnTheWay
<1>2. ASSUME NEW k \in Tasks, Going(k)
      PROVE  \E t \in Threads : \E i \in DOMAIN stack[t] :
                   stack[t][i].task = k /\ stack[t][i].at \in {"queue", "run", "finish"}
  <2>1. PICK t \in Threads, i \in Nat : On(t, i, "run", k) \/ On(t, i, "finish", k)
    BY <1>2 DEF Going
  <2>2. i \in DOMAIN stack[t] /\ stack[t][i].task = k /\ stack[t][i].at \in {"run", "finish"}
    BY <1>0, <2>1, TopFacts DEF On, Depth
  <2> QED
    BY <2>2
<1>3. ASSUME NEW k \in Tasks, NEW i \in DOMAIN runQueue, runQueue[i] = k PROVE ran[k] = 0
  BY <1>0, <1>3 DEF OnTheWay, Uncalled
<1>4. ASSUME NEW k \in Tasks, NEW t \in Threads, NEW i \in DOMAIN stack[t],
             stack[t][i].task = k, stack[t][i].at \in {"queue", "run", "finish"}
      PROVE  ran[k] = 0 \/ Going(k)
  <2>0. i \in 1 .. Depth(t) /\ Depth(t) \in Nat
    BY <1>0, <1>4, TopFacts DEF Depth
  <2>1. i # 1
    <3>1. Base(t) \notin {"queue", "run", "finish"}
      BY <1>0 DEF Shape, Places, MainPlaces, ManagerPlaces, WorkerPlaces
    <3> QED
      BY <1>4, <3>1 DEF Base
  <2>2. On(t, i, stack[t][i].at, k) /\ i \in Nat
    BY <1>4, <2>0, <2>1 DEF On
  <2> QED
    BY <1>4, <2>2, QueueOn DEF Going, Uncalled
<1> QED
  BY <1>1, <1>2, <1>3, <1>4 DEF Unfinished, OpenOf, Open

LEMMA CountedExact == ASSUME PoolInv, CallInv, Counted PROVE GroupsExact
  BY UnfinishedOpen DEF Counted, GroupsExact

-----------------------------------------------------------------------------
(***************************************************************************)
(* The condition.  Who sleeps, who has a call of signal to make, and who   *)
(* will look at the queue anyway: of those and the reserved signals there  *)
(* are at least as many as tasks in the queue, as long as somebody sleeps  *)
(* without a signal.  When the pool stops all sleepers are signaled.       *)
(***************************************************************************)
Sleepers == {w \in Workers : At(w) = "asleep"}
Tellers == {t \in Threads : At(t) = "signal"}
Rising == {w \in Workers : At(w) \in {"start", "loop"}}

Aside == {"asleep", "signal", "broadcast", "errbroadcast"}
Apart ==
    /\ UNCHANGED condVars
    /\ \A t \in Threads : At(t)' = At(t) \/ (At(t) \notin Aside /\ At(t)' \notin Aside)

\* the queue gets no longer for those that will look at it
Cares ==
    \/ runQueue = <<>> /\ UNCHANGED runQueue
    \/ /\ UNCHANGED runQueue
       /\ \A w \in Workers : At(w) \in {"start", "loop"} => At(w)' \in {"start", "loop"}
    \/ \E t \in Threads :
          /\ runQueue # <<>> /\ runQueue' = Tail(runQueue)
          /\ \A w \in Workers \ {t} : At(w) \in {"start", "loop"} => At(w)' \in {"start", "loop"}

FallsAsleep(w) ==
    /\ At(w) \in {"start", "loop"} /\ BaseStep(w, "asleep")
    /\ runQueue = <<>> /\ UNCHANGED runQueue /\ isRunning
    /\ waiters' = waiters + 1 /\ UNCHANGED signals

Stopping == {"broadcast", "errbroadcast", "joining", "errjoining", "gone"}
Stopped == Base(Main) \in Stopping => ~isRunning

LEMMA CallApart ==
    ASSUME Shape, NEW t \in Threads, CallStep(t), UNCHANGED condVars,
           At(t) \in {"main", "manager"} \cup InTask \cup InWait,
           At(t) # "signal", At(t)' \notin Aside
    PROVE  /\ Apart
           /\ \A w \in Workers : At(w) \in {"start", "loop"} => At(w)' \in {"start", "loop"}
<1>1. \A u \in Threads \ {t} : At(u)' = At(u)
  BY DEF CallStep, OthersKeep
<1>2. At(t) \notin Aside /\ At(t) \notin {"start", "loop"}
  BY DEF Aside, InTask, InWait
<1> QED
  BY <1>1, <1>2, WorkersFacts DEF Apart

LEMMA BaseApart ==
    ASSUME NEW t \in Threads, NEW p, BaseStep(t, p), UNCHANGED <<condVars, runQueue>>,
           At(t) \notin Aside, p \notin Aside,
           At(t) \notin {"start", "loop"} \/ runQueue = <<>>
    PROVE  Apart /\ Cares
<1>1. (\A u \in Threads \ {t} : At(u)' = At(u)) /\ At(t)' = p
  BY DEF BaseStep, OthersKeep
<1> QED
  BY <1>1, WorkersFacts DEF Apart, Cares

LEMMA PopApart ==
    ASSUME Shape, runQueue \in Seq(Tasks), NEW t \in Threads, NEW p, Pop(t, p), UNCHANGED signals,
           \/ At(t) \in {"start", "loop"} /\ p = "loop"
           \/ At(t) = "work" /\ p = "poll"
    PROVE  Apart /\ Cares
<1>1. (\A u \in Threads \ {t} : At(u)' = At(u)) /\ At(t)' = "run"
  BY TaskPopped DEF OthersKeep
<1>2. runQueue # <<>> /\ runQueue' = Tail(runQueue) /\ UNCHANGED condVars
  BY DEF Pop, condVars
<1> QED
  BY <1>1, <1>2, WorkersFacts DEF Apart, Cares, Aside

\* What each step is for the condition.
LEMMA CondSteps ==
    ASSUME PoolInv, [Next]_vars
    PROVE  \/ Apart /\ Cares
           \/ \E w \in Workers : FallsAsleep(w)
           \/ \E w \in Workers : (Awake(w) \/ AwakeSpuriously(w)) /\ BaseStep(w, "loop")
           \/ \E t \in Threads : Enqueue(t) /\ OthersKeep(t) /\ At(t)' = "signal"
           \/ \E t \in Threads : Signal(t) /\ OthersKeep(t) /\ At(t)' \in Calling
           \/ Stop \/ Broadcast
<1> DEFINE Goal ==
           \/ Apart /\ Cares
           \/ \E w \in Workers : FallsAsleep(w)
           \/ \E w \in Workers : (Awake(w) \/ AwakeSpuriously(w)) /\ BaseStep(w, "loop")
           \/ \E t \in Threads : Enqueue(t) /\ OthersKeep(t) /\ At(t)' = "signal"
           \/ \E t \in Threads : Signal(t) /\ OthersKeep(t) /\ At(t)' \in Calling
           \/ Stop \/ Broadcast
<1>0. Shape /\ OnTheWay /\ runQueue \in Seq(Tasks)
  BY DEF PoolInv, OnTheWay
<1>1. ASSUME InitIds \/ InitThreads \/ SpawnThreadFails \/ Deinit \/ JoinThreads
      PROVE  Apart /\ Cares
  <2>1. UNCHANGED <<condVars, runQueue>>
    BY <1>1 DEF InitIds, InitThreads, SpawnThreadFails, Deinit, JoinThreads, poolVars
  <2>2. PICK p \in MainPlaces \ Aside : BaseStep(Main, p)
    BY <1>0, <1>1, MainSteps DEF Aside, MainPlaces
  <2>3. At(Main) \notin Aside /\ At(Main) \notin {"start", "loop"}
    BY <1>0, <1>1, MainSteps DEF Aside
  <2> QED
    BY <2>1, <2>2, <2>3, WorkersFacts, BaseApart
<1>2. ASSUME ManagerStarts \/ ManagerEnds PROVE Apart /\ Cares
  <2>1. UNCHANGED <<condVars, runQueue>>
    BY <1>2 DEF ManagerStarts, ManagerEnds, poolVars
  <2>2. PICK p \in ManagerPlaces \ Aside : BaseStep(Manager, p)
    BY <1>0, <1>2, ManagerSteps DEF Aside, ManagerPlaces
  <2>3. At(Manager) \notin Aside /\ At(Manager) \notin {"start", "loop"}
    BY <1>0, <1>2, ManagerSteps DEF Aside
  <2> QED
    BY <2>1, <2>2, <2>3, WorkersFacts, BaseApart
<1>3. ASSUME NEW w \in Workers, SpawnThread(w) PROVE Apart /\ Cares
  <2>1. UNCHANGED <<condVars, runQueue>> /\ At(Main) = "spawning"
    BY <1>3 DEF SpawnThread
  <2>2. \E u \in Workers : At(u) = "unborn"
    BY <2>1, SomeUnborn, TopFacts, WorkersFacts DEF PoolInv, InTask, InWait
  <2>3. /\ At(w) = "unborn" /\ At(w)' = "start" /\ At(Main)' \in {"main", "spawning"}
        /\ \A u \in Threads \ {w, Main} : At(u)' = At(u)
    BY <1>0, <1>3, <2>2, SpawnThreadStep
  <2> QED
    BY <2>1, <2>3, WorkersFacts DEF Apart, Cares, Aside
<1>4. ASSUME NEW w \in Workers, Awake(w) \/ AwakeSpuriously(w) PROVE Goal
  BY <1>0, <1>4, WorkerSteps
<1>5. ASSUME NEW w \in Workers, WorkerRuns(w) PROVE Goal
  <2>1. At(w) \in {"start", "loop"} /\ Turn(w) /\ w \in Threads /\ Places(w) = WorkerPlaces
    BY <1>5, WorkersFacts DEF WorkerRuns, WorkerStarts, WorkerTurns, Places
  <2>2. UNCHANGED signals
    BY <1>5 DEF WorkerRuns, WorkerStarts, WorkerTurns
  <2>3. CASE Pop(w, "loop")
    BY <1>0, <2>1, <2>2, <2>3, PopApart
  <2>4. CASE /\ runQueue = <<>> /\ isRunning /\ waiters' = waiters + 1
             /\ Goto(w, "asleep") /\ UNCHANGED <<runQueue, ran>>
    <3>1. BaseStep(w, "asleep")
      BY <1>0, <2>1, <2>4, BaseSteps DEF WorkerPlaces, InTask, InWait
    <3> QED
      BY <2>1, <2>2, <2>4, <3>1 DEF FallsAsleep
  <2>5. CASE /\ runQueue = <<>> /\ ~isRunning
             /\ Goto(w, "exited") /\ UNCHANGED <<runQueue, ran, waiters>>
    <3>1. BaseStep(w, "exited")
      BY <1>0, <2>1, <2>5, BaseSteps DEF WorkerPlaces, InTask, InWait
    <3> QED
      BY <2>1, <2>2, <2>5, <3>1, BaseApart DEF condVars, Aside
  <2> QED
    BY <2>1, <2>3, <2>4, <2>5 DEF Turn
<1>6. ASSUME NEW t \in Threads, NEW k \in Tasks, NEW how \in Kinds, NEW g \in Groups,
             Spawn(t, k, how, g)
      PROVE  Apart /\ Cares
  <2>1. CallStep(t) /\ At(t) \in {"main", "manager", "run"} /\ At(t)' = "queue"
    BY <1>0, <1>6, SpawnStep
  <2>2. UNCHANGED <<condVars, runQueue>>
    BY <1>6 DEF Spawn, poolVars
  <2> QED
    BY <1>0, <2>1, <2>2, CallApart DEF Cares, InTask, Aside
<1>7. ASSUME NEW t \in Threads, NEW g \in Groups, WaitAndWork(t, g) PROVE Apart /\ Cares
  <2>1. Call(t, "poll", g) /\ At(t) \in {"main", "run"} /\ UNCHANGED <<condVars, runQueue>>
    BY <1>7 DEF WaitAndWork, poolVars
  <2>2. CallStep(t) /\ At(t)' = "poll"
    BY <1>0, <1>7, <2>1, WaitAndWorkStep, CallMade DEF Calling, InWait
  <2> QED
    BY <1>0, <2>1, <2>2, CallApart DEF Cares, InTask, Aside
<1>8. ASSUME NEW t \in Threads, NEW p \in (InTask \cup InWait) \ {"signal"}, Goto(t, p),
             (At(t) \in InTask \ {"signal"} /\ p \in InTask) \/ (At(t) \in InWait /\ p \in InWait),
             UNCHANGED <<condVars, runQueue>>
      PROVE  Apart /\ Cares
  <2>1. CallStep(t) /\ At(t)' = p
    BY <1>0, <1>8, GotoStep
  <2>2. p \notin Aside /\ At(t) # "signal"
    BY <1>8 DEF Aside, InTask, InWait
  <2> QED
    BY <1>0, <1>8, <2>1, <2>2, CallApart DEF Cares
<1>9. ASSUME NEW t \in Threads, Return(t), At(t) \in (InTask \cup InWait) \ {"signal"},
             UNCHANGED <<condVars, runQueue>>
      PROVE  Apart /\ Cares
  <2>1. CallStep(t) /\ At(t)' \in Calling
    BY <1>0, <1>9, ReturnStep
  <2>2. At(t)' \notin Aside
    BY <2>1 DEF Aside, Calling
  <2> QED
    BY <1>0, <1>9, <2>1, <2>2, CallApart DEF Cares
<1>10. ASSUME NEW t \in Threads, Enqueue(t) PROVE OthersKeep(t) /\ At(t)' = "signal"
  BY <1>0, <1>10, GotoStep, EnqueueStep DEF Enqueue, CallStep, InTask
<1>11. ASSUME NEW t \in Threads, Signal(t) PROVE OthersKeep(t) /\ At(t)' \in Calling
  BY <1>0, <1>11, ReturnStep DEF Signal, CallStep, InTask
<1>12. ASSUME NEW t \in Threads,
              \/ EnqueueFails(t) \/ Finish(t) \/ Destroy(t) \/ Poll(t) \/ Await(t)
              \/ FunctionReturns(t)
       PROVE  Apart /\ Cares
  <2>1. UNCHANGED <<condVars, runQueue>>
    BY <1>12 DEF EnqueueFails, Finish, Destroy, Poll, Await, FunctionReturns, poolVars
  <2>2. At(t) \in (InTask \cup InWait) \ {"signal"}
    BY <1>12 DEF EnqueueFails, Finish, Destroy, Poll, Await, FunctionReturns, InTask, InWait
  <2>3. \/ Return(t)
        \/ \E p \in (InTask \cup InWait) \ {"signal"} :
              Goto(t, p) /\ ((At(t) \in InTask \ {"signal"} /\ p \in InTask)
                             \/ (At(t) \in InWait /\ p \in InWait))
    BY <1>12 DEF EnqueueFails, Finish, Destroy, Poll, Await, FunctionReturns, InTask, InWait
  <2> QED
    BY <1>8, <1>9, <2>1, <2>2, <2>3
<1>13. ASSUME NEW t \in Threads, Work(t) PROVE Apart /\ Cares
  <2>1. At(t) = "work" /\ UNCHANGED signals
    BY <1>13 DEF Work
  <2>2. CASE Pop(t, "poll")
    BY <1>0, <2>1, <2>2, PopApart
  <2>3. CASE runQueue = <<>> /\ Goto(t, "await") /\ UNCHANGED <<runQueue, ran, waiters>>
    BY <1>8, <2>1, <2>3 DEF InTask, InWait, condVars
  <2> QED
    BY <1>13, <2>2, <2>3 DEF Work
<1>14. ASSUME UNCHANGED vars PROVE Apart /\ Cares
  <2>1. UNCHANGED <<condVars, stack, runQueue>>
    BY <1>14 DEF vars, condVars, poolVars
  <2> QED
    BY <2>1 DEF Apart, Cares, At, condVars
<1>15. ASSUME NEW t \in Threads, TaskRuns(t) \/ FunctionReturns(t) PROVE Goal
  BY <1>10, <1>11, <1>12, <1>13, <1>15 DEF TaskRuns
<1> HIDE DEF Goal
<1>16. Apart /\ Cares => Goal
  BY DEF Goal
<1>17. Stop \/ Broadcast => Goal
  BY DEF Goal
<1>18. Goal
  BY <1>1, <1>2, <1>3, <1>4, <1>5, <1>6, <1>7, <1>14, <1>15, <1>16, <1>17 DEF Next, MainRuns
<1> QED
  BY <1>18 DEF Goal

Told ==
    /\ waiters = Cardinality(Sleepers) /\ signals \in Nat /\ signals <= waiters
    /\ waiters > signals =>
          Len(runQueue) <= signals + Cardinality(Tellers) + Cardinality(Rising)
    /\ Base(Main) \in {"joining", "errjoining", "gone"} => waiters <= signals

\* cardinalities: the sets of threads are finite, and steps change them by one thread
LEMMA ThreadSets ==
    /\ IsFiniteSet(Sleepers) /\ IsFiniteSet(Tellers) /\ IsFiniteSet(Rising)
    /\ IsFiniteSet(Sleepers') /\ IsFiniteSet(Tellers') /\ IsFiniteSet(Rising')
    /\ Cardinality(Sleepers) \in Nat /\ Cardinality(Tellers) \in Nat /\ Cardinality(Rising) \in Nat
    /\ Cardinality(Sleepers') \in Nat /\ Cardinality(Tellers') \in Nat
    /\ Cardinality(Rising') \in Nat
<1>1. /\ IsFiniteSet(Workers) /\ IsFiniteSet(Workers \cup {Main})
      /\ IsFiniteSet((Workers \cup {Main}) \cup {Manager})
  BY WorkersFacts, FS_AddElement
<1>2. Threads = (Workers \cup {Main}) \cup {Manager}
  BY DEF Threads
<1>3. IsFiniteSet(Threads)
  BY <1>1, <1>2
<1>4. /\ Sleepers \subseteq Workers /\ Rising \subseteq Workers /\ Tellers \subseteq Threads
      /\ Sleepers' \subseteq Workers /\ Rising' \subseteq Workers /\ Tellers' \subseteq Threads
  BY DEF Sleepers, Rising, Tellers
<1>5. /\ IsFiniteSet(Sleepers) /\ IsFiniteSet(Tellers) /\ IsFiniteSet(Rising)
      /\ IsFiniteSet(Sleepers') /\ IsFiniteSet(Tellers') /\ IsFiniteSet(Rising')
  BY <1>1, <1>3, <1>4, FS_Subset
<1> QED
  BY <1>5, FS_CardinalityType

LEMMA AtMostOneLess ==
    ASSUME NEW S, NEW T, NEW x, IsFiniteSet(S), IsFiniteSet(T), S \ {x} \subseteq T
    PROVE  Cardinality(S) <= Cardinality(T) + 1
<1>1. Cardinality(S) \in Nat /\ Cardinality(T) \in Nat /\ IsFiniteSet(S \ {x})
  BY FS_CardinalityType, FS_Subset
<1>2. Cardinality(S \ {x}) <= Cardinality(T) /\ Cardinality(S \ {x}) \in Nat
  BY <1>1, FS_Subset, FS_CardinalityType
<1>3. x \in S => Cardinality(S \ {x}) = Cardinality(S) - 1
  BY FS_RemoveElement
<1>4. x \notin S => S \ {x} = S
  OBVIOUS
<1> QED
  BY <1>1, <1>2, <1>3, <1>4

LEMMA OneMore ==
    ASSUME NEW S, NEW T, NEW x, IsFiniteSet(S), x \notin S, T = S \cup {x}
    PROVE  Cardinality(T) = Cardinality(S) + 1
  BY FS_AddElement

LEMMA ToldInit == Init => Told
<1> SUFFICES ASSUME Init PROVE Told
  OBVIOUS
<1>1. \A w \in Workers : At(w) # "asleep"
  BY WorkersFacts DEF Init, At, Last, Frame
<1>2. Sleepers = {}
  BY <1>1 DEF Sleepers
<1>3. Base(Main) = "init"
  BY WorkersFacts DEF Init, Base, Frame
<1> QED
  BY <1>2, <1>3, FS_EmptySet DEF Told, Init

\* Who moves Main's own frame, and who stops the pool.
LEMMA MainBase ==
    ASSUME PoolInv, [Next]_vars
    PROVE  \/ InitIds \/ InitThreads \/ SpawnThreadFails \/ Deinit
           \/ Stop \/ Broadcast \/ JoinThreads
           \/ UNCHANGED isRunning /\ Base(Main)' \in {Base(Main), "main", "spawning"}
<1> DEFINE Same == UNCHANGED isRunning /\ Base(Main)' \in {Base(Main), "main", "spawning"}
<1>0. Shape /\ OnTheWay /\ runQueue \in Seq(Tasks)
  BY DEF PoolInv, OnTheWay
<1>1. ASSUME NEW t \in Threads, CallStep(t), UNCHANGED isRunning PROVE Same
  BY <1>1, WorkersFacts DEF CallStep, OthersKeep
<1>2. ASSUME NEW t \in Threads \ {Main}, OthersKeep(t), UNCHANGED isRunning PROVE Same
  BY <1>2, WorkersFacts DEF OthersKeep
<1>3. ASSUME ManagerStarts \/ ManagerEnds PROVE Same
  <2>1. UNCHANGED isRunning
    BY <1>3 DEF ManagerStarts, ManagerEnds, poolVars
  <2> QED
    BY <1>0, <1>2, <1>3, <2>1, ManagerSteps, WorkersFacts DEF BaseStep
<1>4. ASSUME NEW w \in Workers, SpawnThread(w) PROVE Same
  <2>1. UNCHANGED isRunning /\ At(Main) = "spawning"
    BY <1>4 DEF SpawnThread
  <2>2. \E u \in Workers : At(u) = "unborn"
    BY <2>1, SomeUnborn, TopFacts, WorkersFacts DEF PoolInv, InTask, InWait
  <2>3. Base(Main)' \in {"main", "spawning"}
    BY <1>0, <1>4, <2>2, SpawnThreadStep
  <2> QED
    BY <2>1, <2>3
<1>5. ASSUME NEW w \in Workers, WorkerRuns(w) \/ Awake(w) \/ AwakeSpuriously(w) PROVE Same
  <2>1. UNCHANGED isRunning /\ w \in Threads \ {Main}
    BY <1>5, WorkersFacts DEF WorkerRuns, WorkerStarts, WorkerTurns, Awake,
       AwakeSpuriously, poolVars
  <2>2. OthersKeep(w)
    BY <1>0, <1>5, <2>1, WorkerSteps, TaskPopped DEF WorkerRuns, BaseStep
  <2> QED
    BY <1>2, <2>1, <2>2
<1>6. ASSUME NEW t \in Threads, TaskRuns(t) \/ FunctionReturns(t) PROVE Same
  <2>1. UNCHANGED isRunning
    BY <1>6 DEF TaskRuns, Enqueue, EnqueueFails, Signal, Finish, Destroy, Poll, Work, Await,
       FunctionReturns, poolVars
  <2>2. CallStep(t)
    BY <1>0, <1>6, QuietSteps, EnqueueStep, EnqueueFailsStep, FinishStep, DestroyStep,
       WorkStep
    DEF TaskRuns
  <2> QED
    BY <1>1, <2>1, <2>2
<1>7. ASSUME NEW t \in Threads, NEW k \in Tasks, NEW how \in Kinds, NEW g \in Groups,
             Spawn(t, k, how, g)
      PROVE  Same
  BY <1>0, <1>1, <1>7, SpawnStep DEF Spawn, poolVars
<1>8. ASSUME NEW t \in Threads, NEW g \in Groups, WaitAndWork(t, g) PROVE Same
  BY <1>0, <1>1, <1>8, WaitAndWorkStep DEF WaitAndWork, poolVars
<1>9. ASSUME UNCHANGED vars PROVE Same
  BY <1>9 DEF vars, poolVars, Base
<1> HIDE DEF Same
<1>10. \/ Same \/ InitIds \/ InitThreads \/ SpawnThreadFails \/ Deinit
       \/ Stop \/ Broadcast \/ JoinThreads
  BY <1>3, <1>4, <1>5, <1>6, <1>7, <1>8, <1>9 DEF Next, MainRuns
<1> QED
  BY <1>10 DEF Same

LEMMA MainJoins ==
    ASSUME PoolInv, [Next]_vars, ~Broadcast,
           Base(Main)' \in {"joining", "errjoining", "gone"}
    PROVE  Base(Main) \in {"joining", "errjoining", "gone"}
<1>1. Shape
  BY DEF PoolInv
<1>2. ASSUME InitIds \/ InitThreads \/ SpawnThreadFails \/ Deinit \/ Stop \/ JoinThreads
      PROVE  Base(Main) \in {"joining", "errjoining", "gone"}
  BY <1>1, <1>2, MainSteps DEF BaseStep
<1> QED
  BY <1>2, MainBase

LEMMA StoppedNext == ASSUME PoolInv, Stopped, [Next]_vars PROVE Stopped'
<1>0. Shape
  BY DEF PoolInv
<1>1. CASE Stop
  BY <1>1 DEF Stop, Stopped
<1>2. CASE InitIds \/ InitThreads \/ SpawnThreadFails \/ Deinit
  BY <1>0, <1>2, MainSteps DEF BaseStep, Stopped, Stopping
<1>3. CASE Broadcast \/ JoinThreads
  <2>1. UNCHANGED isRunning
    BY <1>3 DEF Broadcast, JoinThreads, poolVars
  <2>2. Base(Main) \in Stopping \cup {"broadcast"}
    BY <1>0, <1>3, MainSteps DEF BaseStep, Stopping
  <2> QED
    BY <2>1, <2>2 DEF Stopped, Stopping
<1>4. CASE UNCHANGED isRunning /\ Base(Main)' \in {Base(Main), "main", "spawning"}
  BY <1>4 DEF Stopped, Stopping
<1> QED
  BY <1>1, <1>2, <1>3, <1>4, MainBase

LEMMA StoppedInit == Init => Stopped
  BY WorkersFacts DEF Init, Base, Frame, Stopped, Stopping

LEMMA ToldApart ==
    ASSUME PoolInv, Told, [Next]_vars, ~Broadcast, Apart, Cares
    PROVE  Told'
<1>0. runQueue \in Seq(Tasks)
  BY DEF PoolInv, OnTheWay
<1>1. UNCHANGED <<waiters, signals>> /\ Sleepers' = Sleepers /\ Tellers' = Tellers
  BY WorkersFacts DEF Apart, condVars, Sleepers, Tellers, Aside
<1>2. ASSUME waiters > signals
      PROVE  Len(runQueue') <= signals + Cardinality(Tellers) + Cardinality(Rising')
  <2>1. CASE runQueue = <<>> /\ UNCHANGED runQueue
    <3>1. Len(runQueue') = 0
      BY <2>1
    <3> QED
      BY <1>1, <3>1, ThreadSets DEF Told
  <2>2. CASE UNCHANGED runQueue /\
             \A w \in Workers : At(w) \in {"start", "loop"} => At(w)' \in {"start", "loop"}
    <3>1. Rising \subseteq Rising'
      BY <2>2 DEF Rising
    <3>2. Cardinality(Rising) <= Cardinality(Rising')
      BY <3>1, ThreadSets, FS_Subset
    <3>3. Len(runQueue) \in Nat
      BY <1>0
    <3> QED
      BY <1>2, <2>2, <3>2, <3>3, ThreadSets DEF Told
  <2>3. ASSUME NEW t \in Threads, runQueue # <<>>, runQueue' = Tail(runQueue),
               \A w \in Workers \ {t} : At(w) \in {"start", "loop"} => At(w)' \in {"start", "loop"}
        PROVE  Len(runQueue') <= signals + Cardinality(Tellers) + Cardinality(Rising')
    <3>1. Rising \ {t} \subseteq Rising'
      BY <2>3 DEF Rising
    <3>2. Cardinality(Rising) <= Cardinality(Rising') + 1
      BY <3>1, ThreadSets, AtMostOneLess
    <3>3. Len(runQueue) \in Nat /\ Len(runQueue') = Len(runQueue) - 1
      BY <1>0, <2>3
    <3> QED
      BY <1>2, <3>2, <3>3, ThreadSets DEF Told
  <2> QED
    BY <2>1, <2>2, <2>3 DEF Cares
<1> QED
  BY <1>1, <1>2, MainJoins DEF Told

LEMMA ToldSleeps ==
    ASSUME PoolInv, Told, Stopped, NEW w \in Workers, FallsAsleep(w)
    PROVE  Told'
<1>1. w \notin Sleepers /\ Sleepers' = Sleepers \cup {w}
  BY WorkersFacts DEF FallsAsleep, BaseStep, OthersKeep, Sleepers
<1>2. Cardinality(Sleepers') = Cardinality(Sleepers) + 1
  BY <1>1, ThreadSets, OneMore
<1>3. Len(runQueue') = 0
  BY DEF FallsAsleep
<1>4. Base(Main)' = Base(Main) /\ isRunning
  BY WorkersFacts DEF FallsAsleep, BaseStep, OthersKeep
<1> QED
  BY <1>2, <1>3, <1>4, ThreadSets DEF Told, FallsAsleep, Stopped, Stopping

LEMMA ToldWakes ==
    ASSUME PoolInv, Told, NEW w \in Workers, Awake(w) \/ AwakeSpuriously(w), BaseStep(w, "loop")
    PROVE  Told'
<1>1. At(w) = "asleep" /\ At(w)' = "loop" /\ \A u \in Threads \ {w} : At(u)' = At(u)
  BY DEF Awake, AwakeSpuriously, BaseStep, OthersKeep
<1>2. w \in Sleepers /\ Sleepers' = Sleepers \ {w}
  BY <1>1, WorkersFacts DEF Sleepers
<1>3. Cardinality(Sleepers') = Cardinality(Sleepers) - 1
  BY <1>2, ThreadSets, FS_RemoveElement
<1>4. w \notin Rising /\ Rising' = Rising \cup {w} /\ Tellers' = Tellers
  BY <1>1, WorkersFacts DEF Rising, Tellers
<1>5. Cardinality(Rising') = Cardinality(Rising) + 1
  BY <1>4, ThreadSets, OneMore
<1>6. UNCHANGED runQueue /\ waiters' = waiters - 1 /\
      \/ signals > 0 /\ signals' = signals - 1
      \/ signals < waiters /\ UNCHANGED signals
  BY DEF Awake, AwakeSpuriously, poolVars
<1>7. Base(Main)' = Base(Main)
  BY WorkersFacts DEF BaseStep, OthersKeep
<1>8. Len(runQueue) \in Nat
  BY DEF PoolInv, OnTheWay
<1> QED
  BY <1>3, <1>4, <1>5, <1>6, <1>7, <1>8, ThreadSets DEF Told

LEMMA ToldEnqueue ==
    ASSUME PoolInv, Told, NEW t \in Threads, Enqueue(t), OthersKeep(t), At(t)' = "signal",
           Base(Main)' \in {"joining", "errjoining", "gone"} =>
              Base(Main) \in {"joining", "errjoining", "gone"}
    PROVE  Told'
<1>1. At(t) = "queue" /\ (\A u \in Threads \ {t} : At(u)' = At(u)) /\ UNCHANGED condVars
  BY DEF Enqueue, OthersKeep
<1>2. Sleepers' = Sleepers /\ Rising' = Rising /\ t \notin Tellers /\ Tellers' = Tellers \cup {t}
  BY <1>1, WorkersFacts DEF Sleepers, Rising, Tellers
<1>3. Cardinality(Tellers') = Cardinality(Tellers) + 1
  BY <1>2, ThreadSets, OneMore
<1>4. Len(runQueue') = Len(runQueue) + 1 /\ Len(runQueue) \in Nat
  <2>1. runQueue \in Seq(Tasks) /\ Task(t) \in Tasks
    BY <1>1, TopFacts DEF PoolInv, OnTheWay, InTask
  <2> QED
    BY <2>1 DEF Enqueue
<1> QED
  BY <1>1, <1>2, <1>3, <1>4, ThreadSets DEF Told, condVars

LEMMA ToldSignals ==
    ASSUME PoolInv, Told, NEW t \in Threads, Signal(t), OthersKeep(t), At(t)' \in Calling,
           Base(Main)' \in {"joining", "errjoining", "gone"} =>
              Base(Main) \in {"joining", "errjoining", "gone"}
    PROVE  Told'
<1>1. /\ At(t) = "signal" /\ (\A u \in Threads \ {t} : At(u)' = At(u))
      /\ UNCHANGED <<waiters, runQueue>>
      /\ signals' = IF waiters > signals THEN signals + 1 ELSE signals
  BY DEF Signal, OthersKeep, poolVars
<1>2. Sleepers' = Sleepers /\ Rising \subseteq Rising' /\ Tellers \ {t} \subseteq Tellers'
  BY <1>1, WorkersFacts DEF Sleepers, Rising, Tellers, Calling
<1>3. /\ Cardinality(Tellers) <= Cardinality(Tellers') + 1
      /\ Cardinality(Rising) <= Cardinality(Rising')
  BY <1>2, ThreadSets, AtMostOneLess, FS_Subset
<1>4. Len(runQueue) \in Nat
  BY DEF PoolInv, OnTheWay
<1> QED
  BY <1>1, <1>2, <1>3, <1>4, ThreadSets DEF Told

LEMMA ToldMain == ASSUME PoolInv, Told, Stop \/ Broadcast PROVE Told'
<1>0. Shape
  BY DEF PoolInv
<1>1. PICK p : BaseStep(Main, p) /\ p \notin {"asleep", "signal", "start", "loop"}
  BY <1>0, MainSteps
<1>2. At(Main) \notin {"asleep", "signal", "start", "loop"}
  BY DEF Stop, Broadcast
<1>3. Sleepers' = Sleepers /\ Rising' = Rising /\ Tellers' = Tellers
  BY <1>1, <1>2, WorkersFacts DEF BaseStep, OthersKeep, Sleepers, Rising, Tellers
<1>4. UNCHANGED <<runQueue, waiters>>
  BY DEF Stop, Broadcast, poolVars, condVars
<1>5. CASE Stop
  <2>1. UNCHANGED signals /\ Base(Main)' \in {"broadcast", "errbroadcast"}
    BY <1>0, <1>5, MainSteps DEF Stop, condVars, BaseStep
  <2> QED
    BY <1>3, <1>4, <2>1 DEF Told
<1>6. CASE Broadcast
  <2>1. signals' = waiters
    BY <1>6 DEF Broadcast
  <2> QED
    BY <1>3, <1>4, <2>1, ThreadSets DEF Told
<1> QED
  BY <1>5, <1>6

LEMMA ToldNext == ASSUME PoolInv, Told, Stopped, [Next]_vars PROVE Told'
<1>1. CASE Stop \/ Broadcast
  BY <1>1, ToldMain
<1>2. CASE ~Broadcast /\ ~Stop
  <2>1. Base(Main)' \in {"joining", "errjoining", "gone"} =>
           Base(Main) \in {"joining", "errjoining", "gone"}
    BY <1>2, MainJoins
  <2> QED
    BY <1>2, <2>1, CondSteps, ToldApart, ToldSleeps, ToldWakes, ToldEnqueue, ToldSignals
<1> QED
  BY <1>1, <1>2

-----------------------------------------------------------------------------
(***************************************************************************)
(* The pool's steps are steps of a condition variable.                     *)
(***************************************************************************)
OwedAt(t) == IF At(t) = "signal" THEN "one"
             ELSE IF At(t) \in {"broadcast", "errbroadcast"} THEN "all" ELSE "nothing"
Owing == [t \in Threads |-> OwedAt(t)]

\* The abstract module brings its own copy of the operator.
LEMMA SameCardinality == ASSUME NEW S PROVE Cond!Cardinality(S) = Cardinality(S)
BY Zenon DEF Cond!Cardinality, Cardinality

LEMMA OwingMoves ==
    ASSUME NEW t \in Threads, OthersKeep(t)
    PROVE  Owing' = [Owing EXCEPT ![t] = OwedAt(t)']
<1>1. \A u \in Threads \ {t} : OwedAt(u)' = OwedAt(u)
  BY DEF OthersKeep, OwedAt
<1> QED
  BY <1>1 DEF Owing

LEMMA ApartCond == ASSUME Apart PROVE UNCHANGED Cond!vars
<1>1. Sleepers' = Sleepers
  BY WorkersFacts DEF Apart, Sleepers, Aside
<1>2. \A t \in Threads : OwedAt(t)' = OwedAt(t)
  BY DEF Apart, OwedAt, Aside
<1>3. Owing' = Owing
  BY <1>2 DEF Owing
<1>4. UNCHANGED signals
  BY DEF Apart, condVars
<1> QED
  BY <1>1, <1>3, <1>4 DEF Cond!vars, Sleepers, Owing, OwedAt

LEMMA CondStep ==
    ASSUME PoolInv, Told, [Next]_vars
    PROVE  Cond!Next \/ UNCHANGED Cond!vars
<1>0. Shape
  BY DEF PoolInv
<1>1. ASSUME NEW w \in Workers, FallsAsleep(w) PROVE Cond!Next
  <2>1. /\ w \in Threads /\ OthersKeep(w) /\ At(w)' = "asleep"
        /\ At(w) \in {"start", "loop"} /\ UNCHANGED signals
    BY <1>1, WorkersFacts DEF FallsAsleep, BaseStep
  <2>2. w \notin Sleepers /\ Sleepers' = Sleepers \cup {w}
    BY <2>1, WorkersFacts DEF OthersKeep, Sleepers
  <2>3. OwedAt(w)' = OwedAt(w)
    BY <2>1 DEF OwedAt
  <2>4. Owing' = Owing
    BY <2>1, <2>3, OwingMoves DEF Owing
  <2>5. Cond!Wait(w)
    BY <2>1, <2>2, <2>4 DEF Cond!Wait, Sleepers, Owing, OwedAt
  <2> QED
    BY <2>5 DEF Cond!Next
<1>2. ASSUME NEW w \in Workers, Awake(w) \/ AwakeSpuriously(w), BaseStep(w, "loop") PROVE Cond!Next
  <2>1. w \in Threads /\ OthersKeep(w) /\ At(w)' = "loop" /\ At(w) = "asleep"
    BY <1>2, WorkersFacts DEF BaseStep, Awake, AwakeSpuriously
  <2>2. w \in Sleepers /\ Sleepers' = Sleepers \ {w}
    BY <2>1, WorkersFacts DEF OthersKeep, Sleepers
  <2>3. OwedAt(w)' = OwedAt(w)
    BY <2>1 DEF OwedAt
  <2>4. Owing' = Owing
    BY <2>1, <2>3, OwingMoves DEF Owing
  <2>5. CASE Awake(w)
    <3>1. Cond!Unblock(w)
      BY <2>2, <2>4, <2>5 DEF Awake, Cond!Unblock, Sleepers, Owing, OwedAt
    <3> QED
      BY <3>1 DEF Cond!Next
  <2>6. CASE AwakeSpuriously(w)
    <3>1. UNCHANGED signals /\ signals < Cardinality(Sleepers) /\ Cardinality(Sleepers) \in Nat
          /\ signals \in Nat
      BY <2>6, ThreadSets DEF AwakeSpuriously, Told
    <3>2. Cardinality(Sleepers) - signals > 0
      BY <3>1
    <3>3. Cond!GoBack(w)
      BY <2>2, <2>4, <3>1, <3>2, SameCardinality
      DEF Cond!GoBack, Cond!Unsignaled, Sleepers, Owing, OwedAt
    <3> QED
      BY <3>3 DEF Cond!Next
  <2> QED
    BY <1>2, <2>5, <2>6
<1>3. ASSUME NEW t \in Threads, NEW what \in {"one", "all"}, OthersKeep(t),
             OwedAt(t) = "nothing", OwedAt(t)' = what,
             At(t) # "asleep", At(t)' # "asleep", UNCHANGED signals
      PROVE  Cond!Next
  <2>1. Sleepers' = Sleepers
    BY <1>3, WorkersFacts DEF Sleepers, OthersKeep
  <2>2. Owing' = [Owing EXCEPT ![t] = what] /\ Owing[t] = "nothing"
    BY <1>3, OwingMoves DEF Owing
  <2>3. Cond!Call(t, what)
    BY <1>3, <2>1, <2>2 DEF Cond!Call, Sleepers, Owing, OwedAt
  <2> QED
    BY <2>3 DEF Cond!Next
<1>4. ASSUME NEW t \in Threads, OthersKeep(t),
             OwedAt(t) # "nothing", OwedAt(t)' = "nothing",
             At(t) # "asleep", At(t)' # "asleep",
             signals' = IF OwedAt(t) = "all" THEN waiters
                        ELSE IF waiters > signals THEN signals + 1 ELSE signals
      PROVE  Cond!Next
  <2>1. Sleepers' = Sleepers
    BY <1>4, WorkersFacts DEF Sleepers, OthersKeep
  <2>2. Owing' = [Owing EXCEPT ![t] = "nothing"] /\ Owing[t] = OwedAt(t)
    BY <1>4, OwingMoves DEF Owing
  <2>3. /\ waiters = Cardinality(Sleepers) /\ Cardinality(Sleepers) \in Nat /\ signals \in Nat
        /\ waiters > signals <=> Cardinality(Sleepers) - signals > 0
    BY ThreadSets DEF Told
  <2>4. signals' = IF Owing[t] = "all" THEN Cond!Cardinality(Sleepers)
                   ELSE IF Cond!Cardinality(Sleepers) - signals > 0 THEN signals + 1 ELSE signals
    BY <1>4, <2>2, <2>3, SameCardinality
  <2>5. Cond!Notify(t)
    BY <1>4, <2>1, <2>2, <2>4 DEF Cond!Notify, Cond!Unsignaled, Sleepers, Owing, OwedAt
  <2> QED
    BY <2>5 DEF Cond!Next
<1>5. ASSUME NEW t \in Threads, Enqueue(t), OthersKeep(t), At(t)' = "signal" PROVE Cond!Next
  <2>1. OwedAt(t) = "nothing" /\ OwedAt(t)' = "one" /\ At(t) # "asleep" /\ UNCHANGED signals
    BY <1>5 DEF Enqueue, OwedAt, condVars
  <2> QED
    BY <1>3, <1>5, <2>1
<1>6. ASSUME NEW t \in Threads, Signal(t), OthersKeep(t), At(t)' \in Calling PROVE Cond!Next
  <2>1. OwedAt(t) = "one" /\ OwedAt(t)' = "nothing" /\ At(t) # "asleep" /\ At(t)' # "asleep"
    BY <1>6 DEF Signal, OwedAt, Calling
  <2> QED
    BY <1>4, <1>6, <2>1 DEF Signal
<1>7. ASSUME Stop PROVE Cond!Next
  <2>1. OthersKeep(Main) /\ At(Main)' \in {"broadcast", "errbroadcast"} /\ UNCHANGED signals
        /\ At(Main) \in {"join", "errjoin"}
    BY <1>0, <1>7, MainSteps DEF BaseStep, Stop, condVars
  <2>2. OwedAt(Main) = "nothing" /\ OwedAt(Main)' = "all"
    BY <2>1 DEF OwedAt
  <2> QED
    BY <1>3, <2>1, <2>2, WorkersFacts
<1>8. ASSUME Broadcast PROVE Cond!Next
  <2>1. OthersKeep(Main) /\ At(Main)' \in {"joining", "errjoining"} /\ signals' = waiters
        /\ At(Main) \in {"broadcast", "errbroadcast"}
    BY <1>0, <1>8, MainSteps DEF BaseStep, Broadcast
  <2>2. OwedAt(Main) = "all" /\ OwedAt(Main)' = "nothing"
    BY <2>1 DEF OwedAt
  <2> QED
    BY <1>4, <2>1, <2>2, WorkersFacts
<1> QED
  BY <1>1, <1>2, <1>5, <1>6, <1>7, <1>8, ApartCond, CondSteps

LEMMA CondInit == Init => Cond!Init
<1> SUFFICES ASSUME Init PROVE Cond!Init
  OBVIOUS
<1>1. \A t \in Threads : At(t) \notin Aside
  BY WorkersFacts DEF Init, At, Last, Frame, Aside
<1>2. Sleepers = {} /\ \A t \in Threads : OwedAt(t) = "nothing"
  BY <1>1, WorkersFacts DEF Sleepers, OwedAt, Aside
<1>3. Owing = [t \in Threads |-> "nothing"]
  BY <1>2 DEF Owing
<1>4. signals = 0
  BY DEF Init
<1> QED
  BY <1>2, <1>3, <1>4 DEF Cond!Init, Sleepers, Owing, OwedAt

-----------------------------------------------------------------------------
(***************************************************************************)
(* No standstill.  When no thread can go on, take the tasks that are being *)
(* run, and one of them that leads to none of them: its thread waits for   *)
(* its group, of which a task is left, and that was called, so that it is  *)
(* being run, too.  So no task is being run, and then Main and the workers *)
(* that sleep have nothing to wait for.                                    *)
(***************************************************************************)
CalmInv == PoolInv /\ CallInv /\ NoCycle /\ Counted /\ Stopped /\ Told

Still == \A t \in Threads : Rests(t) \/ Waits(t)

LEMMA StillFacts ==
    ASSUME PoolInv, Still, NEW t \in Threads
    PROVE  /\ At(t) \in InTask \cup InWait => At(t) = "await" /\ pending[Task(t)] > 0
           /\ At(t) # "await" => Depth(t) = 1 /\ At(t) = Base(t)
           /\ At(t) = "asleep" => signals = 0
           /\ t \in Workers /\ At(t) # "await" => At(t) \in {"unborn", "asleep", "exited"}
<1>1. Shape
  BY DEF PoolInv
<1>2. Rests(t) \/ Waits(t)
  BY DEF Still
<1>3. At(t) \in InTask \cup InWait => At(t) = "await" /\ pending[Task(t)] > 0
  BY <1>2 DEF Rests, Waits, InTask, InWait
<1>4. At(t) # "await" => Depth(t) = 1 /\ At(t) = Base(t)
  BY <1>1, <1>3, TopFacts
<1>5. At(t) = "asleep" => signals = 0
  BY <1>2 DEF Rests, Waits
<1>6. t \in Workers => Base(t) \in WorkerPlaces
  BY <1>1, WorkersFacts DEF Shape, Places
<1>7. t \in Workers /\ At(t) # "await" => At(t) \in {"unborn", "asleep", "exited"}
  BY <1>2, <1>4, <1>6 DEF Rests, Waits, WorkerPlaces
<1> QED
  BY <1>3, <1>4, <1>5, <1>7

LEMMA StillGoing ==
    ASSUME PoolInv, Still, NEW k, Going(k)
    PROVE  \E t \in Threads : \E i \in Nat : On(t, i, "run", k)
<1>1. PICK t \in Threads, i \in Nat : On(t, i, "run", k) \/ On(t, i, "finish", k)
  BY DEF Going
<1>2. ~On(t, i, "finish", k)
  <2>1. SUFFICES ASSUME On(t, i, "finish", k) PROVE FALSE
    OBVIOUS
  <2>2. At(t) = "finish"
    BY <2>1, OnFacts DEF PoolInv
  <2> QED
    BY <2>2, StillFacts DEF InTask
<1> QED
  BY <1>1, <1>2

\* A thread that is inside a task waits for a group, the one of its last task.
LEMMA StillAwaits ==
    ASSUME PoolInv, CallInv, Still, NEW t \in Threads, NEW i \in Nat, NEW k, On(t, i, "run", k)
    PROVE  \E g \in Tasks : /\ On(t, Depth(t), "await", g) /\ pending[g] > 0
                            /\ On(t, Depth(t) - 1, "run", g)
                            /\ i <= Depth(t) - 1 /\ Depth(t) - 1 \in Nat
<1>0. Shape
  BY DEF PoolInv
<1>1. i >= 2 /\ Depth(t) \in Nat /\ i <= Depth(t) /\ (i = Depth(t) => At(t) = "run")
  BY <1>0, OnFacts
<1>2. At(t) = "await" /\ pending[Task(t)] > 0
  BY <1>1, StillFacts DEF InTask, InWait
<1>3. i <= Depth(t) - 1 /\ Depth(t) - 1 \in Nat
  BY <1>1, <1>2
<1>4. On(t, Depth(t), "await", Task(t)) /\ Task(t) \in Groups
  BY <1>0, <1>2, OnTop, TopFacts DEF InWait
<1>5. On(t, Depth(t) - 1, "run", Task(t))
  BY <1>1, <1>3, <1>4 DEF CallInv, Nested, InWait
<1>6. Task(t) \in Tasks
  BY <1>0, <1>3, <1>5, OnFacts DEF InWait
<1> QED
  BY <1>2, <1>3, <1>4, <1>5, <1>6

\* what a group still counts was not called yet or is being run
LEMMA StillCounted ==
    ASSUME PoolInv, Counted, Still, NEW g \in Groups, pending[g] > 0
    PROVE  \E j \in Tasks : /\ group[j] = g /\ kind[j] \in Kinds
                            /\ ran[j] = 0 \/ \E t \in Threads : \E i \in Nat : On(t, i, "run", j)
<1>1. OpenOf(g) # {}
  BY FS_EmptySet DEF Counted
<1>2. PICK j \in Tasks : group[j] = g /\ Open(j)
  BY <1>1 DEF OpenOf
<1>3. kind[j] \in Kinds
  BY <1>2 DEF Open, PoolInv, OnTheWay
<1> QED
  BY <1>2, <1>3, StillGoing DEF Open

LEMMA NobodyRuns ==
    ASSUME CalmInv, Still
    PROVE  \A t \in Threads : \A i \in Nat : \A k : ~On(t, i, "run", k)
<1>0. PoolInv /\ CallInv /\ NoCycle /\ Counted /\ Shape
  BY DEF CalmInv, PoolInv
<1> DEFINE S == {k \in Tasks : \E t \in Threads : \E i \in Nat : On(t, i, "run", k)}
<1>1. ASSUME NEW k \in S PROVE \E m \in S : Leads(k, m)
  <2>1. PICK t \in Threads, i \in Nat : On(t, i, "run", k)
    OBVIOUS
  <2>2. PICK g \in Tasks :
           /\ On(t, Depth(t), "await", g) /\ pending[g] > 0 /\ On(t, Depth(t) - 1, "run", g)
           /\ i <= Depth(t) - 1 /\ Depth(t) - 1 \in Nat
    BY <1>0, <2>1, StillAwaits
  <2>3. g \in S
    BY <2>2
  <2>4. CASE i < Depth(t) - 1
    BY <2>1, <2>2, <2>3, <2>4 DEF Leads, Above, InTask
  <2>5. CASE i = Depth(t) - 1
    <3>1. k = g
      BY <2>1, <2>2, <2>5, OneOn
    <3>2. PICK j \in Tasks :
             /\ group[j] = g /\ kind[j] \in Kinds
             /\ ran[j] = 0 \/ \E u \in Threads : \E n \in Nat : On(u, n, "run", j)
      BY <1>0, <2>2, StillCounted DEF Groups
    <3>3. Depth(t) \in Nat
      BY <1>0, TopFacts
    <3>4. ran[j] = 1
      BY <1>0, <2>2, <3>2, <3>3 DEF CallInv, Awaited
    <3>5. j \in S
      BY <3>2, <3>4
    <3> QED
      BY <3>1, <3>2, <3>5 DEF Leads
  <2> QED
    BY <2>2, <2>4, <2>5
<1>2. S = {}
  <2>1. S \in SUBSET Tasks
    OBVIOUS
  <2> HIDE DEF S
  <2> QED
    BY <1>0, <1>1, <2>1 DEF NoCycle
<1>3. ASSUME NEW t \in Threads, NEW i \in Nat, NEW k, On(t, i, "run", k) PROVE FALSE
  <2>1. k \in Tasks
    BY <1>0, <1>3, OnFacts DEF InWait
  <2> QED
    BY <1>2, <1>3, <2>1
<1> QED
  BY <1>3

LEMMA StillWorkers ==
    ASSUME CalmInv, Still, NEW w \in Workers
    PROVE  At(w) = Base(w) /\ At(w) \in {"unborn", "asleep", "exited"}
<1>0. PoolInv /\ CallInv /\ Shape /\ w \in Threads
  BY WorkersFacts DEF CalmInv, PoolInv
<1>1. ASSUME At(w) = "await" PROVE FALSE
  <2>1. On(w, Depth(w), "await", Task(w)) /\ Task(w) \in Groups /\ Depth(w) \in Nat /\ Depth(w) >= 2
    BY <1>0, <1>1, OnTop, TopFacts DEF InWait
  <2>2. On(w, Depth(w) - 1, "run", Task(w)) /\ Depth(w) - 1 \in Nat
    BY <1>0, <2>1, WorkersFacts DEF CallInv, Nested, InWait
  <2> QED
    BY <1>0, <2>2, NobodyRuns
<1> QED
  BY <1>0, <1>1, StillFacts

LEMMA OneSleeps == ASSUME NEW w \in Workers, At(w) = "asleep" PROVE Cardinality(Sleepers) > 0
<1>1. Sleepers # {}
  BY DEF Sleepers
<1> QED
  BY <1>1, ThreadSets, FS_EmptySet

LEMMA NothingQueued == ASSUME CalmInv, Still PROVE runQueue = <<>>
<1>0. PoolInv /\ Told /\ runQueue \in Seq(Tasks)
  BY DEF CalmInv, PoolInv, OnTheWay
<1>1. SUFFICES ASSUME runQueue # <<>> PROVE FALSE
  OBVIOUS
<1>2. PICK w \in Workers : Base(w) \in {"start", "loop", "asleep"}
  BY <1>0, <1>1 DEF PoolInv, Life, Alive
<1>3. At(w) = "asleep"
  BY <1>2, StillWorkers
<1>4. signals = 0 /\ waiters > signals
  BY <1>0, <1>3, OneSleeps, StillFacts, WorkersFacts DEF Told
<1>5. Tellers = {} /\ Rising = {}
  <2>1. \A t \in Threads : At(t) # "signal"
    BY <1>0, StillFacts DEF InTask
  <2>2. \A u \in Workers : At(u) \notin {"start", "loop"}
    BY StillWorkers
  <2> QED
    BY <2>1, <2>2 DEF Tellers, Rising
<1>6. Len(runQueue) <= 0
  BY <1>0, <1>4, <1>5, FS_EmptySet DEF Told
<1> QED
  BY <1>0, <1>1, <1>6

LEMMA CalmNobodyStuck == ASSUME CalmInv PROVE NobodyStuck
<1> SUFFICES ASSUME Still
             PROVE  /\ \A t \in Threads : ~Waits(t)
                    /\ \A k \in Tasks : kind[k] \in Kinds => ran[k] = 1
                    /\ \A g \in Groups : pending[g] = 0
  BY DEF NobodyStuck, Still
<1>0. PoolInv /\ CallInv /\ Counted /\ Told /\ Shape /\ OnTheWay /\ Life
  BY DEF CalmInv, PoolInv
<1>1. \A k \in Tasks : kind[k] \in Kinds => ran[k] = 1
  <2> SUFFICES ASSUME NEW k \in Tasks, kind[k] \in Kinds PROVE ran[k] = 1
    OBVIOUS
  <2>1. ASSUME Uncalled(k) PROVE FALSE
    <3>1. \A t \in Threads : ~Queueing(t, k)
      BY <1>0, StillFacts DEF Queueing, InTask
    <3>2. DOMAIN runQueue = {}
      BY NothingQueued
    <3> QED
      BY <1>0, <2>1, <3>1, <3>2 DEF OnTheWay
  <2> QED
    BY <1>0, <2>1 DEF Uncalled, OnTheWay
<1>2. ASSUME NEW g \in Groups PROVE pending[g] = 0
  <2>1. ~(pending[g] > 0)
    BY <1>0, <1>1, StillCounted, NobodyRuns
  <2> QED
    BY <1>0, <2>1 DEF Counted
<1>3. ASSUME NEW t \in Threads, Waits(t) PROVE FALSE
  <2>1. CASE At(t) = "await" /\ pending[Task(t)] > 0
    <3>1. Task(t) \in Groups
      BY <1>0, <2>1, TopFacts DEF InWait
    <3> QED
      BY <1>2, <2>1, <3>1
  <2>2. CASE At(t) \in {"joining", "errjoining"} /\ ~Joined
    <3>1. t = Main /\ Base(Main) \in {"joining", "errjoining"}
      BY <1>0, <2>2, WhoIsAt, TopFacts DEF MainPlaces, InTask, InWait
    <3>2. PICK i \in DOMAIN spawned : At(spawned[i]) # "exited"
      BY <2>2 DEF Joined
    <3>3. spawned[i] \in Workers /\ spawned[i] \in Range(spawned)
      BY <1>0, <3>2 DEF Life, Range
    <3>4. Base(spawned[i]) # "unborn"
      BY <1>0, <3>3 DEF Life
    <3>5. At(spawned[i]) = "asleep"
      BY <3>2, <3>3, <3>4, StillWorkers
    <3>6. signals = 0 /\ Cardinality(Sleepers) > 0
      BY <1>0, <3>3, <3>5, OneSleeps, StillFacts, WorkersFacts
    <3> QED
      BY <1>0, <3>1, <3>6, ThreadSets DEF Told
  <2> QED
    BY <1>3, <2>1, <2>2 DEF Waits
<1> QED
  BY <1>1, <1>2, <1>3

LEMMA CalmInvNext == CalmInv /\ [Next]_vars => CalmInv'
<1> SUFFICES ASSUME CalmInv, [Next]_vars PROVE CalmInv'
  OBVIOUS
<1> QED
  BY PoolInvNext, CallInvNext, NoCycleNext, CountedNext, StoppedNext, ToldNext DEF CalmInv

LEMMA CalmInvAlways == Spec => []CalmInv
<1>1. Init => CalmInv
  BY PoolInvInit, CallInvInit, NoCycleInit, CountedInit, StoppedInit, ToldInit DEF CalmInv
<1> QED
  BY <1>1, CalmInvNext, PTL DEF Spec

\* The count of a wait group is the number of its tasks that have not finished
\* (GroupsExact), in the queue or on the stacks below whatever calls, for every number
\* of workers, tasks and groups, and also when tasks are called for want of memory.
THEOREM WaitGroupsExact == Spec => []GroupsExact
<1>1. CalmInv => GroupsExact
  BY CountedExact DEF CalmInv
<1> QED
  BY <1>1, CalmInvAlways, PTL

\* When no thread of the pool can go on, nobody waits for anything, every task was called,
\* and all wait groups are down to zero (NobodyStuck): however deep tasks wait for tasks,
\* and with as few workers as one.
THEOREM NoStandstill == Spec => []NobodyStuck
<1>1. CalmInv => NobodyStuck
  BY CalmNobodyStuck
<1> QED
  BY <1>1, CalmInvAlways, PTL

\* No wakeup is lost (Told): as long as a worker sleeps without a signal there are, for the
\* tasks in the queue, as many signals, threads about to signal, and workers about to look
\* at the queue; and whoever still sleeps when threads are joined has been signaled.
THEOREM SleepersTold == Spec => []Told
<1>1. CalmInv => Told
  BY DEF CalmInv
<1> QED
  BY <1>1, CalmInvAlways, PTL

\* The pool uses its condition as a condition variable (UsesCondition): each of its steps
\* is one of ConditionVariable or leaves it alone, with the workers as those that wait.
THEOREM PoolUsesCondition == Spec => UsesCondition
<1>1. CalmInv /\ [Next]_vars => [Cond!Next]_(Cond!vars)
  BY CondStep DEF CalmInv
<1> QED
  BY <1>1, CondInit, CalmInvAlways, PTL DEF Spec, UsesCondition, Cond!Spec
=============================================================================
