----------------------------- MODULE LinkPipeline -----------------------------
(***************************************************************************)
(* What the link queue promises to the rest of the compiler, without its   *)
(* threads, locks and double buffers: the doc comment at the head of       *)
(* src/link/Queue.zig.  Linker inputs are loaded in the order they arrive; *)
(* once the last has been loaded, ZCU tasks are linked one by one in the   *)
(* order they were submitted, whatever order their MIR was generated in.   *)
(***************************************************************************)
EXTENDS Naturals, Sequences

CONSTANTS Inputs, Tasks

VARIABLES
    inputs,     \* linker inputs that arrived and are not loaded yet
    open,       \* more inputs may arrive in this update
    submitted,  \* ZCU tasks of this update, in order
    done        \* those that have been linked

pipeVars == <<inputs, open, submitted, done>>

Init ==
    /\ inputs \in Seq(Inputs) /\ open = FALSE
    /\ submitted = <<>> /\ done = <<>>

\* a new update: everything submitted to the last one has been linked
Begin ==
    /\ done = submitted
    /\ open' = TRUE /\ submitted' = <<>> /\ done' = <<>>
    /\ UNCHANGED inputs

Deliver(x) ==
    /\ open
    /\ inputs' = Append(inputs, x)
    /\ UNCHANGED <<open, submitted, done>>

\* load the first n inputs
Load(n) ==
    /\ n \in 1 .. Len(inputs)
    /\ inputs' = SubSeq(inputs, n + 1, Len(inputs))
    /\ UNCHANGED <<open, submitted, done>>

Close ==
    /\ open /\ open' = FALSE
    /\ UNCHANGED <<inputs, submitted, done>>

Submit(t) ==
    /\ submitted' = Append(submitted, t)
    /\ UNCHANGED <<inputs, open, done>>

Link ==
    /\ ~open /\ inputs = <<>> /\ Len(done) < Len(submitted)
    /\ done' = Append(done, submitted[Len(done) + 1])
    /\ UNCHANGED <<inputs, open, submitted>>

LoadSome == \E n \in 1 .. Len(inputs) : Load(n)

Next ==
    \/ Begin \/ Close \/ Link \/ LoadSome
    \/ \E x \in Inputs : Deliver(x)
    \/ \E t \in Tasks : Submit(t)

Spec == Init /\ [][Next]_pipeVars

\* once the inputs are loaded, every submitted task is linked
Progress == WF_pipeVars(Link)
FairSpec == Spec /\ Progress
=============================================================================
