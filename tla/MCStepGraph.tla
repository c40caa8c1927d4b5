---------------------------- MODULE MCStepGraph ----------------------------
(* Small instances of StepGraph for TLC. *)
EXTENDS StepGraph

CONSTANTS lib, gen, app, doc, w1, w2

Of(l, g, a, o) == [u \in Steps |-> CASE u = lib -> l [] u = gen -> g [] u = app -> a [] u = doc -> o]

\* three steps that share the memory, one of which depends on a fourth
Crowd == [deps |-> Of(<<>>, <<>>, <<lib>>, <<>>), maxRss |-> Of(0, 1, 1, 2), limit |-> 2,
          skipOom |-> FALSE, targets |-> <<gen, app, doc>>]
\* the same where only one of them can run at a time
Tight == [Crowd EXCEPT !.maxRss = Of(0, 1, 1, 1), !.limit = 1]
\* a diamond with a step that is too large and is not skipped
Oversize == [deps |-> Of(<<>>, <<lib>>, <<lib>>, <<gen, app>>), maxRss |-> Of(0, 2, 1, 0),
             limit |-> 1, skipOom |-> FALSE, targets |-> <<doc>>]
\* one that names a dependency twice, and where the large step is skipped
Skipping == [Oversize EXCEPT !.deps = Of(<<>>, <<lib>>, <<lib, lib>>, <<gen, app>>),
                              !.maxRss = Of(0, 2, 0, 0), !.skipOom = TRUE]
\* a loop
Loop == [Skipping EXCEPT !.deps = Of(<<app>>, <<lib>>, <<gen>>, <<lib, gen>>)]

MCProjects == {Crowd, Tight, Skipping, Oversize, Loop}
MCTight == {Tight}
=============================================================================
