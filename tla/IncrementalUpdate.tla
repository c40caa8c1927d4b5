--------------------------- MODULE IncrementalUpdate ---------------------------
(***************************************************************************)
(* Which units of a Zig compilation are analysed again in an incremental   *)
(* update (src/zig/src/Zcu.zig and Zcu/PerThread.zig).  An edit marks the  *)
(* units that depend on the edited source as outdated and everything       *)
(* downstream of them as potentially outdated (PO), with a count of the    *)
(* dependees it waits for.  Semantic analysis then takes ready units,      *)
(* follows their dependencies, and tells the dependers of each unit it     *)
(* finishes whether the result changed.                                    *)
(*                                                                         *)
(* The loops over dependers, and their recursions, run to their end before *)
(* anything else happens.  `visits` holds their iterations to come, which  *)
(* the model takes in any order: the order of a dependency list is not     *)
(* specified.  Semantic analysis itself is a choice: a unit may use any    *)
(* unit MayUse lets it use, and its result may change or not.              *)
(* A definition named X_V is a faulty variant of X that nothing uses.      *)
(***************************************************************************)
EXTENDS Naturals, Sequences, FiniteSets, SequencesExt, Functions

CONSTANTS
    Units,      \* AnalUnit
    Sources,    \* the other dependees: source hashes, ZON files, embedded files
    NoUnit,
    KindOf,     \* the tag of a unit; "nav" is a nav_val, or a nav_ty of its own
    ValueOf,    \* nav_ty units without a type body |-> the nav_val that resolves them
    SourceOf,   \* the source a unit is made from
    OwnerOf,    \* functions |-> the nav_val that declares them, or their generic owner
    Instances,  \* the functions that are instances of a generic one
    MayUse,     \* pairs of units: what the analysis of the first may come across
    IesLoops    \* whether two functions may need each other's inferred error sets

ASSUME UnitsAssumption ==
    /\ IsFiniteSet(Units) /\ NoUnit \notin Units /\ Units \cap Sources = {}
    /\ KindOf \in [Units -> {"nav", "func", "type", "comptime"}]
    /\ DOMAIN ValueOf \subseteq Units
    /\ \A t \in DOMAIN ValueOf :
          ValueOf[t] \in Units \ DOMAIN ValueOf /\ KindOf[t] = "nav" /\ KindOf[ValueOf[t]] = "nav"
    /\ \A t, u \in DOMAIN ValueOf : ValueOf[t] = ValueOf[u] => t = u
    /\ SourceOf \in [Units -> Sources]
    /\ OwnerOf \in [{u \in Units : KindOf[u] = "func"} -> Units] /\ Instances \subseteq Units
    /\ \A u \in DOMAIN OwnerOf : KindOf[OwnerOf[u]] = "nav" /\ OwnerOf[u] \notin DOMAIN ValueOf
    /\ MayUse \subseteq Units \X Units
    /\ \A p \in MayUse : KindOf[p[2]] # "comptime"

VARIABLES
    outdated, potentially_outdated, outdated_ready,
    po_dep_count,   \* the values of both maps; 0 for a unit in neither
    deps,           \* pairs: depender, dependee
    visits,         \* pending iterations: what to do, depender, dependee
    stack,          \* the units being analysed, the innermost last
    awaited,        \* those of them that were outdated: `was_outdated`
    early,          \* the functions among them whose body has not begun
    after,          \* the nav_val whose nav_ty is to be resolved next
    known,          \* units that exist and have been analysed, or are being
    phase,          \* "edit", or "analyze" from updateZirRefs to the end of the work loop
    fresh,          \* history: analysed in this update
    stale           \* history: something they read has changed since

maps == <<outdated, potentially_outdated, outdated_ready, po_dep_count>>
history == <<fresh, stale>>
vars == <<maps, history, deps, visits, stack, awaited, early, after, known, phase>>

Marked == outdated \cup potentially_outdated
Dependers(d, edges) == {w \in Units : <<w, d>> \in edges}
Calm == visits = {} /\ after = NoUnit
Top == Last(stack)

\* analysis_in_progress.  A function is put there only when its body begins, but nobody
\* could use it before: whoever does needs its owner, and that is being seen to.
InProgress == Range(stack)

Idle == phase = "analyze" /\ Calm /\ stack = <<>>
Analysing == phase = "analyze" /\ Calm /\ stack # <<>>
InBody == Analysing /\ Top \notin early

Init ==
    /\ outdated = {} /\ potentially_outdated = {} /\ outdated_ready = {}
    /\ po_dep_count = [u \in Units |-> 0]
    /\ deps = {} /\ visits = {} /\ stack = <<>> /\ awaited = {} /\ early = {} /\ after = NoUnit
    /\ known = {} /\ phase = "edit" /\ fresh = {} /\ stale = {}

----------------------------------------------------------------------------
(* Marking: markDependeeOutdated, markPoDependeeUpToDate and               *)
(* markTransitiveDependersPotentiallyOutdated, one iteration at a time.    *)

Visit(what, d, edges) == {<<what, w, d>> : w \in Dependers(d, edges)}

\* variant: nobody is told that the last one is gone
CountDown_Silent(w) ==
    /\ po_dep_count' = [po_dep_count EXCEPT ![w] = @ - 1]
    /\ UNCHANGED outdated_ready

\* one PO dependee less to wait for
CountDown(w) ==
    /\ po_dep_count' = [po_dep_count EXCEPT ![w] = @ - 1]
    /\ outdated_ready' = IF po_dep_count[w] = 1 THEN outdated_ready \cup {w} ELSE outdated_ready

\* markDependeeOutdated, for a source that was edited
VisitEdited(w, s) ==
    LET left == visits \ {<<"edited", w, s>>} IN
    /\ <<"edited", w, s>> \in visits
    /\ \/ w \in outdated /\ visits' = left /\ UNCHANGED maps
       \/ /\ w \in potentially_outdated
          /\ outdated' = outdated \cup {w}
          /\ potentially_outdated' = potentially_outdated \ {w}
          /\ outdated_ready' = IF po_dep_count[w] = 0 THEN outdated_ready \cup {w} ELSE outdated_ready
          /\ visits' = left
          /\ UNCHANGED po_dep_count
       \/ /\ w \notin Marked
          /\ outdated' = outdated \cup {w}
          /\ outdated_ready' = outdated_ready \cup {w}
          /\ visits' = left \cup Visit("po", w, deps)
          /\ UNCHANGED <<potentially_outdated, po_dep_count>>

\* markTransitiveDependersPotentiallyOutdated
VisitPo(w, d) ==
    LET left == visits \ {<<"po", w, d>>} IN
    /\ <<"po", w, d>> \in visits
    /\ po_dep_count' = [po_dep_count EXCEPT ![w] = @ + 1]
    /\ outdated_ready' = outdated_ready \ {w}
    /\ UNCHANGED outdated
    /\ \/ w \in Marked /\ visits' = left /\ UNCHANGED potentially_outdated
       \/ /\ w \notin Marked
          /\ potentially_outdated' = potentially_outdated \cup {w}
          /\ visits' = left \cup Visit("po", w, deps)

\* variant: a unit that is outdated already keeps its count
VisitOutdated_Uncounted(w, d) ==
    /\ <<"outdated", w, d>> \in visits
    /\ visits' = visits \ {<<"outdated", w, d>>}
    /\ \/ /\ w \in potentially_outdated
          /\ outdated' = outdated \cup {w}
          /\ potentially_outdated' = potentially_outdated \ {w}
          /\ CountDown(w)
       \/ w \notin potentially_outdated /\ UNCHANGED maps

\* markDependeeOutdated, for a unit that was analysed and has changed
VisitOutdated(w, d) ==
    /\ <<"outdated", w, d>> \in visits
    /\ visits' = visits \ {<<"outdated", w, d>>}
    /\ \/ w \in outdated /\ CountDown(w) /\ UNCHANGED <<outdated, potentially_outdated>>
       \/ /\ w \in potentially_outdated
          /\ outdated' = outdated \cup {w}
          /\ potentially_outdated' = potentially_outdated \ {w}
          /\ CountDown(w)
       \/ w \notin Marked /\ UNCHANGED maps

\* variant: the first verdict decides
LastAwaited_First(w) == TRUE

\* not `ptr.* > 1`
LastAwaited(w) == po_dep_count[w] <= 1

\* markPoDependeeUpToDate
VisitUpToDate(w, d) ==
    LET left == visits \ {<<"up_to_date", w, d>>} IN
    /\ <<"up_to_date", w, d>> \in visits
    /\ \/ /\ w \in outdated
          /\ CountDown(w)
          /\ visits' = left /\ UNCHANGED <<outdated, potentially_outdated>>
       \/ /\ w \in potentially_outdated /\ ~LastAwaited(w)
          /\ po_dep_count' = [po_dep_count EXCEPT ![w] = @ - 1]
          /\ visits' = left /\ UNCHANGED <<outdated, potentially_outdated, outdated_ready>>
       \/ /\ w \in potentially_outdated /\ LastAwaited(w)
          /\ potentially_outdated' = potentially_outdated \ {w}
          /\ po_dep_count' = [po_dep_count EXCEPT ![w] = 0]
          /\ visits' = left \cup Visit("up_to_date", w, deps)
          /\ UNCHANGED <<outdated, outdated_ready>>
       \/ w \notin Marked /\ visits' = left /\ UNCHANGED maps

VisitNext ==
    /\ \E w \in Units, d \in Units \cup Sources :
          VisitEdited(w, d) \/ VisitPo(w, d) \/ VisitOutdated(w, d) \/ VisitUpToDate(w, d)
    /\ UNCHANGED <<deps, stack, awaited, early, after, known, phase, history>>

----------------------------------------------------------------------------
(* Between updates, and updateZirRefs. *)

\* A source changes.  An update that is given up before the analysis starts, because a
\* file does not parse, leaves the maps as they are: the next one marks on top of them.
Edit(s) ==
    /\ phase = "edit" /\ visits = {}
    /\ visits' = Visit("edited", s, deps)
    /\ stale' = stale \cup Dependers(s, deps)
    /\ UNCHANGED <<maps, deps, stack, awaited, early, after, known, phase, fresh>>

\* scanNamespace finds a comptime declaration nobody has seen yet
NewComptime(c) ==
    /\ KindOf[c] = "comptime" /\ c \notin known
    /\ (phase = "edit" /\ Calm) \/ InBody
    /\ known' = known \cup {c}
    /\ outdated' = outdated \cup {c}
    /\ outdated_ready' = outdated_ready \cup {c}
    /\ UNCHANGED <<potentially_outdated, po_dep_count, history, deps, visits, stack, awaited, early, after,
                   phase>>

StartAnalysis ==
    /\ phase = "edit" /\ visits = {}
    /\ phase' = "analyze"
    /\ UNCHANGED <<maps, history, deps, visits, stack, awaited, early, after, known>>

----------------------------------------------------------------------------
(* Semantic analysis. *)

\* variant: potentially_outdated is not looked at
Unmark_Outdated(u) ==
    /\ outdated' = outdated \ {u}
    /\ outdated_ready' = outdated_ready \ {u}
    /\ UNCHANGED <<potentially_outdated, po_dep_count>>

\* swapRemove from outdated, potentially_outdated and outdated_ready
Unmark(u) ==
    /\ outdated' = outdated \ {u}
    /\ potentially_outdated' = potentially_outdated \ {u}
    /\ outdated_ready' = outdated_ready \ {u}
    /\ po_dep_count' = [po_dep_count EXCEPT ![u] = 0]

\* removeDependenciesForDepender
WithoutDeps(u, edges) == {e \in edges : e[1] # u}

\* ensureNavValUpToDate, ensureNavTypeUpToDate, ensureFuncBodyUpToDate and
\* ensureComptimeUnitUpToDate, up to the analysis.  A function keeps the dependencies it has
\* until its body begins.
Begin(u, edges, recent) ==
    /\ stack' = Append(stack, u)
    /\ awaited' = IF u \in Marked THEN awaited \cup {u} ELSE awaited
    /\ Unmark(u)
    /\ \/ /\ KindOf[u] = "func" /\ early' = early \cup {u} /\ deps' = edges
       \/ /\ KindOf[u] # "func" /\ early' = early
          /\ deps' = WithoutDeps(u, edges) \cup {<<u, SourceOf[u]>>}
    /\ known' = known \cup {u}
    /\ fresh' = recent \cup {u}
    /\ stale' = stale \ {u}
    /\ UNCHANGED visits

\* ensureTypeUpToDate recreates an outdated type.  The old type and the new one share a
\* name here: all dependers of the old one are outdated from now on, and the caller's
\* dependency on the new one is not yet there.
Recreate(t, edges, recent) ==
    /\ Unmark(t)
    /\ deps' = WithoutDeps(t, edges) \cup {<<t, SourceOf[t]>>}
    /\ visits' = Visit("outdated", t, WithoutDeps(t, deps))
    /\ fresh' = recent \cup {t}
    /\ stale' = (stale \cup (Dependers(t, deps) \ recent)) \ {t}
    /\ UNCHANGED <<stack, awaited, early, known>>

\* a type that does not exist yet
Create(t, edges, recent) ==
    /\ deps' = edges \cup {<<t, SourceOf[t]>>}
    /\ known' = known \cup {t}
    /\ fresh' = recent \cup {t}
    /\ UNCHANGED <<maps, stale, visits, stack, awaited, early>>

Resolver(d) == IF d \in DOMAIN ValueOf THEN ValueOf[d] ELSE d

\* ensure*UpToDate(d), with the dependencies and the history of the caller so far
Ensure(d, edges, recent) ==
    LET u == Resolver(d) IN
    /\ UNCHANGED <<after, phase>>
    /\ \/ KindOf[u] # "type" /\ u \notin InProgress
          /\ (u \in Marked \/ u \notin known) /\ Begin(u, edges, recent)
       \/ KindOf[u] = "type" /\ u \in Marked /\ Recreate(u, edges, recent)
       \/ KindOf[u] = "type" /\ u \notin known /\ Create(u, edges, recent)
       \/ /\ u \in InProgress \/ (u \in known \ Marked)
          /\ deps' = edges /\ fresh' = recent
          /\ UNCHANGED <<maps, stale, visits, stack, awaited, early, known>>

\* analyzeFuncBody sees to it first that the function is still what its owner declares
OwnerFirst ==
    /\ Analysing /\ Top \in early
    /\ OwnerOf[Top] \in Marked \/ OwnerOf[Top] \notin known
    /\ Ensure(OwnerOf[Top], deps, fresh)

\* analyzeFnBodyInner.  An instance is owned by a declaration of its own, which is never
\* outdated.
BeginBody ==
    /\ Analysing /\ Top \in early
    /\ OwnerOf[Top] \in known \ Marked /\ OwnerOf[Top] \notin InProgress
    /\ early' = early \ {Top}
    /\ deps' = WithoutDeps(Top, deps) \cup {<<Top, SourceOf[Top]>>}
               \cup (IF Top \in Instances THEN {} ELSE {<<Top, OwnerOf[Top]>>})
    /\ UNCHANGED <<maps, history, visits, stack, awaited, after, known, phase>>

\* Sema.declareDependency and the call of ensure*UpToDate that goes with it.  A unit that
\* is being analysed already is a compile error, after the dependency was declared.  On a
\* type the dependency is declared after the call, which Recreate heeds.
Uses(u, d) ==
    /\ <<u, d>> \in MayUse /\ <<u, d>> \notin deps
    /\ u = d => KindOf[u] # "nav"
    /\ KindOf[d] = "func" /\ (d \in InProgress \/ (KindOf[u] = "func" /\ <<d, u>> \in deps)) => IesLoops
    /\ Ensure(d, deps \cup {<<u, d>>}, fresh \cup {u})

Declare(d) == InBody /\ Uses(Top, d)

\* the fields of a type are resolved when somebody needs them, the type being their owner
ResolveField(t, d) ==
    /\ Idle \/ InBody
    /\ KindOf[t] = "type" /\ t \in known \ Marked
    /\ Uses(t, d)

\* maybeUnresolveIes: the error set of an outdated function is consulted
UnresolveIes(f) ==
    /\ InBody
    /\ KindOf[f] = "func" /\ f \in potentially_outdated
    /\ potentially_outdated' = potentially_outdated \ {f}
    /\ outdated' = outdated \cup {f}
    /\ outdated_ready' = IF po_dep_count[f] = 0 THEN outdated_ready \cup {f} ELSE outdated_ready
    /\ UNCHANGED <<po_dep_count, history, deps, visits, stack, awaited, early, after, known, phase>>

\* the rest of ensure*UpToDate, after the call of analyze*.  A function ends before its
\* body begins when its owner failed or declares another one by now; it keeps its old
\* dependencies then.
Finish(changed) ==
    LET u == Top IN
    /\ Analysing
    /\ u \in early => OwnerOf[u] \in known \ Marked
    /\ stack' = Front(stack)
    /\ awaited' = awaited \ {u}
    /\ early' = early \ {u}
    /\ visits' = IF u \in awaited
                 THEN Visit(IF changed THEN "outdated" ELSE "up_to_date", u, deps) ELSE {}
    /\ stale' = IF u \in awaited /\ changed THEN stale \cup (Dependers(u, deps) \ fresh) ELSE stale
    /\ after' = IF \E t \in DOMAIN ValueOf : ValueOf[t] = u THEN u ELSE NoUnit
    /\ UNCHANGED <<maps, deps, known, phase, fresh>>

\* type_deps_on_val: the nav_ty of a declaration without a type body
ResolveTypeOf(t) ==
    /\ visits = {} /\ after # NoUnit /\ ValueOf[t] = after
    /\ Unmark(t)
    /\ after' = NoUnit
    /\ known' = known \cup {t}
    /\ fresh' = fresh \cup {t}
    /\ IF t \in Marked
       THEN /\ deps' = WithoutDeps(t, deps) \cup {<<t, after>>}
            /\ visits' = Visit("outdated", t, WithoutDeps(t, deps))
            /\ stale' = (stale \cup (Dependers(t, deps) \ fresh)) \ {t}
       ELSE /\ deps' = deps \cup {<<t, after>>}
            /\ UNCHANGED <<visits, stale>>
    /\ UNCHANGED <<stack, awaited, early, phase>>

----------------------------------------------------------------------------
(* The work loop of performAllTheWork. *)

\* a job of the work queue; one for a unit that is up to date does nothing
Job(u) ==
    /\ Idle
    /\ Resolver(u) \in Marked \/ u \notin known
    /\ KindOf[u] # "comptime" \/ u \in known
    /\ Ensure(u, deps, fresh)

\* findOutdatedToAnalyze
Candidates == {u \in Marked : KindOf[u] \notin {"func", "comptime"}}
DependerCount(u) == Cardinality(Dependers(u, deps))

FindReady ==
    /\ Idle /\ \E u \in outdated_ready : Ensure(u, deps, fresh)

FindInLoop ==
    /\ Idle /\ outdated # {} /\ outdated_ready = {}
    /\ \E u \in Candidates :
          /\ \A w \in Candidates : DependerCount(w) <= DependerCount(u)
          /\ Ensure(u, deps, fresh)

FindNothing ==
    /\ Idle /\ outdated = {}
    /\ potentially_outdated' = {}
    /\ po_dep_count' = [u \in Units |-> 0]
    /\ phase' = "edit"
    /\ fresh' = {}
    /\ UNCHANGED <<outdated, outdated_ready, stale, deps, visits, stack, awaited, early, after, known>>

----------------------------------------------------------------------------
\* what the main thread does by itself once it has begun
Progress ==
    \/ VisitNext
    \/ OwnerFirst \/ BeginBody
    \/ \E changed \in BOOLEAN : Finish(changed)
    \/ \E t \in DOMAIN ValueOf : ResolveTypeOf(t)
    \/ FindReady \/ FindInLoop \/ FindNothing

Next ==
    \/ Progress
    \/ \E u \in Units : Declare(u) \/ UnresolveIes(u) \/ Job(u) \/ NewComptime(u)
    \/ \E t, d \in Units : ResolveField(t, d)
    \/ \E s \in Sources : Edit(s)
    \/ StartAnalysis

Spec == Init /\ [][Next]_vars

\* The main thread goes on.  It need not come across other units, and there need be no job
\* for a unit that is outdated: findOutdatedToAnalyze must find it.
FairSpec == Spec /\ WF_vars(Progress)
----------------------------------------------------------------------------
(* Properties. *)

TypeOK ==
    /\ outdated \subseteq Units /\ potentially_outdated \subseteq Units
    /\ outdated_ready \subseteq Units
    /\ po_dep_count \in [Units -> Nat]
    /\ deps \subseteq Units \X (Units \cup Sources)
    /\ visits \subseteq {"edited", "po", "outdated", "up_to_date"} \X Units \X (Units \cup Sources)
    /\ stack \in Seq(Units) /\ awaited \subseteq Units /\ early \subseteq DOMAIN OwnerOf
    /\ after \in Units \cup {NoUnit}
    /\ known \subseteq Units /\ phase \in {"edit", "analyze"}
    /\ fresh \subseteq Units /\ stale \subseteq Units

\* what w waits for: dependees that are outdated, PO or being analysed again, but for those
\* the marking has not followed yet, and those whose verdict is on the way
WaitsFor(w) ==
    {d \in Units :
        /\ <<w, d>> \in deps
        /\ \/ d \in Marked \cup awaited /\ <<"po", w, d>> \notin visits
           \/ <<"outdated", w, d>> \in visits \/ <<"up_to_date", w, d>> \in visits}

\* The count of an outdated or PO unit is the number of the dependees it waits for, in the
\* middle of every marking too (Zcu.zig:249): so the unsigned counts never underflow.  And
\* outdated_ready "contains all AnalUnits in outdated whose PO dependency count is 0"
\* (Zcu.zig:256) and no other: what can be analysed is found, what waits is not taken early.
CountsExact ==
    /\ \A w \in Marked : po_dep_count[w] = Cardinality(WaitsFor(w))
    /\ outdated_ready = {w \in outdated : po_dep_count[w] = 0}

\* A unit that has read something which changed since is known to be outdated; so an
\* update that has emptied `outdated` may forget the PO units (Zcu.zig:3170).
NothingStale == visits = {} => stale \subseteq outdated

\* What was analysed in this update is not outdated or PO again: no unit is analysed twice.
NotTwice == fresh \cap Marked = {}

\* When everything outdated waits for something, some unit may be chosen to break the loop:
\* "a function can't be responsible for the loop (IES dependencies can't have loops)"
\* (Zcu.zig:3204); otherwise chosen_unit is null when it is unwrapped.
LoopHasChoice == Idle /\ outdated # {} /\ outdated_ready = {} => Candidates # {}

\* Every update ends: the work loop does not take the same unit again and again.
UpdateEnds == phase = "analyze" ~> phase = "edit"
=============================================================================
