----------------------------- MODULE DaemonTick -----------------------------
(***************************************************************************)
(* The loop around the DAG-walker: run_daemon of services/scheduler/       *)
(* scheduler/daemon.py walks all approved packages in one try block, once  *)
(* a tick.  What a step does to its package is RenderRun's; here a step    *)
(* counts, may raise, and may be the last one before a shutdown.           *)
(***************************************************************************)
EXTENDS Naturals, FiniteSets

CONSTANTS
  Films,      \* projects that may be approved
  Goal,       \* bound: steps of one film that are counted
  MaxRaises   \* bound: steps that raise

ASSUME TickAssumption == Goal \in Nat /\ MaxRaises \in Nat

VARIABLES
  inSet,   \* projects:approved
  lostFilm,  \* films whose package neither store has
  tick,    \* "sleep", "walk" or "stopped"
  toVisit, \* films of this tick still to come, in no fixed order
  advanced, \* steps of each film so far, up to Goal
  raises,
  stop     \* the shutdown event is set

tickVars == <<inSet, lostFilm, tick, toVisit, advanced, raises, stop>>

TickInit ==
  /\ inSet = {}
  /\ lostFilm \in {{}} \cup {{f} : f \in Films}
  /\ tick = "sleep"
  /\ toVisit = {}
  /\ advanced = [f \in Films |-> 0]
  /\ raises = 0
  /\ stop = FALSE

ApproveFilm(f) == inSet' = inSet \cup {f} /\ UNCHANGED <<lostFilm, tick, toVisit, advanced, raises, stop>>

\* iter_approved_packages: the members at this moment.
StartTick ==
  /\ tick = "sleep" /\ ~stop
  /\ tick' = "walk" /\ toVisit' = inSet
  /\ UNCHANGED <<inSet, lostFilm, advanced, raises, stop>>

\* get_package and _advance; a package nobody has is passed over.
VisitFilm(f) ==
  /\ tick = "walk" /\ f \in toVisit
  /\ toVisit' = toVisit \ {f}
  /\ advanced' = IF f \in lostFilm \/ advanced[f] = Goal THEN advanced
                 ELSE [advanced EXCEPT ![f] = @ + 1]
  /\ UNCHANGED <<inSet, lostFilm, tick, raises, stop>>

\* Mutant: the loop is inside the try block.
VisitEndsDaemon(f) ==
  /\ tick = "walk" /\ f \in toVisit \ lostFilm /\ raises < MaxRaises
  /\ raises' = raises + 1
  /\ tick' = "stopped" /\ toVisit' = {}
  /\ UNCHANGED <<inSet, lostFilm, advanced, stop>>

\* The exception ends the tick for every film after this one.
VisitRaises(f) ==
  /\ tick = "walk" /\ f \in toVisit \ lostFilm /\ raises < MaxRaises
  /\ raises' = raises + 1
  /\ tick' = "sleep" /\ toVisit' = {}
  /\ UNCHANGED <<inSet, lostFilm, advanced, stop>>

EndTick ==
  /\ tick = "walk" /\ toVisit = {}
  /\ tick' = "sleep"
  /\ UNCHANGED <<inSet, lostFilm, toVisit, advanced, raises, stop>>

\* _stop_daemon sets the event and awaits the task.
SetStop == ~stop /\ stop' = TRUE /\ UNCHANGED <<inSet, lostFilm, tick, toVisit, advanced, raises>>

StopTick ==
  /\ tick = "sleep" /\ stop
  /\ tick' = "stopped"
  /\ UNCHANGED <<inSet, lostFilm, toVisit, advanced, raises, stop>>

Daemon == StartTick \/ EndTick \/ StopTick \/ \E f \in Films : VisitFilm(f)

TickNext == Daemon \/ SetStop \/ \E f \in Films : ApproveFilm(f) \/ VisitRaises(f)

\* While steps do not keep raising, every approved film is advanced again and again until the
\* service is stopped: one that fails now and then delays the others and starves none.  A
\* shutdown waits for the tick to end and comes, whatever the tick raises
\* (the try block of run_daemon).
EveryFilmIsServed ==
  /\ \A f \in Films : (f \in inSet \ lostFilm) ~> (advanced[f] = Goal \/ stop)
  /\ stop ~> tick = "stopped"
  /\ [](tick = "stopped" => stop /\ toVisit = {})
=============================================================================
