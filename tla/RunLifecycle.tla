---------------------------- MODULE RunLifecycle ----------------------------
(***************************************************************************)
(* What an approved run promises to the person who watches it, without the *)
(* broker, the workers, the snapshots and the API calls that bring it      *)
(* about: how the phase of a run and the statuses of its nodes may evolve  *)
(* together, as the README, the docstring of scheduler/daemon.py and the   *)
(* phase checks of scheduler/main.py have it.  RenderRun implements it     *)
(* when one person at a time retries and no message is delivered twice.    *)
(***************************************************************************)
EXTENDS Dag

VARIABLES phase, status

vars == <<phase, status>>

Init ==
  /\ phase = "none"
  /\ status \in [Nodes -> {"pending", "succeeded"}]

SetPhase(from, to) == phase = from /\ phase' = to /\ UNCHANGED status

SetStatus(n, from, to) ==
  /\ status[n] \in from
  /\ \E s \in to : status' = [status EXCEPT ![n] = s]
  /\ UNCHANGED phase

Begin == SetPhase("none", "executing")

\* Only an executing run dispatches, and only a node whose inputs are final.
Dispatch(n) ==
  /\ phase = "executing"
  /\ DepsSucceeded(status, n)
  /\ SetStatus(n, {"pending"}, {"dispatched"})

\* The broker refused the task.
TakeBack(n) == SetStatus(n, {"dispatched"}, {"pending"})

Land(n) == SetStatus(n, {"dispatched"}, {"succeeded"} \cup FailedStatus)

\* Only what failed is rendered again, and never behind the compositor's back.
Retry(n) ==
  /\ phase \in {"executing", "blocked", "paused"}
  /\ SetStatus(n, FailedStatus, {"pending"})

Block == ~AllSucceeded(status) /\ SetPhase("executing", "blocked")

Resume == ReadyNodes(status) # {} /\ SetPhase("blocked", "executing")

Pause == ReadyNodes(status) # {} /\ SetPhase("executing", "paused")

HandOff == AllSucceeded(status) /\ SetPhase("executing", "compositing")

Complete == SetPhase("compositing", "complete")

Next ==
  \/ Begin \/ Block \/ Resume \/ Pause \/ HandOff \/ Complete
  \/ \E n \in Nodes : Dispatch(n) \/ TakeBack(n) \/ Land(n) \/ Retry(n)

Spec == Init /\ [][Next]_vars
=============================================================================
