---------------------------- MODULE JobLifecycle ----------------------------
(***************************************************************************)
(* What the Planning screen may ever show of one planning job: how the     *)
(* status and the stage of a frame evolve, without the fire-and-forget     *)
(* writes, the drain and the exceptions that bring it about.  PlanningJob  *)
(* implements it.                                                          *)
(***************************************************************************)
EXTENDS Naturals

CONSTANT StageCount  \* len(PLAN_STAGES)

VARIABLES
  state,   \* "none", "queued", "running", "succeeded", "failed" or "gone"
  stage,   \* index of the stage shown, 0 before the first
  trouble  \* a command of the job's own was refused by Redis

vars == <<state, stage, trouble>>

Init == state = "none" /\ stage = 0 /\ trouble = FALSE

Steps(from, to) == state \in from /\ state' = to

Create == Steps({"none"}, "queued") /\ UNCHANGED <<stage, trouble>>

\* A running job only moves forward.
Advance ==
  /\ Steps({"queued", "running"}, "running")
  /\ stage' \in stage..StageCount
  /\ stage' > 0
  /\ UNCHANGED trouble

\* A job is queued until it runs, and ends once.
Succeed == Steps({"running"}, "succeeded") /\ UNCHANGED <<stage, trouble>>

Fail == Steps({"queued", "running"}, "failed") /\ UNCHANGED <<stage, trouble>>

\* A refused command of the job turns even a success into a failure.
Relapse == trouble /\ Steps({"succeeded"}, "failed") /\ UNCHANGED <<stage, trouble>>

Refuse == trouble' = TRUE /\ UNCHANGED <<state, stage>>

Vanish == Steps({"queued", "running", "succeeded", "failed"}, "gone") /\ stage' = 0 /\ UNCHANGED trouble

Next == Create \/ Advance \/ Succeed \/ Fail \/ Relapse \/ Refuse \/ Vanish

Spec == Init /\ [][Next]_vars
=============================================================================
