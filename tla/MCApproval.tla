----------------------------- MODULE MCApproval -----------------------------
(***************************************************************************)
(* Checkpoint for TLC, without PUTs and with liveness: approvals against   *)
(* revisions, and approvals against approvals.  Each initial state picks   *)
(* its cast, so that the state space is the sum of two and not one in      *)
(* which everybody meets.                                                  *)
(***************************************************************************)
EXTENDS Checkpoint

CONSTANTS a1, a2, j1, j2, good, better

VARIABLE cast  \* who takes part, and what packages say, in this behaviour

\* One approval against two revisions that may change what the draft says; two approvals
\* of versions that one job made, where only takes and the approved set change.
Casts ==
  {[approvers |-> {a1}, jobs |-> {j1, j2}, contents |-> {good, better}],
   [approvers |-> {a1, a2}, jobs |-> {j1}, contents |-> {good}]}

InCast ==
  /\ \A a \in Approvers \ cast.approvers : approver[a].pc = "idle"
  /\ \A j \in Jobs \ cast.jobs : job[j].pc = "idle"
  /\ \A p \in Projects : pkg[p] # None => pkg[p].content \in cast.contents
  /\ \A j \in Jobs : job[j].content \in cast.contents \cup {None}

MCInit == cast \in Casts /\ Init /\ InCast
MCNext == Next /\ UNCHANGED cast /\ InCast'

MCSpec == MCInit /\ [][MCNext]_<<vars, cast>> /\ Fairness
=============================================================================
