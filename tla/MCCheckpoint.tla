---------------------------- MODULE MCCheckpoint ----------------------------
(***************************************************************************)
(* Checkpoint for TLC.  Callers and jobs are interchangeable, project ids  *)
(* are not: the film is one of them.                                       *)
(***************************************************************************)
EXTENDS Checkpoint, TLC

\* Sound for invariants and action properties, not used with liveness.
Symmetry == Permutations(Approvers) \cup Permutations(Jobs)
=============================================================================
