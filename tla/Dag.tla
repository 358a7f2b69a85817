-------------------------------- MODULE Dag --------------------------------
(***************************************************************************)
(* The dependency graph of a production package, as                        *)
(* services/scheduler/scheduler/dag.py walks it.  A package's assets are   *)
(* the Nodes; DependsOn gives each node's depends_on list.  Every operator *)
(* takes the statuses as an argument, because the code builds a Dag from a *)
(* package whose statuses were read at some moment (get_package), not from *)
(* the live hashes.                                                        *)
(***************************************************************************)
EXTENDS Naturals, FiniteSets

CONSTANTS
  Nodes,       \* node ids of the package's assets
  DependsOn    \* node id -> set of ids in its depends_on list

Status == {"pending", "dispatched", "succeeded", "failed", "dead-lettered"}

FailedStatus == {"failed", "dead-lettered"}

\* The list may name ids that are not assets of the package; dag.py skips those.
Deps(n) == DependsOn[n] \cap Nodes

\* Every non-empty set of nodes has one that depends on no other of the set.
Acyclic ==
  \A S \in (SUBSET Nodes) \ {{}} : \E n \in S : Deps(n) \cap S = {}

-----------------------------------------------------------------------------
\* Mutant: a dependency only must not have failed.
DepsNotFailed(st, n) == \A d \in Deps(n) : st[d] \notin FailedStatus

DepsSucceeded(st, n) == \A d \in Deps(n) : st[d] = "succeeded"

ReadyNodes(st) == {n \in Nodes : st[n] = "pending" /\ DepsSucceeded(st, n)}

\* Mutant: is_complete in place of all_succeeded.
AllTerminal(st) == \A n \in Nodes : st[n] \in {"succeeded"} \cup FailedStatus

\* Vacuously true of a package without assets, as Python's all() is.
AllSucceeded(st) == \A n \in Nodes : st[n] = "succeeded"

\* Mutant: a finished run counts as blocked too.
IsQuiet(st) ==
  /\ ReadyNodes(st) = {}
  /\ \A n \in Nodes : st[n] # "dispatched"

IsBlocked(st) ==
  /\ ~AllSucceeded(st)
  /\ ReadyNodes(st) = {}
  /\ \A n \in Nodes : st[n] # "dispatched"

IsEditable(st, n) ==
  \/ st[n] \in FailedStatus
  \/ st[n] = "pending" /\ ~DepsSucceeded(st, n)

\* Everything n transitively depends on.  Well defined on an acyclic graph.
Upstream ==
  LET up[n \in Nodes] == Deps(n) \cup UNION {up[d] : d \in Deps(n)}
  IN  up

FailedUpstream(st, n) == {d \in Upstream[n] : st[d] \in FailedStatus}

\* The entry of blocked_by for n; the code leaves out nodes whose entry is empty.
BlockedBy(st, n) ==
  IF st[n] = "pending" THEN FailedUpstream(st, n) ELSE {}
=============================================================================
