---------------------------- MODULE NodeHistory ----------------------------
(***************************************************************************)
(* One node's hash in Redis and its row in Postgres: set_node_status and   *)
(* reset_node of libs/state/state/store.py with the upserts of pg.py.  The *)
(* daemon, the worker and a retry each mirror a commit before they go on,  *)
(* but not before another of them commits.                                 *)
(***************************************************************************)
EXTENDS Naturals

CONSTANT MaxCommits  \* bound: writes of the node

ASSUME HistoryAssumption == MaxCommits \in Nat

VARIABLES
  hash,       \* node:{project}:{node}: status and error
  record,     \* the node_history row, absent until the first write
  unmirrored, \* by actor: the write it still has to mirror
  committed,  \* writes so far
  landed,     \* the latest write whose mirror is in
  upset       \* a mirror was lost, or overtaken by that of a later write

historyVars == <<hash, record, unmirrored, committed, landed, upset>>

Actors == {"daemon", "worker", "retry"}
Written == [status |-> "none", error |-> FALSE, seq |-> 0, reset |-> FALSE]
NoRecord == [status |-> "none", error |-> FALSE]

HistoryInit ==
  /\ hash = [status |-> "pending", error |-> FALSE]
  /\ record = NoRecord
  /\ unmirrored = [a \in Actors |-> Written]
  /\ committed = 0 /\ landed = 0
  /\ upset = FALSE

CommitNode(a, after, given, reset) ==
  /\ unmirrored[a] = Written
  /\ committed < MaxCommits
  /\ committed' = committed + 1
  /\ hash' = after
  /\ unmirrored' = [unmirrored EXCEPT ![a] =
       [status |-> after.status, error |-> given, seq |-> committed + 1, reset |-> reset]]
  /\ UNCHANGED <<record, landed, upset>>

\* set_node_status touches the fields it is given, so an error would survive.
MarkDispatched ==
  hash.status = "pending" /\ CommitNode("daemon", [hash EXCEPT !.status = "dispatched"], FALSE, FALSE)

\* The broker refused the task: the mark is taken back.
TakeBack ==
  /\ hash.status = "dispatched"
  /\ CommitNode("daemon", [hash EXCEPT !.status = "pending"], FALSE, FALSE)

\* The task is sent when the daemon's write is mirrored.
LandNode(status) ==
  /\ hash.status = "dispatched" /\ unmirrored["daemon"] = Written
  /\ CommitNode("worker", [status |-> status, error |-> hash.error \/ status = "failed"],
                status = "failed", FALSE)

ResetHash ==
  hash.status = "failed" /\ CommitNode("retry", [status |-> "pending", error |-> FALSE], FALSE, TRUE)

\* Mutant: a retry is mirrored by the upsert, which clears no field.
RowCoalesced(m) == [status |-> m.status, error |-> m.error \/ record.error]

\* _UPSERT_NODE keeps what it is not given, _RESET_NODE updates a row that exists.
RowAfter(m) ==
  IF m.reset THEN IF record = NoRecord THEN NoRecord ELSE [status |-> m.status, error |-> FALSE]
  ELSE [status |-> m.status, error |-> m.error \/ record.error]

MirrorNode(a) ==
  /\ unmirrored[a] # Written
  /\ unmirrored' = [unmirrored EXCEPT ![a] = Written]
  /\ record' = RowAfter(unmirrored[a])
  /\ landed' = unmirrored[a].seq
  /\ upset' = (upset \/ unmirrored[a].seq < landed)
  /\ UNCHANGED <<hash, committed>>

\* Postgres is down, or the process dies first.
MirrorLost(a) ==
  /\ unmirrored[a] # Written
  /\ unmirrored' = [unmirrored EXCEPT ![a] = Written]
  /\ upset' = TRUE
  /\ UNCHANGED <<hash, record, committed, landed>>

HistoryNext ==
  \/ MarkDispatched \/ TakeBack \/ ResetHash
  \/ \E s \in {"succeeded", "failed"} : LandNode(s)
  \/ \E a \in Actors : MirrorNode(a) \/ MirrorLost(a)

\* The history of a node agrees with its hash once every mirror is in, unless one was lost or
\* overtaken: a node that succeeded at its second attempt shows no error (pg.reset_node, which
\* exists because the upsert cannot clear a field).
HistoryAgrees ==
  (\A a \in Actors : unmirrored[a] = Written) /\ committed > 0 /\ ~upset => record = hash
=============================================================================
