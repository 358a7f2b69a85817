----------------------------- MODULE RenderRun -----------------------------
(***************************************************************************)
(* One approved package from approval to final cut: the DAG-walker daemon  *)
(* (services/scheduler/scheduler/daemon.py), the Celery render queue and   *)
(* the workers (services/worker/worker), the compositor                    *)
(* (services/compositor/compositor/tasks.py), the two endpoints that       *)
(* change an approved run (retry and edit_node of scheduler/main.py) and   *)
(* the SSE stream, all communicating only through Redis                    *)
(* (libs/state/state/store.py).  Each await on Redis, on the broker or on  *)
(* a provider is a step of its own; what the code does between two awaits  *)
(* is one step.                                                            *)
(***************************************************************************)
EXTENDS Dag, Integers, FiniteSetsExt

CONSTANTS
  References,   \* node id -> ids of its reference_image_ids
  Cost,         \* node id -> what one render of the node is billed (= its estimate)
  Budget,       \* meta.budget_usd, in the unit of Cost
  Timeline,     \* nodes the timeline places: the clips and the narration
  Workers,      \* worker processes (prefetch 1: one task each)
  Retriers,     \* concurrent callers of POST /packages/{id}/retry
  Editors,      \* concurrent callers of PATCH /packages/{id}/nodes/{node_id}
  Viewers,      \* open SSE streams
  Bounds,       \* how often each thing of BoundedKinds may happen
  Idle          \* "no node": what an idle actor is working on

\* Things a finite model has to cap: calls of users, and faults.
BoundedKinds ==
  {"retry",            \* POST /retry accepted
   "edit",             \* PATCH committed
   "providerFailure",  \* a render ends in a ProviderError or another exception
   "sendFailure",      \* send_task of a render raises and nothing was enqueued
   "lateSendFailure",  \* ... raises although the broker has the message
   "handoffFailure",   \* send_task of the composite raises
   "daemonAbort",      \* the daemon dies, or a Redis call of a tick raises
   "taskCrash",        \* a worker or compositor process dies holding a task
   "redelivery",       \* visibility_timeout passes while the task still runs
   "compositeFailure"} \* the composite task raises

ASSUME RunAssumption ==
  /\ DependsOn \in [Nodes -> SUBSET Nodes]
  /\ References \in [Nodes -> SUBSET Nodes]
  /\ Cost \in [Nodes -> Nat]
  /\ Budget \in Nat
  /\ Timeline \in SUBSET Nodes
  /\ Bounds \in [BoundedKinds -> Nat]
  /\ Idle \notin Nodes
  /\ "unread" \notin Status

Phase == {"none", "executing", "compositing", "complete", "blocked", "paused"}

RecoverablePhases == {"executing", "blocked"}

NoAsset == -1   \* in place of a content: the node has no asset_url / provider_url

VARIABLES
  phase,          \* project:{id}:phase
  status,         \* status field of each node hash
  spec,           \* pkg:{id}: which revision of its content each node has
  made,           \* asset fields of each node hash: the contents it was made from
  spent,          \* cost:{id}
  finalCut,       \* project:{id}:final_url: the contents in the final cut
  renderQueue,    \* broker queue "render": undelivered messages per node
  compositeQueue, \* broker queue "composite": undelivered messages
  handoffs,       \* history: how often COMPOSITE_TASK was sent
  daemon,         \* the daemon's program counter, snapshot and work list
  worker,         \* each worker's program counter and locals
  compositor,     \* the compositor's program counter and loaded package
  retrier,        \* the POST /retry calls in progress
  editor,         \* the PATCH calls in progress
  viewer,         \* the SSE streams
  left            \* how often each bounded thing may still happen

redis == <<phase, status, spec, made, spent, finalCut>>
broker == <<renderQueue, compositeQueue, handoffs>>
clients == <<retrier, editor, viewer>>
vars == <<redis, broker, daemon, worker, compositor, clients, left>>

Use(kind) ==
  /\ left[kind] > 0
  /\ left' = [left EXCEPT ![kind] = @ - 1]

\* The contents that went into an asset or a cut, per node.
Nothing == [m \in Nodes |-> NoAsset]

HasAsset(n) == made[n][n] # NoAsset

\* What a render started now is made from: the node's own content and the
\* provider URLs its references have at this moment (get_dep_provider_urls).
InputsOf(n) ==
  [m \in Nodes |-> IF m = n THEN spec[n]
                   ELSE IF m \in References[n] THEN made[m][m]
                   ELSE NoAsset]

NoSnapshot == [n \in Nodes |-> "unread"]

DaemonIdle == [pc |-> "scan", seen |-> NoSnapshot, todo |-> {}, node |-> Idle]
WorkerIdle == [pc |-> "idle", node |-> Idle, inputs |-> Nothing]
CompositorIdle == [pc |-> "idle", cut |-> Nothing]
RetrierIdle == [pc |-> "idle", todo |-> {}]
EditorIdle == [pc |-> "idle", node |-> Idle, waiting |-> FALSE, allowed |-> {}]
ViewerIdle == [pc |-> "read", phase |-> "none", cut |-> Nothing]

\* A package fresh from approve_and_seed: any set of nodes may be seeded with the
\* asset of an identical render of another version, the others are pending.  A
\* seeded hash carries the asset's URLs, not what the asset was rendered from.
Init ==
  /\ phase = "none"
  /\ \E seeded \in SUBSET Nodes :
       /\ status = [n \in Nodes |-> IF n \in seeded THEN "succeeded" ELSE "pending"]
       /\ made = [n \in Nodes |->
                    IF n \in seeded THEN [Nothing EXCEPT ![n] = 0] ELSE Nothing]
  /\ spec = [n \in Nodes |-> 0]
  /\ spent = 0
  /\ finalCut = Nothing
  /\ renderQueue = [n \in Nodes |-> 0]
  /\ compositeQueue = 0
  /\ handoffs = 0
  /\ daemon = DaemonIdle
  /\ worker = [w \in Workers |-> WorkerIdle]
  /\ compositor = CompositorIdle
  /\ retrier = [r \in Retriers |-> RetrierIdle]
  /\ editor = [e \in Editors |-> EditorIdle]
  /\ viewer = [v \in Viewers |-> ViewerIdle]
  /\ left = Bounds

-----------------------------------------------------------------------------
(* The daemon: one tick of run_daemon for this package. *)

\* iter_approved_packages hydrates the package one node hash at a time, so the
\* statuses of the snapshot are read at different moments.
TickReadNode(n) ==
  /\ daemon.pc = "scan"
  /\ daemon.seen[n] = "unread"
  /\ daemon' = [daemon EXCEPT !.seen[n] = status[n]]
  /\ UNCHANGED <<redis, broker, worker, compositor, clients, left>>

SnapshotTaken ==
  daemon.pc = "scan" /\ \A n \in Nodes : daemon.seen[n] # "unread"

\* First sight of a freshly approved package.
TickBegin ==
  /\ SnapshotTaken
  /\ phase = "none"
  /\ phase' = "executing"
  /\ daemon' = [daemon EXCEPT !.pc = "decide"]
  /\ UNCHANGED <<status, spec, made, spent, finalCut,
                 broker, worker, compositor, clients, left>>

\* Mutant: a blocked run stays the human's to move.
TickRecoverReturns ==
  /\ SnapshotTaken
  /\ phase = "blocked"
  /\ ReadyNodes(daemon.seen) # {}
  /\ daemon' = DaemonIdle
  /\ UNCHANGED <<redis, broker, worker, compositor, clients, left>>

\* A blocked run with ready work was recovered by a retry, or was never blocked.
TickRecover ==
  /\ SnapshotTaken
  /\ phase = "blocked"
  /\ ReadyNodes(daemon.seen) # {}
  /\ phase' = "executing"
  /\ daemon' = [daemon EXCEPT !.pc = "decide"]
  /\ UNCHANGED <<status, spec, made, spent, finalCut,
                 broker, worker, compositor, clients, left>>

TickResume ==
  /\ SnapshotTaken
  /\ phase = "executing"
  /\ daemon' = [daemon EXCEPT !.pc = "decide"]
  /\ UNCHANGED <<redis, broker, worker, compositor, clients, left>>

\* compositing waits on the compositor; complete, paused and blocked on a human.
TickPark ==
  /\ SnapshotTaken
  /\ \/ phase \in {"compositing", "complete", "paused"}
     \/ phase = "blocked" /\ ReadyNodes(daemon.seen) = {}
  /\ daemon' = DaemonIdle
  /\ UNCHANGED <<redis, broker, worker, compositor, clients, left>>

\* Mutant: the phase is left to the compositor to set.
HandOffKeepsPhase ==
  /\ daemon.pc = "decide"
  /\ AllSucceeded(daemon.seen)
  /\ daemon' = [daemon EXCEPT !.pc = "handoff", !.seen = NoSnapshot]
  /\ UNCHANGED <<redis, broker, worker, compositor, clients, left>>

\* The phase is set first, the task sent after: see SendComposite.
HandOff ==
  /\ daemon.pc = "decide"
  /\ AllSucceeded(daemon.seen)
  /\ phase' = "compositing"
  /\ daemon' = [daemon EXCEPT !.pc = "handoff", !.seen = NoSnapshot]
  /\ UNCHANGED <<status, spec, made, spent, finalCut,
                 broker, worker, compositor, clients, left>>

\* Mutant: the stall is logged but not written.
BlockOnlyLogs ==
  /\ daemon.pc = "decide"
  /\ IsBlocked(daemon.seen)
  /\ daemon' = DaemonIdle
  /\ UNCHANGED <<redis, broker, worker, compositor, clients, left>>

Block ==
  /\ daemon.pc = "decide"
  /\ IsBlocked(daemon.seen)
  /\ phase' = "blocked"
  /\ daemon' = DaemonIdle
  /\ UNCHANGED <<status, spec, made, spent, finalCut,
                 broker, worker, compositor, clients, left>>

\* The list of ready nodes is computed once per tick; empty while all is in flight.
PlanDispatch ==
  /\ daemon.pc = "decide"
  /\ ~AllSucceeded(daemon.seen)
  /\ ~IsBlocked(daemon.seen)
  /\ daemon' = IF ReadyNodes(daemon.seen) = {}
               THEN DaemonIdle
               ELSE [daemon EXCEPT !.pc = "dispatch", !.seen = NoSnapshot,
                                   !.todo = ReadyNodes(daemon.seen)]
  /\ UNCHANGED <<redis, broker, worker, compositor, clients, left>>

\* Mutant: the estimate of the node is not added.
WithinBudgetSpentOnly(n) == spent <= Budget

WithinBudget(n) == spent + Cost[n] <= Budget

\* CostTracker.reserve compares, it reserves nothing.
Reserve(n) ==
  /\ daemon.pc = "dispatch"
  /\ n \in daemon.todo
  /\ WithinBudget(n)
  /\ daemon' = [daemon EXCEPT !.pc = "mark", !.node = n]
  /\ UNCHANGED <<redis, broker, worker, compositor, clients, left>>

Pause(n) ==
  /\ daemon.pc = "dispatch"
  /\ n \in daemon.todo
  /\ ~WithinBudget(n)
  /\ phase' = "paused"
  /\ daemon' = DaemonIdle
  /\ UNCHANGED <<status, spec, made, spent, finalCut,
                 broker, worker, compositor, clients, left>>

\* Mutant: the task is sent without marking the node.
MarkSkipped ==
  /\ daemon.pc = "mark"
  /\ daemon' = [daemon EXCEPT !.pc = "send"]
  /\ UNCHANGED <<redis, broker, worker, compositor, clients, left>>

MarkDispatched ==
  /\ daemon.pc = "mark"
  /\ status' = [status EXCEPT ![daemon.node] = "dispatched"]
  /\ daemon' = [daemon EXCEPT !.pc = "send"]
  /\ UNCHANGED <<phase, spec, made, spent, finalCut,
                 broker, worker, compositor, clients, left>>

AfterDispatch ==
  IF daemon.todo = {daemon.node}
  THEN DaemonIdle
  ELSE [daemon EXCEPT !.pc = "dispatch", !.todo = @ \ {daemon.node}, !.node = Idle]

SendRender ==
  /\ daemon.pc = "send"
  /\ renderQueue' = [renderQueue EXCEPT ![daemon.node] = @ + 1]
  /\ daemon' = AfterDispatch
  /\ UNCHANGED <<redis, compositeQueue, handoffs, worker, compositor, clients, left>>

\* send_task raises; on a lost acknowledgement the broker has the message anyway.
SendRenderFails ==
  /\ daemon.pc = "send"
  /\ \/ Use("sendFailure") /\ UNCHANGED renderQueue
     \/ /\ Use("lateSendFailure")
        /\ renderQueue' = [renderQueue EXCEPT ![daemon.node] = @ + 1]
  /\ daemon' = [daemon EXCEPT !.pc = "revert"]
  /\ UNCHANGED <<redis, compositeQueue, handoffs, worker, compositor, clients>>

\* Mutant: no except branch around send_task.
RevertSkipped ==
  /\ daemon.pc = "revert"
  /\ daemon' = DaemonIdle
  /\ UNCHANGED <<redis, broker, worker, compositor, clients, left>>

\* The except branch puts the node back and re-raises, which ends the tick.
RevertDispatch ==
  /\ daemon.pc = "revert"
  /\ status' = [status EXCEPT ![daemon.node] = "pending"]
  /\ daemon' = DaemonIdle
  /\ UNCHANGED <<phase, spec, made, spent, finalCut,
                 broker, worker, compositor, clients, left>>

SendComposite ==
  /\ daemon.pc = "handoff"
  /\ compositeQueue' = compositeQueue + 1
  /\ handoffs' = handoffs + 1
  /\ daemon' = DaemonIdle
  /\ UNCHANGED <<redis, renderQueue, worker, compositor, clients, left>>

\* No except branch here: the tick ends with the phase already compositing.
SendCompositeFails ==
  /\ daemon.pc = "handoff"
  /\ Use("handoffFailure")
  /\ daemon' = DaemonIdle
  /\ UNCHANGED <<redis, broker, worker, compositor, clients>>

\* The process dies, or a Redis call raises and run_daemon swallows the tick: the
\* next tick starts from Redis alone.
DaemonAbort ==
  /\ daemon # DaemonIdle
  /\ Use("daemonAbort")
  /\ daemon' = DaemonIdle
  /\ UNCHANGED <<redis, broker, worker, compositor, clients>>

-----------------------------------------------------------------------------
(* The workers: one Celery task renders one node. *)

TakeRender(w, n) ==
  /\ worker[w].pc = "idle"
  /\ renderQueue[n] > 0
  /\ renderQueue' = [renderQueue EXCEPT ![n] = @ - 1]
  /\ worker' = [worker EXCEPT ![w] = [WorkerIdle EXCEPT !.pc = "load", !.node = n]]
  /\ UNCHANGED <<redis, compositeQueue, handoffs, daemon, compositor, clients, left>>

\* get_package for the content, get_dep_provider_urls for the reference images:
\* the payload is fixed before the first submit and reused by its retries.
LoadNode(w) ==
  /\ worker[w].pc = "load"
  /\ worker' = [worker EXCEPT ![w].pc = "submit",
                              ![w].inputs = InputsOf(worker[w].node)]
  /\ UNCHANGED <<redis, broker, daemon, compositor, clients, left>>

\* One of at most three attempts was accepted by the provider.
Submit(w) ==
  /\ worker[w].pc = "submit"
  /\ worker' = [worker EXCEPT ![w].pc = "poll"]
  /\ UNCHANGED <<redis, broker, daemon, compositor, clients, left>>

RecordCost(w) ==
  /\ worker[w].pc = "poll"
  /\ spent' = spent + Cost[worker[w].node]
  /\ worker' = [worker EXCEPT ![w].pc = "archive"]
  /\ UNCHANGED <<phase, status, spec, made, finalCut,
                 broker, daemon, compositor, clients, left>>

\* The provider billed a job that failed (a blacked-out image).
RecordBilledFailure(w) ==
  /\ worker[w].pc = "poll"
  /\ Use("providerFailure")
  /\ spent' = spent + Cost[worker[w].node]
  /\ worker' = [worker EXCEPT ![w].pc = "billed"]
  /\ UNCHANGED <<phase, status, spec, made, finalCut,
                 broker, daemon, compositor, clients>>

\* One HSET writes the status together with the asset's URLs.
RenderSucceeds(w) ==
  LET n == worker[w].node IN
  /\ worker[w].pc = "archive"
  /\ status' = [status EXCEPT ![n] = "succeeded"]
  /\ made' = [made EXCEPT ![n] = worker[w].inputs]
  /\ worker' = [worker EXCEPT ![w] = WorkerIdle]
  /\ UNCHANGED <<phase, spec, spent, finalCut,
                 broker, daemon, compositor, clients, left>>

\* Mutant: the exception ends the task before its status is written.
LandNothing(w, s) ==
  /\ worker' = [worker EXCEPT ![w] = WorkerIdle]
  /\ UNCHANGED <<redis, broker, daemon, compositor, clients>>

\* failure_fields: a transient ProviderError, still failing after its retries, and
\* any other exception become failed, a permanent one dead-lettered.
LandFailed(w, s) ==
  /\ status' = [status EXCEPT ![worker[w].node] = s]
  /\ worker' = [worker EXCEPT ![w] = WorkerIdle]
  /\ UNCHANGED <<phase, spec, made, spent, finalCut,
                 broker, daemon, compositor, clients>>

\* The pre-flight, the submit or the poll raises; nothing is recorded as spent.
RenderFails(w) ==
  /\ worker[w].pc \in {"load", "submit", "poll"}
  /\ Use("providerFailure")
  /\ \E s \in FailedStatus : LandFailed(w, s)

\* archive_result still raises after its retries; the render is paid for.
ArchiveFails(w) ==
  /\ worker[w].pc = "archive"
  /\ Use("providerFailure")
  /\ LandFailed(w, "failed")

BilledRenderFails(w) ==
  /\ worker[w].pc = "billed"
  /\ LandFailed(w, "dead-lettered")
  /\ UNCHANGED left

\* task_acks_late: the message of a task that died is delivered again.
WorkerCrash(w) ==
  /\ worker[w].pc # "idle"
  /\ Use("taskCrash")
  /\ renderQueue' = [renderQueue EXCEPT ![worker[w].node] = @ + 1]
  /\ worker' = [worker EXCEPT ![w] = WorkerIdle]
  /\ UNCHANGED <<redis, compositeQueue, handoffs, daemon, compositor, clients>>

\* ... and so is the message of a task that outlives the visibility timeout.
Redeliver(w) ==
  /\ worker[w].pc # "idle"
  /\ Use("redelivery")
  /\ renderQueue' = [renderQueue EXCEPT ![worker[w].node] = @ + 1]
  /\ UNCHANGED <<redis, compositeQueue, handoffs, daemon, worker, compositor, clients>>

-----------------------------------------------------------------------------
(* The compositor. *)

\* The asset URLs it will download are those of the package it loads.
TakeComposite ==
  /\ compositor.pc = "idle"
  /\ compositeQueue > 0
  /\ compositeQueue' = compositeQueue - 1
  /\ compositor' = [pc |-> "render", cut |-> [n \in Nodes |->
                      IF n \in Timeline THEN made[n][n] ELSE NoAsset]]
  /\ UNCHANGED <<redis, renderQueue, handoffs, daemon, worker, clients, left>>

CanComposite ==
  Timeline # {} /\ \A n \in Timeline : compositor.cut[n] # NoAsset

\* Mutant: the phase is flipped before the URL is recorded.
SetFinalUrlLate ==
  /\ compositor.pc = "render"
  /\ CanComposite
  /\ phase' = "complete"
  /\ compositor' = [compositor EXCEPT !.pc = "finish"]
  /\ UNCHANGED <<status, spec, made, spent, finalCut,
                 broker, daemon, worker, clients, left>>

SetFinalUrl ==
  /\ compositor.pc = "render"
  /\ CanComposite
  /\ finalCut' = compositor.cut
  /\ compositor' = [compositor EXCEPT !.pc = "finish"]
  /\ UNCHANGED <<phase, status, spec, made, spent,
                 broker, daemon, worker, clients, left>>

\* Mutant: the run is left compositing.
SetCompleteSkipped ==
  /\ compositor.pc = "finish"
  /\ compositor' = CompositorIdle
  /\ UNCHANGED <<redis, broker, daemon, worker, clients, left>>

SetComplete ==
  /\ compositor.pc = "finish"
  /\ phase' = "complete"
  /\ compositor' = CompositorIdle
  /\ UNCHANGED <<status, spec, made, spent, finalCut,
                 broker, daemon, worker, clients, left>>

\* A clip without asset_url, a failed download or FFmpeg's exit status raises out of
\* the task; Celery acknowledges it and nobody changes the phase.
CompositeFails ==
  /\ compositor.pc = "render"
  /\ IF CanComposite THEN Use("compositeFailure") ELSE UNCHANGED left
  /\ compositor' = CompositorIdle
  /\ UNCHANGED <<redis, broker, daemon, worker, clients>>

CompositorCrash ==
  /\ compositor.pc # "idle"
  /\ Use("taskCrash")
  /\ compositeQueue' = compositeQueue + 1
  /\ compositor' = CompositorIdle
  /\ UNCHANGED <<redis, renderQueue, handoffs, daemon, worker, clients>>

-----------------------------------------------------------------------------
(* POST /packages/{id}/retry. *)

\* _require_recoverable_run reads the phase once, before the package.
RetryStart(r) ==
  /\ retrier[r].pc = "idle"
  /\ phase \in RecoverablePhases
  /\ Use("retry")
  /\ retrier' = [retrier EXCEPT ![r].pc = "scan"]
  /\ UNCHANGED <<redis, broker, daemon, worker, compositor, editor, viewer>>

\* Mutant: the nodes the body names are not checked against the failed ones.
RetryCollectAny(r, n) ==
  /\ retrier[r].pc = "scan"
  /\ n \notin retrier[r].todo
  /\ retrier' = [retrier EXCEPT ![r].todo = @ \cup {n}]
  /\ UNCHANGED <<redis, broker, daemon, worker, compositor, editor, viewer, left>>

\* The package is hydrated node by node; the targets are the failed nodes found,
\* or those of them the body names.
RetryCollect(r, n) ==
  /\ retrier[r].pc = "scan"
  /\ n \notin retrier[r].todo
  /\ status[n] \in FailedStatus
  /\ retrier' = [retrier EXCEPT ![r].todo = @ \cup {n}]
  /\ UNCHANGED <<redis, broker, daemon, worker, compositor, editor, viewer, left>>

\* Without targets the answer is 409.
RetryDecide(r) ==
  /\ retrier[r].pc = "scan"
  /\ retrier' = [retrier EXCEPT ![r] = IF @.todo = {} THEN RetrierIdle
                                       ELSE [@ EXCEPT !.pc = "reset"]]
  /\ UNCHANGED <<redis, broker, daemon, worker, compositor, editor, viewer, left>>

\* reset_node writes pending whatever the status has become since the scan.
ResetNode(r, n) ==
  /\ retrier[r].pc = "reset"
  /\ n \in retrier[r].todo
  /\ status' = [status EXCEPT ![n] = "pending"]
  /\ retrier' = [retrier EXCEPT ![r] = IF @.todo = {n} THEN RetrierIdle
                                       ELSE [@ EXCEPT !.todo = retrier[r].todo \ {n}]]
  /\ UNCHANGED <<phase, spec, made, spent, finalCut,
                 broker, daemon, worker, compositor, editor, viewer, left>>

-----------------------------------------------------------------------------
(* PATCH /packages/{id}/nodes/{node_id}. *)

\* Assembled packages list a node after its dependencies, so hydration reads
\* those first.
EditStart(e, n) ==
  /\ editor[e].pc = "idle"
  /\ phase \in RecoverablePhases
  /\ Use("edit")
  /\ editor' = [editor EXCEPT ![e] = [EditorIdle EXCEPT
                  !.pc = "check", !.node = n, !.waiting = ~DepsSucceeded(status, n)]]
  /\ UNCHANGED <<redis, broker, daemon, worker, compositor, retrier, viewer>>

\* Mutant: any status may be edited as long as it has not changed.
EditCheckAny(e) ==
  /\ editor[e].pc = "check"
  /\ editor' = [editor EXCEPT ![e].pc = "commit",
                              ![e].allowed = {status[editor[e].node]}]
  /\ UNCHANGED <<redis, broker, daemon, worker, compositor, retrier, viewer, left>>

\* is_editable on the snapshot; what it found narrows the statuses allowed below.
EditCheck(e) ==
  LET n == editor[e].node
      allowed == IF status[n] \in FailedStatus THEN FailedStatus
                 ELSE IF status[n] = "pending" /\ editor[e].waiting THEN {"pending"}
                 ELSE {}
  IN
  /\ editor[e].pc = "check"
  /\ editor' = [editor EXCEPT ![e] = IF allowed = {} THEN EditorIdle
                                     ELSE [@ EXCEPT !.pc = "commit", !.allowed = allowed]]
  /\ UNCHANGED <<redis, broker, daemon, worker, compositor, retrier, viewer, left>>

\* Mutant: the spec is written without looking at the node hash again.
EditCommitBlind(e) ==
  /\ editor[e].pc = "commit"
  /\ spec' = [spec EXCEPT ![editor[e].node] = @ + 1]
  /\ editor' = [editor EXCEPT ![e] = EditorIdle]
  /\ UNCHANGED <<phase, status, made, spent, finalCut,
                 broker, daemon, worker, compositor, retrier, viewer, left>>

\* update_asset_content: WATCH makes the status check and the write one step.
EditCommit(e) ==
  LET n == editor[e].node IN
  /\ editor[e].pc = "commit"
  /\ spec' = IF status[n] \in editor[e].allowed
             THEN [spec EXCEPT ![n] = @ + 1] ELSE spec
  /\ editor' = [editor EXCEPT ![e] = EditorIdle]
  /\ UNCHANGED <<phase, status, made, spent, finalCut,
                 broker, daemon, worker, compositor, retrier, viewer, left>>

-----------------------------------------------------------------------------
(* GET /packages/{id}/events: one status frame after the other. *)

\* _status_event reads the phase before it reads the final URL.
ViewPhase(v) ==
  /\ viewer[v].pc = "read"
  /\ viewer' = [viewer EXCEPT ![v].pc = "url", ![v].phase = phase]
  /\ UNCHANGED <<redis, broker, daemon, worker, compositor, retrier, editor, left>>

\* The stream closes behind a frame whose phase is complete.
ViewFinalUrl(v) ==
  /\ viewer[v].pc = "url"
  /\ viewer' = [viewer EXCEPT ![v] = IF @.phase = "complete"
                                     THEN [@ EXCEPT !.pc = "closed", !.cut = finalCut]
                                     ELSE ViewerIdle]
  /\ UNCHANGED <<redis, broker, daemon, worker, compositor, retrier, editor, left>>

-----------------------------------------------------------------------------
DaemonStep ==
  \/ \E n \in Nodes : TickReadNode(n) \/ Reserve(n) \/ Pause(n)
  \/ TickBegin \/ TickRecover \/ TickResume \/ TickPark
  \/ HandOff \/ Block \/ PlanDispatch
  \/ MarkDispatched \/ SendRender \/ SendRenderFails \/ RevertDispatch
  \/ SendComposite \/ SendCompositeFails

WorkerStep(w) ==
  \/ \E n \in Nodes : TakeRender(w, n)
  \/ LoadNode(w) \/ Submit(w) \/ RecordCost(w) \/ RenderSucceeds(w)
  \/ RenderFails(w) \/ RecordBilledFailure(w) \/ BilledRenderFails(w) \/ ArchiveFails(w)

CompositorStep == TakeComposite \/ SetFinalUrl \/ SetComplete \/ CompositeFails

RetrierStep(r) ==
  \/ RetryStart(r) \/ RetryDecide(r)
  \/ \E n \in Nodes : RetryCollect(r, n) \/ ResetNode(r, n)

EditorStep(e) ==
  \/ \E n \in Nodes : EditStart(e, n)
  \/ EditCheck(e) \/ EditCommit(e)

ViewerStep(v) == ViewPhase(v) \/ ViewFinalUrl(v)

Fault ==
  \/ DaemonAbort \/ CompositorCrash
  \/ \E w \in Workers : WorkerCrash(w) \/ Redeliver(w)

Next ==
  \/ DaemonStep
  \/ \E w \in Workers : WorkerStep(w)
  \/ CompositorStep
  \/ \E r \in Retriers : RetrierStep(r)
  \/ \E e \in Editors : EditorStep(e)
  \/ \E v \in Viewers : ViewerStep(v)
  \/ Fault

Spec == Init /\ [][Next]_vars

\* The daemon's loop never stops, Celery runs the tasks it is given, and an API
\* call once accepted runs to its end; users, providers and faults owe nothing.
Fairness ==
  /\ WF_vars(DaemonStep)
  /\ \A w \in Workers : WF_vars(WorkerStep(w))
  /\ WF_vars(CompositorStep)
  /\ \A r \in Retriers : WF_vars(retrier[r].pc # "idle" /\ RetrierStep(r))
  /\ \A e \in Editors : WF_vars(editor[e].pc # "idle" /\ EditorStep(e))
  /\ \A v \in Viewers : WF_vars(ViewerStep(v))

FairSpec == Spec /\ Fairness

-----------------------------------------------------------------------------
(* Properties.  The number of Retriers and the Bounds a property needs are those *)
(* of the runs that check it; README.md lists them.                              *)

Statuses == [Nodes -> Status]
Contents == [Nodes -> Nat \cup {NoAsset}]

DaemonType ==
  [pc : {"scan", "decide", "dispatch", "mark", "send", "revert", "handoff"},
   seen : [Nodes -> Status \cup {"unread"}], todo : SUBSET Nodes, node : Nodes \cup {Idle}]
WorkerType ==
  [pc : {"idle", "load", "submit", "poll", "billed", "archive"},
   node : Nodes \cup {Idle}, inputs : Contents]
CompositorType == [pc : {"idle", "render", "finish"}, cut : Contents]
RetrierType == [pc : {"idle", "scan", "reset"}, todo : SUBSET Nodes]
EditorType ==
  [pc : {"idle", "check", "commit"}, node : Nodes \cup {Idle},
   waiting : BOOLEAN, allowed : SUBSET Status]
ViewerType == [pc : {"read", "url", "closed"}, phase : Phase, cut : Contents]

\* Every variable keeps the shape of the Redis key, queue or local it stands for.
TypeOK ==
  /\ phase \in Phase
  /\ status \in Statuses
  /\ spec \in [Nodes -> Nat]
  /\ made \in [Nodes -> Contents]
  /\ spent \in Nat
  /\ finalCut \in Contents
  /\ renderQueue \in [Nodes -> Nat]
  /\ compositeQueue \in Nat
  /\ handoffs \in Nat
  /\ daemon \in DaemonType
  /\ daemon.pc \in {"mark", "send", "revert"} => daemon.node \in Nodes
  /\ worker \in [Workers -> WorkerType]
  /\ \A w \in Workers : worker[w].pc # "idle" <=> worker[w].node \in Nodes
  /\ compositor \in CompositorType
  /\ retrier \in [Retriers -> RetrierType]
  /\ editor \in [Editors -> EditorType]
  /\ \A e \in Editors : editor[e].pc # "idle" => editor[e].node \in Nodes
  /\ viewer \in [Viewers -> ViewerType]
  /\ left \in [BoundedKinds -> Nat]

DaemonSends(n) == daemon.pc \in {"send", "revert"} /\ daemon.node = n

Renders(w, n) == worker[w].pc # "idle" /\ worker[w].node = n

\* A node marked dispatched is somebody's business: its message waits in the broker,
\* a worker renders it, or the daemon is about to send it or to take the mark back.
\* With none of the three the daemon would wait for the node forever (is_blocked
\* takes dispatched for "in flight").
NoLostDispatch ==
  \A n \in Nodes : status[n] = "dispatched" =>
    renderQueue[n] > 0 \/ DaemonSends(n) \/ \E w \in Workers : Renders(w, n)

\* At most one paid execution of a node at a time, and only while it is dispatched:
\* the mark before the send, the scan and the status of the node hash together are
\* the only lock a render has.
RendersOnce ==
  \A n \in Nodes :
    LET executions == renderQueue[n] + Cardinality({w \in Workers : Renders(w, n)})
                      + IF DaemonSends(n) THEN 1 ELSE 0
    IN  executions > 0 => executions = 1 /\ status[n] = "dispatched"

\* A render is given every reference image of its node: the daemon dispatched it
\* after the references, which are among its dependencies, had succeeded.
InputsReady ==
  \A w \in Workers : worker[w].pc \in {"submit", "poll", "billed", "archive"} =>
    \A m \in References[worker[w].node] : worker[w].inputs[m] # NoAsset

\* A succeeded node shows its current prompt, and the current image of each reference
\* it was rendered from in this run: no edit slips in between the worker's read of the
\* spec and its success, and no reference is rendered again behind a clip.
RendersAreCurrent ==
  \A n \in Nodes : status[n] = "succeeded" =>
    /\ made[n][n] = spec[n]
    /\ \A m \in References[n] : made[n][m] \in {NoAsset, made[m][m]}

\* retry (main.py:531): everything that succeeded is kept.
SucceededIsKept ==
  [][\A n \in Nodes : status[n] = "succeeded" => status'[n] = "succeeded"]_vars

\* Once the run is handed to the compositor no retry, edit or late worker touches
\* what the compositor reads; main.py:464 refuses them by a phase read earlier.
HandedOffIsFrozen ==
  [][(phase \in {"compositing", "complete"}) =>
       status' = status /\ spec' = spec /\ made' = made]_vars

\* The phase guard of _advance stops COMPOSITE_TASK from being sent again.
HandedOffOnce == handoffs <= 1

\* The film of a complete run shows every clip, in its last edited form.
CutIsCurrent ==
  phase = "complete" => \A n \in Timeline : finalCut[n] = spec[n] /\ HasAsset(n)

\* events (main.py:592): the stream closes after final_url is set, so its last frame
\* carries the final cut.
LastFrameHasCut ==
  \A v \in Viewers : viewer[v].pc = "closed" => viewer[v].cut # Nothing

CostOf(S) == MapThenSumSet(LAMBDA n : Cost[n], S)
TotalCost == CostOf(Nodes)

\* What the check before each dispatch does promise, however many renders are billed
\* and fail: only the renders in flight at the last check can exceed the budget, and
\* the node checked is not one of them.
OverspendIsBounded == spent = 0 \/ spent < Budget + TotalCost

\* A node the daemon could dispatch is dispatched, unless the run pauses at its budget:
\* in particular a blocked run with a reset node resumes, and a "blocked" written from
\* a stale snapshot heals.
ReadyIsDispatched ==
  \A n \in Nodes :
    n \in ReadyNodes(status) ~> n \notin ReadyNodes(status) \/ phase = "paused"

\* worker/tasks.py:5: every dispatched node lands somewhere.
DispatchLands ==
  \A n \in Nodes : status[n] = "dispatched" ~> status[n] # "dispatched"

\* When every node has succeeded the film is cut, or the run is paused.
FinishedIsCut ==
  AllSucceeded(status) ~> phase \in {"complete", "paused"}

\* A run in which nothing is left to do but a human's decision says so.
StalledIsBlocked ==
  (IsBlocked(status) /\ phase = "executing") ~> (phase # "executing" \/ ~IsBlocked(status))

\* A run as the user sees it: the phase and the statuses, nothing in between.
Lifecycle == INSTANCE RunLifecycle WITH phase <- phase, status <- status

\* Seen through phase and statuses alone, the run is one of RunLifecycle: the stale
\* snapshots, queues and calls in between never show.
ImplementsLifecycle == Lifecycle!Spec
=============================================================================
