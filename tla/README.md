# Shorts AI Studio: a verification development

This directory holds a TLA+ model of the pipeline that turns a written brief into a
rendered short film, TLC runs that check it on small instances, and proofs checked by
TLAPS that hold for every instance. It models the code under `src/`; paths below are
relative to `src/`, with `scheduler/` for `services/scheduler/scheduler/`, `worker/` for
`services/worker/worker/`, `compositor/` for `services/compositor/compositor/`,
`planning/` for `services/planning/planning/` and `state/` for `libs/state/state/`.

Contents: [the system](#the-system), [components](#components),
[modules](#modules), [from code to model](#from-code-to-model), [runs](#runs),
[fairness](#fairness), [proofs](#proofs), [disagreements](#disagreements-found),
[limits](#what-is-abstracted-or-left-out), [plan](#plan).

## The system

A user's brief is planned by language-model agents (`planning/`) into a **production
package**: assets (reference images, narration, video clips), each with the ids it
`depends_on`, and a timeline. The user edits the package at a checkpoint and approves
it (`scheduler/main.py`). A **daemon** (`scheduler/daemon.py`) polls Redis about once a
second, walks the dependency graph of each approved package and sends ready nodes to a
Celery queue; **workers** (`worker/`) render them with paid providers; the
**compositor** (`compositor/`) cuts the film when all nodes have succeeded. The browser
follows all of it over SSE, retries failed nodes or edits their prompts, and may start
a revision of the finished film, whose unchanged shots are reused.

Processes share nothing but Redis (`state/store.py`): node hashes, package specs,
phases, spend, and the Celery queues, which live in the same Redis. Postgres
(`state/pg.py`) mirrors what must outlive it. Nearly every operation is a sequence of
single Redis commands with an `await` between them; only four use WATCH or MULTI. That
is where the difficult behaviour comes from:

* decisions are taken from snapshots that other processes are changing;
* a state change and the message that announces it are two separate steps;
* messages are delivered at least once, and a process can die between any two steps;
* money is spent by steps that cannot be undone.

## Components

| component | state it keeps | operations | what makes it correct | where |
|---|---|---|---|---|
| DAG (`scheduler/dag.py`) | none: a view of a snapshot | ready, complete, blocked, editable, blocked_by, critical path | a blocked graph has a failed cause; a ready node has all inputs | `Dag`, without the critical path |
| Daemon (`scheduler/daemon.py`) | phase of a run; `dispatched` marks | tick: begin, recover, hand off, block, dispatch, pause; the loop over all films | no dispatched node is lost; every ready node is dispatched; hand-over happens once and only of a finished run; a film that raises starves no other | `RenderRun`, `DaemonTick` |
| Budget (`cost_tracker.py`) | spend per project | reserve, record | overspend is bounded, no bill is lost unless Redis refuses it | `RenderRun`, `RenderAttempt` |
| Worker (`worker/`, `libs/adapters`) | terminal node status, asset URLs, spend | load, acquire, submit, poll, record, archive, fail | one paid render per dispatch; every dispatch lands; inputs present and current; an attempt ends | `RenderRun`, `RenderAttempt` |
| Compositor (`compositor/`) | final URL, phase | load, composite, finalise | the film shows every clip in its last form; a stream never ends without it | `RenderRun` |
| Recovery API (`scheduler/main.py` 456-549) | - | retry, edit a node | what succeeded is kept; no change behind the compositor | `RenderRun` |
| Status stream (552-605) | last frame sent | frames until complete | the last frame carries the film | `RenderRun` |
| Checkpoint API (164-408) | draft, approved set, owner, lineage | create, update, approve, reuse plan, versions, final cut | an approved spec is immutable and valid; version numbers are unique | `Checkpoint`; what only reads is left out |
| Reuse (`scheduler/reuse.py`, `fingerprint.py`) | - | match nodes of a new version to rendered ones | a reused asset is what a render would have produced | node by node in `Studio`, the transaction in `Checkpoint` |
| Store and mirror (`state/`) | all of the above, twice | write-through, fallback reads | the mirror converges and heals; what a flush loses is recoverable | `Mirror`, `NodeHistory` |
| Planning jobs (`planning/main.py`) | job hash with TTL, per-film locks | run, stream, revise, propose | an outcome shown is true and final; stages do not go back; a job ends | `PlanningJob`, `JobLifecycle`; locks in `Checkpoint` |
| Story and assembly (`planning/story.py`, `assembly.py`) | - | story out of a package, package out of a story | a story that is shown is valid; a package that is built validates | `Story`, `Assembly` |
| Validator, fingerprints (`libs/validator`, `libs/schema`) | - | validate_package, fingerprints | acyclic, resolvable, of the right length | `Assembly` |
| Revision (`planning/revision.py`) | - | plan, predict, re-plan, splice, carry over | prediction equals outcome; untouched shots survive unchanged | `Revision`, `Studio` |
| Proposals (`planning/proposals.py`) | - | merge a model's answer into a draft | ids stay unique, nothing used is dropped | `Proposals`, `Studio` |
| Token bucket (`token_bucket.py`, `libs/auth/ratelimit.py`) | tokens, time of the last refill | acquire | the rate is never exceeded by more than the burst and the clocks' disagreement | `TokenBucket` |
| Sessions (`libs/auth`) | session hash, per-user set, accounts | register, create, touch, destroy | what a logout destroyed is refused; a global logout would find every session | `Sessions` |
| LLM agents | - | answer a stage | whatever they answer is made to fit | two extremes in `Studio` |
| Frontend drafts (`services/frontend/src`) | local draft, server copy | merge, save, navigate | no edit is lost silently | not modelled; planned: `PackageDraft` |
| Provider HTTP, storage client, FFmpeg commands, harness, screens | - | - | - | not modelled: I/O or presentation |

How they interact: the studio (`Studio`) turns a film and its edits into the next
version; a planning job (`PlanningJob`) runs that and reports on it; what it stores
meets PUTs and approvals in `Checkpoint`; an approved version is rendered in
`RenderRun`, each render being a `RenderAttempt` and each tick a visit of `DaemonTick`;
all of them write through `Mirror` and `NodeHistory`, and all requests pass `Sessions`
and `TokenBucket`. Each module takes the next one's whole business as one step.

## Modules

A run:

* `Dag` - the operators of `scheduler/dag.py`, over a status function that is an
  argument, because the code evaluates them on snapshots.
* `RenderRun` - one approved package from approval to final cut, extends `Dag`:
  daemon, broker, workers, compositor, the retry and edit endpoints, the status stream.
* `RunLifecycle` - the abstract specification of a run, only `phase` and `status`. It
  knows no queue, snapshot or API call. `RenderRun` implements it (`ImplementsLifecycle`).
* `MCRenderRun` - packages, bounds and symmetry for the TLC runs.
* `RenderRun_safety` - proofs: type correctness and `NoLostDispatch` for every instance,
  what `blocked` means in every acyclic graph, and the inductive invariant of a run with
  one retry at a time.
* `RenderRun_assets` - proofs: what the assets of a run are made from (inputs, film, last
  frame) and how far a run may overspend.

The versions of a film:

* `Checkpoint` - the versions of one film between planning and rendering: PUT, approve
  and revision jobs, which meet in the package store. It treats the run of an approved
  version, which is `RenderRun`, as one step (`Rendered`). `MCCheckpoint` has the
  symmetry for its runs without liveness; `MCApproval`, for liveness, lets each initial
  state choose who takes part; `Checkpoint_proofs` the proofs of all its safety properties.
* `Story`, `Assembly`, `Revision`, `Proposals` - operators without variables, each
  extending the one before: the story of a package, the package of a story with its
  validator and fingerprints, what an edit changes and carries over, how a model's
  proposal is merged.
* `Studio` - one film and one window: edits, proposals, hand-written packages,
  production and revisions, on top of the four. `MCStudio` has the two films.
* `Story_proofs` - what the operators of the four return, for every story, package, edit
  and answer of a model. `Studio_proofs` - that a film stays sound over any number of
  edits, proposals and revisions, that each version tells the story submitted, and that it
  reuses what its preview said.

Planning, stores and services:

* `JobLifecycle` - the abstract specification of a planning job as its page shows it.
* `PlanningJob` - one job, its chain, its progress writes, its hash and its stream; it
  implements `JobLifecycle`. `PlanningJob_proofs` proves that and its safety properties.
* `Mirror` - the package row of Postgres against Redis, with outages and a flush;
  `MCMirror` has its symmetry, `Mirror_proofs` the proofs. `NodeHistory` - the row of a
  node against its hash.
* `TokenBucket`, `DaemonTick`, `Sessions`, `RenderAttempt` - one service each.
* `Services_proofs` - the safety of `NodeHistory`, `Sessions`, `RenderAttempt` and
  `TokenBucket`, which share no variable.
* `MCServices` - `TokenBucket`, `DaemonTick`, `NodeHistory`, `Sessions` and
  `RenderAttempt` side by side: an initial state chooses one of them, so that one run
  explores the sum of their state spaces and not the product.

Some definitions are preceded by a variant marked `Mutant:`. It changes the definition
the way a plausible bug would; with it in place of the original the run of the property
it is listed for must fail, which shows that the property depends on that piece of the
code.

## From code to model

One step of the model is what a process does between two awaits on Redis, the broker
or a provider.

| variable | stands for |
|---|---|
| `phase`, `spent`, `finalCut` | `project:{id}:phase`, `cost:{id}`, `project:{id}:final_url` |
| `status`, `made` | `status` and asset fields of `node:{id}:{node}`; an asset is represented by the contents it was made from: own prompt and reference images |
| `spec` | `pkg:{id}`, as the revision of each node's prompt or text |
| `renderQueue`, `compositeQueue` | messages in the two Celery queues, unordered |
| `daemon` | program counter, statuses read so far in this tick, nodes still to dispatch |
| `worker`, `compositor`, `retrier`, `editor`, `viewer` | tasks, requests and streams under way, with the locals they carry over an await |
| `handoffs` | history: how often the composite task was sent |
| `left` | how often each bounded kind of event may still happen |

**The tick.** `iter_approved_packages` reads the node hashes one after the other
(`TickReadNode`), then `_advance` reads the phase. Its branches are `TickBegin`,
`TickRecover`, `TickResume`, `TickPark`, and behind them `HandOff`, `Block`,
`PlanDispatch`. For each ready node `Reserve` or `Pause`, `MarkDispatched`, then
`SendRender`, or `SendRenderFails` and `RevertDispatch`. `DaemonAbort` ends a tick
anywhere; the next one starts from Redis alone.

**A render.** `TakeRender`, `LoadNode` (payload and reference URLs are fixed here),
`Submit`, `RecordCost`, `RenderSucceeds`; the failures before and after the money is
spent are `RenderFails`, `RecordBilledFailure` then `BilledRenderFails`, and
`ArchiveFails`. The three tries of each call inside the task are one `Submit`
here; `RenderAttempt` takes it apart.
`WorkerCrash` returns the message to the queue (`task_acks_late`), `Redeliver` is the
visibility timeout of a task that still runs.

**Retry and edit.** The phase is read once, then the package node by node, then the
writes follow: `RetryStart`, `RetryCollect`, `RetryDecide`, `ResetNode`; `EditStart`,
`EditCheck`, `EditCommit`. The WATCH of `update_asset_content` makes `EditCommit` one
step; `reset_node` looks at nothing, and so does `ResetNode`.

**The stream.** A frame reads the phase (`ViewPhase`) before the URL (`ViewFinalUrl`).

### Checkpoint

| variable | stands for |
|---|---|
| `pkg` | `pkg:{id}`; of a package remain its content (a model value), the take of its nodes and the version and parent of its lineage |
| `index` | the user's set of projects: what `iter_user_packages` yields |
| `approved` | `projects:approved` |
| `made` | the node hashes of a project: the fingerprint its assets were rendered from |
| `filmLock` | `_film_locks[film]` of the planning process |
| `saver`, `approver`, `job` | the PUT and approve requests and the revision jobs in progress |
| `started` | bound on revisions |

**PUT** is `SaveStart` (the check), `SaveRead` (the stored lineage, the validator) and
`SaveWrite` (an unconditional SET). **Approve** is `ApproveStart`, `ApproveRead`, then
the loop of `approve_and_seed`: `ApproveMatch` is all between WATCH and EXEC,
`ApproveCommit` is EXEC, which fails if the spec or the approved set was written since.
**A revision** is `ReviseStart` (the parent is read once), `RevisePlan`,
`ReviseAcquire` (the lock), `ReviseCheck` and then either `ReviseReplace`, in place if
the parent is still unapproved, or `ReviseNumber`, `ReviseSave`, `ReviseIndex`: a new
version becomes visible in the third step. `ReviseFails` is an exception anywhere, or a
restart of the planning process; a spec saved and not indexed is left behind.

All assets of a version are one: its fingerprint is its content and take, and a node to
render again is the version rendered again. The edit of a node after approval (PATCH)
belongs to `RenderRun` and does not occur here, so `ApprovedIsImmutable` is about PUT,
approve and revisions.

### The story of a film

A story is a record of brief, world, scenes and shots; a package is a brief, a world,
assets, a timeline and the narrative's scenes and shots. Ids are tuples of what they are
made from (`<<"char", "ann", 1>>` for `char_ann`), texts tuples of what they say, narration
its number of words, times hundredths of a second. So two prompts are equal in the model
exactly if the code would build them from the same parts.

| module | code | operators |
|---|---|---|
| `Story` | `planning/story.py` | `StoryFromPackage` with inferred tags and the film without a narrative; `ValidStory`, of which `RefersToItself` is the part about ids |
| `Assembly` | `planning/assembly.py`, `libs/validator`, `fingerprint.py` | `NormalizeDurations` with Python's rounding, `ResolveRefs`, `AssemblePackage`; `ValidPackage`; `Fingerprints` with the start frame |
| `Revision` | `planning/revision.py` | `PlanRevision` (what changed, which scenes are stale, how many shots), `PredictedReuse` (the preview), `SanitizeReplanned`, `SpliceShots`, `CarryOver`, `BuildRevision` |
| `Proposals` | `planning/proposals.py` | `MergeWorld`, `MergeScript`, `ProposeShots` |

`Studio` lives on these: `Edit`, `Keep`, `AcceptProposal` change the draft of the story,
`HandWrite` the package at its checkpoint, `Produce` approves a version, reuses what it
can and renders the rest as far as it gets, `Revise` is a revision job. The agents are
the code's own `mock` and a `wild` one, which names places and people that do not exist,
answers for scenes nobody asked about, forgets the first one, gives absurd lengths, and
uses the ids of the parent's shots.

### Planning jobs

| variable | stands for |
|---|---|
| `job` | the hash `planjob:{id}`: status, stage, `stage_at`, `t:` and `d:` fields, TTL |
| `writer` | `set_plan_stage`, `set_plan_succeeded` and `set_plan_failed` under way, with what they read: one for each stage's future and one for the runner |
| `posted` | `set_plan_detail` writes still pending |
| `runner`, `chain` | `run_planning_job` or `run_revision_job`, and the chain in its thread |
| `stored` | the package is saved |
| `viewer` | one SSE stream of `job_events` |
| `now` | the clock of the stage timers, in ended stages |

`_close_stage_timer` and what follows it are five commands and five steps (`ReadJob`,
`StampTime`, `BankTime`, `MoveJob`, `RefreshTtl`), so a progress write may be overtaken at
any of them. The status and stage of the hash are those of `JobLifecycle`.

### The two stores

`Mirror` follows one project: `redis` has its spec, owner, the user's set and the
approved set; `row` is the packages row. Each request commits in Redis and then mirrors,
in its own steps. Values are read from Redis first, lists from Postgres first, as
`get_package` and `_user_project_ids` do. `Flush` empties Redis once; a task that was
under way then writes on, as the code would. `NodeHistory` does the same for one node's
hash and its row, where the upsert keeps what it is not given (COALESCE).

### Services

`TokenBucket`: one step is the Lua script, called with the caller's clock. `granted`,
`used` and `gained` are history: what was given, when the bucket was last used, what time
it was credited that had not passed. `DaemonTick`: `run_daemon` over a set of films; a
step of a film counts or raises. `Sessions`: register, `create_session`,
`touch_session`, `destroy_session` one Redis command at a time; `touch` remembers whether
its session had been revoked before it began. `RenderAttempt`: one execution of
`render_node` with its `with_retries` loops; `billed` is what the provider charges for
jobs it has answered for, `unheard` the jobs whose answer was lost. Redis may raise at each
call (`TokenFails`, `RecordFails`, `WriteFails`), and may have done what it raised for; the
exception then ends the task as `failed`, also where it takes the place of a provider's
error (`cost.record` in `render.py:195`), or the node keeps its status when that write
raises too (`unwritten`). `missed` counts the bills whose record was refused. `Resends` is
how often the Redis client repeats a command whose answer it lost: none in redis-py 5, three
times from 6 on, and the services ask for `redis>=5.0`; a repeated `INCRBYFLOAT` or
`HINCRBY` counts again (`Counted`).

## Runs

The runs of `RenderRun` use at most three nodes. The graph of `MCRenderRun!MCNodes` is the one of the
scheduler's own tests: a reference image, a narration, a clip that waits for the image.
It has a dependency, an independent node and a node outside the timeline, which is what
the branches of `_advance` distinguish. Bounds are numbers of events, not of steps.

| run | instance | shows |
|---|---|---|
| `run_recovery` | 3 nodes, 2 workers, 1 retry, 1 edit, 2 provider failures | a render is never doubled (`RendersOnce`), what succeeded is kept (`SucceededIsKept`) and shows the current prompts and references (`RendersAreCurrent`, `CutIsCurrent`), nothing changes behind the compositor (`HandedOffIsFrozen`), and the run implements `RunLifecycle` |
| `run_faults` | 2 dependent nodes, 2 workers, 2 concurrent retries, refused and lost-acknowledgement sends, a redelivery, a provider failure | what survives all of that: `NoLostDispatch`, `InputsReady`, `HandedOffOnce` |
| `run_live` | 3 nodes, 1 worker, 1 retry, 1 provider failure, 1 refused send, 1 crash of a worker or the compositor | liveness: `ReadyIsDispatched`, `DispatchLands`, `FinishedIsCut`, `StalledIsBlocked` |
| `run_budget` | 2 independent nodes, budget for two renders, 2 workers, failures, 2 retries, a stream, a tick cut off, a refused hand-over, a failed composite | `OverspendIsBounded`: the excess stays below one render of every node; `LastFrameHasCut` |
| `checkpoint_versions` | 3 versions, a valid and an invalid content, 1 PUT caller, 2 approvers, 2 jobs, 2 revisions | `VersionsUnique`, `SuccessorsOfApproved`, `ApprovedIsValid`, `LineageIsStable` |
| `checkpoint_approval` | 3 versions, no PUT, 2 revisions; 1 approver, 2 jobs and 2 valid contents, or 2 approvers, 1 job and 1 content | `AssetsMatchSpec`, `ApprovedIsImmutable`; liveness: `ApproveAnswers`, `RevisionLands` |
| `planning` | a brief, and revisions from stages 3, 4 and 5; 1 lost progress write, 2 refused commands, a restart, the expiry, a stream | `OutcomeIsTrue`, `TimesAreExact`, the refinement `ImplementsLifecycle`, and liveness `JobAndStreamEnd` |
| `mirror` | 2 requests at a time, 4 commits, an outage, a flush, crashes | `MirrorsConverge`, `MirrorHeals`, `HistoryHolds` |
| `services` | three buckets and three callers, one clock ahead; three films, two raising steps; six writes of a node; two sessions, two registrations, two requests; one render of each kind of adapter, three tries, Redis failing anywhere and repeating a command once | `RateIsBounded`, `EveryFilmIsServed`, `HistoryAgrees`, `RevokedIsRefused`, `IndexCoversSessions`, `EveryBillIsRecorded`, `AttemptsEnd` |
| `studio` | two films, two agents, at most 2 changes and 3 changes and jobs together | `StaysSound`, `PreviewIsKept`, `StoryIsKept` |
| `retry_race`, `checkpoint_race` | each the least instance | the first two [disagreements](#disagreements-found) below |

Why the bounds are enough:

* A run: one retry of one failed node reaches every phase transition (blocked and back,
  failed dependencies, a stale blocked); two failures let both the reference and the clip
  fail in one run, or one node fail twice; two workers are the fewest that run two nodes
  at once or one node twice; the second retry is what lets two resets of the same node
  overlap. `run_budget` has no crash of a worker: a crash after the bill and before the
  record makes the render be paid again, and no bound on the excess holds then;
  `run_live` has it.
* `Checkpoint`: two jobs contend for the lock and two approvers for the watched set, and
  three versions let a successor have a successor, or a sibling. An approval goes round its
  loop again when another version is approved between its WATCH and its EXEC: the first
  version approved, two drafts made from it and an approval of each, which
  `checkpoint_approval` has in the second of its instances (`MCApproval!Casts`); the mutant
  of `ApproveAnswers` fails in no other case. `projects:approved` holds the projects of
  every user; an approval of another film is, to the loop, that second approver.
* `planning`: the first stages cover each skip a revision can make (world and script never
  run again). One stage, the last (`Quick`), may end while a progress write is pending,
  which is how its report races the terminal write; earlier stages are tens of seconds
  apart, see [limits](#what-is-abstracted-or-left-out). Two refused commands let the
  failure's own write be refused.
* `mirror`: two writers are the fewest whose mirrors cross, and four commits let a submit,
  a save, an approval and an edit follow each other.
* `services`: a user logs in with two buckets while two workers, one with a clock ahead,
  share the provider's; the time is twice a refill and twice an expiry. A film that raises
  twice, another that was lost, and one in between. A touch that read before a logout and a
  second one after it. Three tries and a deadline of three polls.
* `studio`: one film was assembled from a script of two scenes, one with a continuation
  and a shared character; the other is from before packages had a narrative, with its
  clips out of order and two tracks of narration. Every property is about a job after at
  most two changes; three steps let an edit be produced and revised again.

The properties that are [proved](#proofs) hold for every bound. The runs of `RenderRun`
check deadlock: a finished model never deadlocks because the daemon's loop goes on. The
others do not: when every version is approved and no revision is left, the job has ended,
or the bounds are used up, there is nothing more to ask for.

## Fairness

`FairSpec` assumes weak fairness of the daemon (its loop only ends with the process),
of each worker and of the compositor (Celery runs what it is given), of each stream,
and of a retry or edit that has been accepted, up to its answer. It assumes nothing of
users, and no fault or provider failure has to happen or to stop: they are only
bounded. `RenderSucceeds` and the failures are alternatives of one worker step, so
fairness never promises a successful render.

`FairSpec` of `Checkpoint` assumes weak fairness of each accepted PUT and approval, up to
its answer, and strong fairness of each revision job (`JobRuns`): an asyncio lock wakes its
waiters in the order they came, so a job that waits for the film's lock gets its turn. That
no job fails is not assumed, nor is a failure (`ReviseFails`) ever obliged to happen.
`ApproveAnswers` is checked without PUTs: an approval whose transaction fails looks again,
and only a changed spec or its own version approved ends it with a conflict, so a draft
saved back and forth for ever could keep it going. Revisions in place could do the same, of
which the run has two (`MaxRevisions`), and so could approvals of other projects without
end; here there are as many as there are versions.

`FairSpec` of `PlanningJob` assumes weak fairness of the runner, its own writes, the chain
and the progress writes: the event loop runs its tasks and every stage ends. It also
assumes that a key expires and that an open page polls on. A crash, a lost write and a
refused command are not fair. `JobAndStreamEnd` therefore excuses a job whose process died
or whose command was refused, but never a page.

`Spec` of `MCServices` assumes weak fairness of the daemon's loop and of the render task
with a provider that answers some way (`Proceeds`); which answer it is, and whether the
job is ever done, is not assumed. `Mirror` and `Studio` have safety properties only.

## Proofs

The first part of `RenderRun_safety` (for every package, any number of workers, users and
streams, any bounds):

* `TypeCorrect`: `Spec => []TypeOK`, one step per action.
* `DispatchNotLost`: `Spec => []NoLostDispatch` if the daemon is never cut off inside a
  tick (`Bounds["daemonAbort"] = 0`). `NoLostDispatch` is inductive together with
  `TypeOK` and the fact that what is bounded only runs out (`LeftOnlyDrops`); the lemma
  `DispatchKept` reduces each action to what it does to marks, messages and workers.

  The assumption is needed: a daemon stopped between the mark and the send leaves a node
  marked that nobody works on, see [below](#disagreements-found).
* `BlockedIsExplained`, `BlockedHasCause`: the docstring of `is_blocked` (`dag.py:42`) takes
  a failed node to be the cause of a blocked run. In every acyclic graph it is, and
  `blocked_by` finds one for each pending node. The validator refuses cycles
  (`ValidPackage` of `Assembly`). The argument takes a bad node with no bad dependency;
  `UpstreamAt` shows that the recursion of `blocked_by` has a solution at all.

The rest of `RenderRun_safety` assumes `OrderlyRun`: at most one caller retries at a time, no
message is redelivered and no send fails after the broker took the message. Both parts
are needed: `retry_race` refutes `SucceededIsKept` with two retriers, and a second
delivery is a second paid render by construction. Everything else is allowed in any
number: aborts of a tick, crashes of workers and of the compositor, refused sends,
provider failures before and after billing, edits, workers, nodes. The theorems:

* `RunIsSound`: `Spec => [](TypeOK /\ RunInv)`, the inductive invariant.
* `NoDoubleRender` (`RendersOnce`), `NothingIsUndone` (`SucceededIsKept`), `OneHandOff`
  (`HandedOffOnce`), `HandedOffStays` (`HandedOffIsFrozen`).
* `RunImplementsLifecycle` (`ImplementsLifecycle`): each step is a step of
  `RunLifecycle` or a stutter.

None of these properties is inductive, because the code decides from what it read
earlier. `RunInv` says what such a reading is still worth:

| part | says | needed because |
|---|---|---|
| `LockHeld` | a node is executed by one of: its one message, one worker, the daemon about to send; and then it is `dispatched` | a worker lands its node without looking at the status |
| `SeenIsSound` | a status read as `pending` or `succeeded` still is; one read as failed is failed or `pending` | the hand-over and the readiness of nodes are decided from the snapshot |
| `TickIsSound` | the snapshot is complete when used, and what is left to dispatch is ready in Redis | the mark is written without a check |
| `RetriesFailed` | the list of a retry holds failed nodes only | `reset_node` looks at nothing |
| `EditsUnrendered` | an edit under way will commit only over a node nobody renders | the frozen spec of `HandedOffIsFrozen` |
| `PhaseIsSound` | the daemon's program counter determines the phase; a handed-over run has succeeded; there is one composite task | the phase is written by two processes, checked by four |
| `OneDelivery` | no second delivery is left | `OrderlyRun` |

The argument turns on `StatusMoves` and `PhaseMoves`: whatever the step, a status
changes only by the mark of a ready node, the revert of a mark, the landing of the one
worker that renders it, or the reset of a failed node, and the phase by the five moves
of `PhaseMove`. The parts of the invariant and the theorems are then shown against
these moves, not against each action again.

`Checkpoint_proofs` (any number of versions, callers, jobs and contents):

* `TypeCorrect`: `Spec => []TypeOK`.
* `VersionsAreSound`: `Spec => []VersionsInv`, and from it `NumbersAreUnique`
  (`VersionsUnique`), `ParentsAreApproved` (`SuccessorsOfApproved`), `OnlyValidApproved`
  (`ApprovedIsValid`) and `LineageStays` (`LineageIsStable`).
* `ApprovedStays` (`ApprovedIsImmutable`) and `AssetsAreOfSpec` (`AssetsMatchSpec`), which
  assume that there are no PUTs (`Savers = {}`). The assumption is needed:
  `checkpoint_race` refutes the first with one PUT.

Each request writes what it read some steps before. `VersionsInv` says what that reading is
still worth when it is written:

| part | says | needed because |
|---|---|---|
| `SaverSound` | the package a PUT will write is valid and has the stored lineage | the write is unconditional; `ApprovedIsValid` and `LineageIsStable` survive it only for this reason |
| `ApproverSound` | the spec an approval has read is valid | the validator ran on that reading, and EXEC only shows that nothing changed since |
| `JobSound` | a job's base has the parent's lineage; its parent is approved once it numbers a new version; from the check on it holds the lock; its number is above all listed ones; its own project is not listed before the last step | the number is computed two writes before the version is listed |

`RenderRun_assets` is about what an asset is made from, which a worker reads long before
it writes. It assumes `ReferencesAreDependencies`: `planning/assembly.py:162` puts every
reference image of a clip among its dependencies.

* `InputsAreSound` (`InputsInv`), and from it `RendersHaveInputs` (`InputsReady`): for any
  retries, redeliveries, lost acknowledgements and aborts. `OrderlyRun` is not assumed, so
  the status of a node says little; the invariant follows the node instead: a node on the
  daemon's list, in the queue or with a worker has references with assets, because an asset
  is never taken away (`AssetsStay`). What makes it inductive is the snapshot: it may show
  a success which a retry has taken back since, and the asset is still there.
* `LastFrameShowsCut` (`LastFrameHasCut`), with no assumption: the final cut is written
  before the phase, and a stream reads the phase before the cut (`FrameInv`).
* `AssetsAreSound` (`CurrentInv`), and from it `SucceededIsCurrent` (`RendersAreCurrent`)
  and `FilmIsCurrent` (`CutIsCurrent`), under `OrderlyRun`. `CurrentInv` extends "current"
  from what is stored to what is under way: the inputs a worker has loaded are still the
  spec and the references, and what the compositor has put together is still what the
  nodes show. An edit cannot change a spec in between because it commits only over a node
  nobody renders (`EditsUnrendered`), a render cannot change a reference because that has
  succeeded and stays so.

The last part of `RenderRun_assets`, on the budget, assumes `OrderlyRun`, that a package has finitely many nodes, and that no
task dies (`NoCrash`): one that dies between its bill and its last write is delivered and
billed again with no check before it. Failures, billed or not, and retries are free.

* `BudgetIsSound` (`BudgetInv`), and from it `OverspendStaysBounded`
  (`OverspendIsBounded`). `OverspendIsBounded` speaks of what has been spent; the danger is
  in what has passed its check and is not billed. `BudgetInv` adds the cost of those nodes
  (`Expected`): those the daemon is about to send, those in the queue and those a worker has
  not billed. `ExpectedMoves` says how the set may change: it shrinks, or it gains the node
  a check has just covered, which was not in it, or it loses the node just billed. That a
  node has one unbilled render at a time is `LockHeld`.
* `CostOf` is a fold over a set. What it computes is shown first (`CostOfStep`,
  `CostOfAdd`, `CostOfGrows`), by taking a smallest set on which it would not
  (`SmallestSet`): the induction theorems of the library take an operator as a parameter,
  well-foundedness of the subset order does not.

`PlanningJob_proofs` (any stages skipped, any number of lost progress writes, refused
commands and restarts):

* `JobTypeCorrect`, and `JobIsConsistent`: `Spec => []JobInv`.
* `TimesAreTrue` (`TimesAreExact`), with no assumption.
* `OutcomesAreTrue` (`OutcomeIsTrue`) and `JobImplementsLifecycle`
  (`ImplementsLifecycle`) assume `OnlyAssemblyIsQuick`: of all stages only the last may end
  while a progress write is pending. The stages before it wait for a language model, see
  [limits](#what-is-abstracted-or-left-out); the run has `Quick = {5}`. The assumption is
  needed: with `Quick = {4, 5}` TLC refutes both.

A status write is five commands, and several are under way at once.

| part of `JobInv` | says | needed because |
|---|---|---|
| `WhoWrites`, `StatusInv` | the runner writes alone on its way in and out, and its program counter determines the status in the hash | a terminal status must be final while progress writes of the chain are pending |
| `WriterInv` | the report a stage writes names the next stage, and no report is overtaken by a later one | stages do not go back |
| `ClockInv` | what a writer has read of the clock is not ahead of it, and what it banks was not banked | a window of time is counted once although two writers close it |
| `ShownInv`, `DetailInv`, `CompleteInv` | what the chain has produced is in the hash or on its way there, unless it was lost | a success is complete |
| `OutcomeInv` | what the store has of the package agrees with the status, or a command was refused | the page shows the truth |

`Mirror_proofs` (any number of requests, contents, commits and outages):

* `MirrorTypeCorrect`, `MirrorIsConsistent`: `Spec => []MirrorInv`, and from it
  `MirrorConverges` (`MirrorsConverge`), `MirrorIsHealed` (`MirrorHeals`) and
  `HistoryIsHeld` (`HistoryHolds`).

`MirrorInv` adds to each property the requests under way: what Postgres lacks of the latest
commit is carried by a request whose mirror is still to come (`CarryInv`, `LatestInv`,
`StickyInv`), a request that runs alone carries the latest commit (`AloneInv`), and a film
has an owner before it is listed, unless a flush came in between (`ListInv`). For
`HistoryHolds` the proof shows more than was first stated, and the property now says it: a
film whose row names its owner stays listed unless a flush and an outage come together.

`Services_proofs` has four components, each with a specification of its own:

* `NodeHistory`, any number of writes: `HistoryIsSound` (`HistoryInv`), `HistoryIsTrue`
  (`HistoryAgrees`). The row keeps an error it is not told to clear, so its value depends
  on the order in which the mirrors still owed will land. `AgreeInv` compares the hash with
  the error that will be in the row then (`ErrorToCome`); `OwedInv` accounts for each
  commit: landed, owed by one actor, or lost.
* `Sessions`, any number of logins, requests and any times to live: `SessionsAreSound`
  (`SessionInv`), `RevokedStaysOut` (`RevokedIsRefused`), `IndexIsComplete`
  (`IndexCoversSessions`). A late HSET of a touch brings the hash of a destroyed session
  back; `OwnerInv` says that such a hash is `Hollow`, it names no user, and `TouchInv` what
  each request has read of whom. `IndexInv`: the index has a session until its absolute cap.
* `RenderAttempt`, any number of tries, any deadline, any number of repeats by the Redis
  client: `AttemptIsSound` (`AttemptInv`), `BillsAreRecorded` (`EveryBillIsRecorded`).
  `AttemptInv` says of each stage what has been tried, submitted, billed, recorded and
  missed; the property alone says nothing before the cost is recorded. A bill is lost only
  when Redis refuses the record itself, and then the node ends `failed` or keeps its status:
  it is never archived, `succeeded` or `dead_lettered`. With `Resends = 0` none is counted
  twice.
* `TokenBucket`, any buckets, callers, clocks, refill and expiry times: `BucketsAreSound`
  (`BucketInv`), `RateStaysBounded` (`RateIsBounded`). The property speaks of what was
  given; a refill depends on what the bucket holds and on when it was last used.
  `BucketInv` keeps an account of each bucket: a live one has given and still holds at most
  its burst, the time up to its last use, and what was gained; one that has expired was
  left alone for as long as filling it takes, so a fresh one gives nothing away. That last
  part is where `Capacity * Token <= Ttl` (`BucketAssumption`) is used: the script's EXPIRE
  is longer than a refill. That the last use was on the clock of one of the bucket's
  callers is why nothing is gained when these agree.

`Story_proofs` is about operators: no variable, no step, every story, package, edit and
answer. `GoodStory` and `GoodPackage` say of what form they are (fields, integers,
sequences) and that they refer only to what they have.

* What a model proposes is merged into a sound story (`MergeWorldIsSound`,
  `MergeScriptIsSound`, `ProposeShotsIsSound`): whatever ids, numbers and names it gives,
  ids stay unique and apart by kind, what is in use survives, no shot stays in a scene that
  is gone. `SanitizeIsSound`: the same of an agent's answer to a re-planning.
* The lengths of shots add up to the target but for half a hundredth of a second each
  (`NormalizedAre`). That is the code's rounding, half to even, summed over a sequence.
* What assembly builds out of a sound story is a sound package whose edges and references
  resolve and are acyclic (`AssemblePackageIs`, `OrderedIsAcyclic`); the same of a revision
  after `carry_over` (`BuildRevisionIs`). The story read back out of a sound package is
  sound (`StoryFromPackageIs`), with inferred tags and without a narrative, too.

`Studio_proofs` puts them together:

* `EditsAreSound`, `ProposalsAreSound`, `HandWrittenIsSound`: each kind of input keeps what
  it is applied to sound.
* `FilmStaysValid`: the draft refers to what it has and the stored package satisfies the
  validator, over any number of edits, proposals, productions and revisions. The invariant
  is `Sound`:

| part | says | needed because |
|---|---|---|
| `GoodPackage(film)` | form and references of the package | the validator accepts packages that the reader of the story cannot use: it does not look at ids of scenes, tags of shots, or a timeline that names a node twice |
| `ValidPackage(film)` | the validator's four gates | the property itself |
| `GoodStory(draft)` | form and references of the draft | a job assembles the draft without looking at its references again |
| `NamedBrief(draft)` | the draft names a style and a voice | assembly replaces a missing one by a default; a version would differ from its draft |

* `JobsSucceed`: `StaysSound`, which adds that no job is refused for what it built. Assumes
  `FewShots`, that no version has more than 1000 shots: the lengths are rounded one by
  one, and with more shots the rounding may exceed the validator's tolerance of 5 seconds.
  Without it a job may be refused; what is stored is valid all the same (`FilmStaysValid`).
* `VersionsTellTheStory` (`StoryIsKept`), with no limit on shots: the story read back out of
  the new package is the one submitted, each scene that was not stale with the same shots
  in the same order. Two conversions lie in between, through which shots get new ids and
  places. `BuiltIsReadBack` says that reading back what was built renames the shots and
  changes nothing else that is told; `SpliceTells` that the scenes not re-planned keep their
  shots.
* `PreviewComesTrue` (`PreviewIsKept`), for any films, edits, failures and numbers of shots:
  the preview (`_predict`) and the job (`carry_over`, assembly, `match`) are two pieces of
  code that decide alike what is reused. Each node of the parent said to be reused has one
  node of the new version that continues it (`CameFrom`) and has its fingerprint
  (`FoundAgain`), so the version finds at least as many. A reference image and the narration
  need their inputs carried over (`RefIsKept`, `NarrationIsKept`), a clip its start frame
  besides, drawn as before or put there by hand (`VideoIsKept`), and the length it had in
  whole seconds. The lengths are normalised over all shots, so they agree only if the
  preview foresees every shot: `AsPredicted`, by laying the predicted blocks of scenes
  beside the spliced ones (`FlattenAlike`). This is where an agent that chooses how many
  shots there are makes no promise possible. The invariant adds to `Sound`:

| part of `Reusable` | says | needed because |
|---|---|---|
| `SoundNames(film)` | only images are called as reference images are | a clip by the name of a new reference image would be taken for it |
| `done \subseteq Ids(film.assets)` | what is done is of this version | a revision replaces the nodes under `done` |
| `Fingerprints(film)[id] \in renders` for each `id` of `done` | it is stored under the fingerprint it has now | an edit between a render and the preview would change the fingerprint: `PUT` and the renders exclude each other |
| `~approved => done = {}` | nothing of a draft is done | the reason why that edit is not possible |

Assumed of the constants: the films a session starts from are of the form assembly leaves
(`FilmsAssumption`) and none of their nodes but images is called as reference images are or
as the model calls a shot yet to be planned, which has no name in the code
(`NamesAssumption`), target lengths are natural numbers (`TargetsAssumption`), the agents
are those of the model (`AgentsAssumption`), and bounds are numbers (`BoundsAssumption`); the
run evaluates them. The studio's actions are compositions of functions over sequences, and
the induction theorems take an operator as a parameter. Facts about all places of a sequence
are therefore shown from the smallest place at which they would fail (`Least`). For the same
reason `Story` selects from a sequence with `Picked`, which defines what `SelectSeq`
computes without recursion, and `Total`, `Acyclic`, `Adopt` and `MergeScript` are recursive
functions instead of folds.

The assumptions of the theorems hold in the runs that check the same properties.

Only model-checked: liveness, which is out of the prover's reach (`ReadyIsDispatched`,
`DispatchLands`, `FinishedIsCut`, `StalledIsBlocked`, `ApproveAnswers`, `RevisionLands`,
`JobAndStreamEnd`, `EveryFilmIsServed`, `AttemptsEnd`). `TypeOK` is proved for `RenderRun`,
`Checkpoint`, `PlanningJob` and `Mirror` and is not checked by a run.

## Disagreements found

* **Overlapping retries** (`retry_race`). `scheduler/main.py:531` says "Re-render failed
  nodes; everything that succeeded is kept." `reset_node` (`state/store.py:501`) writes
  `pending` whatever the status has become since `retry` listed the node, so of two
  overlapping retries the second can undo a render the first one brought about.
* **PUT against approve** (`checkpoint_race`). `scheduler/main.py:235` says that after
  approval edits are locked out rather than mutating a spec already in flight, and line
  236 calls the approved set the race-free lock condition. The PUT looks at the set,
  awaits twice and then writes unconditionally: an approval in between is followed by
  the PUT's spec. What does hold with PUTs: the spec is still valid
  (`ApprovedIsValid`) and its lineage the stored one (`LineageIsStable`).

The two above have a run that shows them. The models show these as well; the runs check
what does hold instead:

* **Budget.** `README.md:19` says that a run cannot overspend. `reserve` compares and does
  not reserve; two ready nodes of a tick pass for the same money. What holds is
  `OverspendIsBounded`.
* **Hand-over.** `README.md:20` says the compositor is handed the timeline exactly once.
  The phase changes before the task is sent, and a refused send is not taken back: at most
  once (`HandedOffOnce`) is what holds.
* **Landing.** `worker/tasks.py:6` says that every dispatched node lands somewhere. A
  daemon stopped between the mark and the send leaves a node that never does;
  `NoLostDispatch` and `DispatchLands` hold when it is not.
* **Mirrors.** `state/store.py:556` says that racing mirrors converge on the latest spec.
  The spec is read again for the mirror, but two mirrors are two connections, and the
  older reading may be written last. `MirrorsConverge` excepts exactly that (`crossed`),
  and `MirrorHeals` says what repairs it.
* **Revisions.** `planning/main.py:485` says that only what the edits affect is
  regenerated. `_normalize_durations` rescales every length at each revision: lengths a
  user has changed at the checkpoint, which no longer add up to the film's, are rescaled
  although no edit touches them, and a clip may be rendered again for another whole
  second. The preview knows it (`PreviewIsKept`).
* **Proposals.** `planning/proposals.py:3` says that every proposal yields a valid story. A
  model that answers with no scenes or with empty descriptions yields one that
  `validate_story` refuses. `StaysSound` is checked with scripts and texts that are not
  empty, and is about ids and references.

## What is abstracted or left out

* Prompts, texts and URLs are revision numbers; what matters is which revision went
  into which asset.
* A render costs what the package estimates for it.
* A package's node order matters only to `EditStart`, which reads dependencies first.
* The compositor's and the providers' work is one step that succeeds or fails.
* In `RenderRun` Redis neither fails nor loses data, but a failing command inside a tick is
  a `DaemonAbort`. So its renders record each bill exactly once; what Redis failing inside a
  render does to the bill and to the status is in `RenderAttempt`, and a bill lost there is
  not in the excess that `OverspendIsBounded` bounds. Postgres is not part of it.
* Of the first version `Checkpoint` assumes only that some package is stored: planning
  validates it, an import (POST) does not. Later imports would begin other films.
* A failed write to Postgres leaves a version that `iter_user_packages` cannot list from
  there; `index` of `Checkpoint` is the list both stores agree on, and their disagreement
  is `Mirror`'s.
* All assets of a version are one in `Checkpoint`; node by node they are in `Studio`.
* A worker child killed by the system is acknowledged by Celery's default
  (`task_reject_on_worker_lost` is unset) and would lose the message; the model's
  `WorkerCrash` is the loss of the whole worker process.
* `PlanningJob`: the docstring of `set_plan_stage` (`state/store.py:695`) takes stage
  transitions to be tens of seconds apart. The model does too, but for the stages in
  `Quick`. With the mock planner and no delay (`MOCK_PLAN_DELAY_S=0`) two early stages
  may overtake each other's writes and the page's stage go back; with `Quick = {4, 5}` TLC
  finds it.
* `TokenBucket`: clocks that disagree credit tokens without end; `MaxGained` bounds how
  much in the run, and the theorem has no bound.
* `RenderAttempt`: bills for jobs whose answer was lost, or which were given up at the
  deadline, are not in the budget; the provider's invoice may be higher than `spent`.
* `DaemonTick`: raising steps are bounded; a film that raises at every tick does starve
  those that happen to come after it.
* `Sessions`: a crash between the claim of a name and its account leaves the name taken
  for good. A hash that a touch wrote after a logout has no CSRF token and no time to
  live; it is refused and deleted by the next request with its cookie, if one comes.
* `Mirror`: one project; runs (phase, spend) are not mirrored and a flush loses them,
  which the code accepts.
* `Story`: each entity has one reference image of its own. Packages in which entities
  share one, or have several, are not modelled (the preview and the carry-over disagree
  about which of several counts). Texts are never empty.
* `Studio`: hand-written images have no dependencies; that a reuse source needs a
  provider URL and must come from the same mode, mock or live, is left out; so are costs,
  and the preview's count of images added by hand. A hand-written version whose lengths,
  once rescaled, leave what a shot may last opens as a story that cannot be submitted
  unchanged: `Revise` then waits for an edit, as the route answers 422.
* `Studio` has one window; several at once are `Checkpoint`'s, on packages without a
  content.

### Not modelled

* The **frontend** (TypeScript): presentation, except for its draft merge and its guards
  against stale answers, which are planned.
* The **answers of language models** and the prompts they are given: there is nothing to
  check them against. What is done with an answer is modelled.
* **Provider HTTP, object storage, FFmpeg, the test harness**: I/O without state of the
  system; their outcomes are the alternatives of `RenderAttempt` and of the compositor.
* **Byte budgets and the wording of prompts**, titles, change lines, cost estimates: data
  that no property is about.

## Plan

Done: the run, the checkpoint, planning jobs, the two stores, the services, the studio;
the proofs of their safety properties. Left, in this order:

1. An abstract specification of a film's versions that `Checkpoint` implements.
2. The composition of `Mirror` with `Checkpoint`: version numbers from a list that is
   missing a version because its mirror was lost.
3. `PackageDraft`: the browser's three-way merge and its guards against stale answers.
4. The critical path of `Dag`, against a reference definition.
