---------------------------- MODULE PlanningJob ----------------------------
(***************************************************************************)
(* One planning job from the request to the last frame of its stream: the  *)
(* runner and the SSE generator of services/planning/planning/main.py, the *)
(* chain of graph.py that reports from its own thread, and the hash        *)
(* planjob:{id} of libs/state/state/store.py they meet in.  The writes of  *)
(* a stage's progress are fire-and-forget, so several may be under way at  *)
(* once; each awaited Redis command is a step.  A brief runs every stage,  *)
(* a revision starts at the first stage its edits leave to do.             *)
(***************************************************************************)
EXTENDS Integers

CONSTANTS
  Firsts,     \* first stages a job may have: 1 is a brief, 3, 4 or 5 a revision
  Quick,      \* stages that may end while the write of an earlier stage is pending
  MaxLost,    \* bound: progress writes that raise
  MaxRefused  \* bound: commands awaited by the runner that raise

\* PLAN_STAGES: world, script, breakdown, prompts, assemble.
StageCount == 5
Stages == 1..StageCount
Self == 0  \* the runner's own writes, among the writers
Writers == Stages \cup {Self}

ASSUME PlanningJobAssumption ==
  /\ Firsts \subseteq {1, 3, 4, 5}
  /\ Quick \subseteq Stages
  /\ MaxLost \in Nat /\ MaxRefused \in Nat

VARIABLES
  first,    \* the first stage of this job
  job,      \* the hash: status, stage, stage_at, t:<stage>, d:<stage>, and its TTL
  writer,   \* set_plan_* in progress: the runner's, and the one spawned by each stage
  posted,   \* stages whose set_plan_detail is pending
  runner,   \* where run_planning_job or run_revision_job stands
  chain,    \* the stage the chain works on, StageCount + 1 when it has returned
  stored,   \* the package is in the store the scheduler serves
  now,      \* the clock: stages that have ended
  hurried,  \* a stage ended while a progress write was pending
  lost, refused,
  viewer    \* one SSE stream: whether it is open, and the status of its last frame

vars == <<first, job, writer, posted, runner, chain, stored, now, hurried, lost, refused, viewer>>
faults == <<hurried, lost, refused>>

Ended == {"succeeded", "failed"}
NoJob == [st |-> "none", stage |-> 0, at |-> 0, bank |-> [s \in Stages |-> 0],
          details |-> {}, ttl |-> FALSE]
Idle == [pc |-> "idle", to |-> "running", stage |-> 0, seenStage |-> 0, seenAt |-> 0,
         banked |-> 0, stamp |-> 0]
Writing(to, stage) == [Idle EXCEPT !.pc = "read", !.to = to, !.stage = stage]
Brief == first = 1
Busy == \E s \in Stages : writer[s].pc # "idle"

Init ==
  /\ first \in Firsts
  /\ job = NoJob
  /\ writer = [w \in Writers |-> Idle]
  /\ posted = {}
  /\ runner = "new"
  /\ chain = 0
  /\ stored = FALSE
  /\ now = 0
  /\ hurried = FALSE
  /\ lost = 0
  /\ refused = 0
  /\ viewer = [pc |-> "off", last |-> "none"]

-----------------------------------------------------------------------------
(* create_brief and create_revision: the hash, its time to live, the task. *)

CreateHash ==
  /\ runner = "new"
  /\ runner' = "created"
  /\ job' = [NoJob EXCEPT !.st = "queued"]
  /\ UNCHANGED <<first, writer, posted, chain, stored, now, faults, viewer>>

\* A revision's skipped stages show what the user's own edits produced, prompts aside.
CreateTask ==
  /\ runner = "created"
  /\ runner' = "begin"
  /\ job' = [job EXCEPT !.ttl = TRUE, !.details = (1..first - 1) \ {4}]
  /\ writer' = [writer EXCEPT ![Self] = Writing("running", first)]
  /\ UNCHANGED <<first, posted, chain, stored, now, faults, viewer>>

-----------------------------------------------------------------------------
(* set_plan_stage, set_plan_succeeded and set_plan_failed: five commands.  *)

At(w, pc) == writer[w].pc = pc

ReadJob(w) ==
  /\ At(w, "read")
  /\ writer' = [writer EXCEPT ![w].pc = "stamp", ![w].seenStage = job.stage,
                  ![w].seenAt = job.at,
                  ![w].banked = IF job.stage = 0 THEN 0 ELSE job.bank[job.stage]]
  /\ UNCHANGED <<first, job, posted, runner, chain, stored, now, faults, viewer>>

\* _close_stage_timer reads the clock, then writes stage_at; without a stage nothing is banked.
StampTime(w) ==
  /\ At(w, "stamp")
  /\ job' = [job EXCEPT !.at = now]
  /\ writer' = [writer EXCEPT ![w].pc = IF writer[w].seenStage = 0 THEN "move" ELSE "bank",
                              ![w].stamp = now]
  /\ UNCHANGED <<first, posted, runner, chain, stored, now, faults, viewer>>

\* Mutant: the window replaces the time already banked for the stage.
TotalOfWindow(w) == writer[w].stamp - writer[w].seenAt

Total(w) == writer[w].banked + (writer[w].stamp - writer[w].seenAt)

BankTime(w) ==
  /\ At(w, "bank")
  /\ job' = [job EXCEPT !.bank[writer[w].seenStage] = Total(w)]
  /\ writer' = [writer EXCEPT ![w].pc = "move"]
  /\ UNCHANGED <<first, posted, runner, chain, stored, now, faults, viewer>>

MoveJob(w) ==
  /\ At(w, "move")
  /\ job' = [job EXCEPT !.st = writer[w].to,
                        !.stage = IF writer[w].to = "running" THEN writer[w].stage ELSE @]
  /\ writer' = [writer EXCEPT ![w].pc = "expire"]
  /\ UNCHANGED <<first, posted, runner, chain, stored, now, faults, viewer>>

\* The TTL; the runner goes on when the write was its own.
RefreshTtl(w) ==
  /\ At(w, "expire")
  /\ job' = [job EXCEPT !.ttl = TRUE]
  /\ writer' = [writer EXCEPT ![w] = Idle]
  /\ runner' = IF w # Self THEN runner ELSE IF runner = "begin" THEN "chain" ELSE "done"
  /\ chain' = IF w = Self /\ runner = "begin" THEN first ELSE chain
  /\ UNCHANGED <<first, posted, stored, now, faults, viewer>>

\* The exception stays in a future nobody reads.
ProgressLost(w) ==
  /\ w # Self /\ ~At(w, "idle")
  /\ lost < MaxLost
  /\ lost' = lost + 1
  /\ writer' = [writer EXCEPT ![w] = Idle]
  /\ UNCHANGED <<first, job, posted, runner, chain, stored, now, hurried, refused, viewer>>

\* The runner's except clause, unless the command was of the except clause itself.
CommandRefused ==
  /\ ~At(Self, "idle")
  /\ refused < MaxRefused
  /\ refused' = refused + 1
  /\ writer' = [writer EXCEPT ![Self] = Idle]
  /\ runner' = IF runner = "fail" THEN "done" ELSE "faildrain"
  /\ UNCHANGED <<first, job, posted, chain, stored, now, hurried, lost, viewer>>

\* set_plan_detail, which may raise as well.
PostDetail(s) ==
  /\ s \in posted
  /\ posted' = posted \ {s}
  /\ \/ job' = [job EXCEPT !.details = @ \cup {s}, !.ttl = TRUE] /\ UNCHANGED lost
     \/ lost < MaxLost /\ lost' = lost + 1 /\ UNCHANGED job
  /\ UNCHANGED <<first, writer, runner, chain, stored, now, hurried, refused, viewer>>

-----------------------------------------------------------------------------
(* The chain: on_detail and on_stage of a stage that ends. *)

\* _next_stage: the last stage is its own successor.
NextStage(s) == IF s = StageCount THEN s ELSE s + 1

\* A revision does not report its assembly.
Reports(s) == Brief \/ s < StageCount

StageDone(s) ==
  /\ runner = "chain" /\ chain = s
  /\ s \in Quick \/ (~Busy /\ posted = {})
  /\ hurried' = (hurried \/ Busy)
  /\ now' = now + 1
  /\ chain' = s + 1
  /\ IF Reports(s)
     THEN /\ posted' = posted \cup {s}
          /\ writer' = [writer EXCEPT ![s] = Writing("running", NextStage(s))]
     ELSE UNCHANGED <<posted, writer>>
  /\ UNCHANGED <<first, job, runner, stored, lost, refused, viewer>>

\* Mutant: the body of the task is not guarded.
ChainRaisesUnguarded ==
  /\ runner = "chain" /\ chain \in Stages
  /\ runner' = "done"
  /\ UNCHANGED <<first, job, writer, posted, chain, stored, now, faults, viewer>>

ChainRaises ==
  /\ runner = "chain" /\ chain \in Stages
  /\ runner' = "faildrain"
  /\ UNCHANGED <<first, job, writer, posted, chain, stored, now, faults, viewer>>

-----------------------------------------------------------------------------
(* The runner after the chain. *)

RunnerGoes(from, to) ==
  /\ runner = from
  /\ runner' = to
  /\ UNCHANGED <<first, job, posted, chain, stored, now, faults, viewer>>

RunnerWrites(from, to, st) ==
  /\ RunnerGoes(from, to)
  /\ writer' = [writer EXCEPT ![Self] = Writing(st, 0)]

\* Mutant: nothing waits for the progress writes.
NothingDrained == TRUE

\* asyncio.wait over the pending futures, whatever their outcome.
Drained == ~Busy /\ posted = {}

Drain ==
  /\ chain = StageCount + 1
  /\ Drained
  /\ RunnerGoes("chain", IF Brief THEN "validate" ELSE "detail")
  /\ UNCHANGED writer

\* The revision's own detail of its assembly, awaited.
AssembleDetail ==
  /\ runner = "detail"
  /\ \/ runner' = "validate" /\ job' = [job EXCEPT !.details = @ \cup {StageCount}]
        /\ UNCHANGED refused
     \/ refused < MaxRefused /\ refused' = refused + 1 /\ runner' = "faildrain" /\ UNCHANGED job
  /\ UNCHANGED <<first, writer, posted, chain, stored, now, hurried, lost, viewer>>

Validate ==
  \/ RunnerGoes("validate", "persist") /\ UNCHANGED writer
  \/ RunnerWrites("validate", "invalid", "failed")

\* Mutant: the save is spawned and not awaited.
PersistUnwaited ==
  /\ runner = "persist"
  /\ stored' \in BOOLEAN
  /\ runner' = "succeed"
  /\ writer' = [writer EXCEPT ![Self] = Writing("succeeded", 0)]
  /\ UNCHANGED <<first, job, posted, chain, now, faults, viewer>>

\* save_package or persist_revision.
Persist ==
  /\ runner = "persist"
  /\ \/ /\ stored' = TRUE
        /\ runner' = "succeed"
        /\ writer' = [writer EXCEPT ![Self] = Writing("succeeded", 0)]
        /\ UNCHANGED refused
     \/ /\ refused < MaxRefused
        /\ refused' = refused + 1
        /\ runner' = "faildrain"
        /\ UNCHANGED <<stored, writer>>
  /\ UNCHANGED <<first, job, posted, chain, now, hurried, lost, viewer>>

\* The except clause: what is pending lands before the failure does.
FailDrain == Drained /\ RunnerWrites("faildrain", "fail", "failed")

-----------------------------------------------------------------------------
(* The process, the key's time to live, and the stream. *)

\* A restart of the planning service: nothing takes the job up again.
Crash ==
  /\ runner \notin {"new", "done", "dead"}
  /\ runner' = "dead"
  /\ writer' = [w \in Writers |-> Idle]
  /\ posted' = {}
  /\ UNCHANGED <<first, job, chain, stored, now, faults, viewer>>

\* An hour after the last write; a stage and a poll take less.
Expire ==
  /\ runner \in {"done", "dead"}
  /\ job.ttl
  /\ viewer.pc = "open" => viewer.last = job.st
  /\ job' = [NoJob EXCEPT !.st = "gone"]
  /\ UNCHANGED <<first, writer, posted, runner, chain, stored, now, faults, viewer>>

\* owned_job: the id was returned to the owner, and the hash still names the owner.
OpenStream ==
  /\ viewer.pc = "off"
  /\ runner \notin {"new", "created"}
  /\ job.ttl
  /\ viewer' = [viewer EXCEPT !.pc = "open"]
  /\ UNCHANGED <<first, job, writer, posted, runner, chain, stored, now, faults>>

\* job_events: a missing hash is reported as a failed job.
Poll ==
  /\ viewer.pc = "open"
  /\ viewer' = [pc |-> IF job.st \in Ended \cup {"gone"} THEN "closed" ELSE "open",
                last |-> IF job.st = "gone" THEN "failed" ELSE job.st]
  /\ UNCHANGED <<first, job, writer, posted, runner, chain, stored, now, faults>>

-----------------------------------------------------------------------------
WriteStep(w) == ReadJob(w) \/ StampTime(w) \/ BankTime(w) \/ MoveJob(w) \/ RefreshTtl(w)

Runner ==
  \/ CreateHash \/ CreateTask
  \/ Drain \/ AssembleDetail \/ Validate \/ Persist \/ FailDrain
Chain == \E s \in Stages : StageDone(s)
Progress == \E s \in Stages : WriteStep(s) \/ PostDetail(s)

Next ==
  \/ Runner \/ Chain \/ Progress \/ WriteStep(Self)
  \/ ChainRaises \/ CommandRefused \/ (\E s \in Stages : ProgressLost(s)) \/ Crash
  \/ Expire \/ OpenStream \/ Poll

Spec == Init /\ [][Next]_vars

\* The event loop runs the task and its writes, every stage ends, keys expire, pages poll.
FairSpec ==
  /\ Spec
  /\ WF_vars(Runner) /\ WF_vars(Chain) /\ WF_vars(Progress) /\ WF_vars(WriteStep(Self))
  /\ WF_vars(Expire) /\ WF_vars(Poll)

-----------------------------------------------------------------------------
Times == 0..StageCount

JobType ==
  [st : {"none", "queued", "running", "gone"} \cup Ended, stage : 0..StageCount,
   at : Times, bank : [Stages -> Times], details : SUBSET Stages, ttl : BOOLEAN]
WriterType ==
  [pc : {"idle", "read", "stamp", "bank", "move", "expire"}, to : {"running"} \cup Ended,
   stage : 0..StageCount, seenStage : 0..StageCount, seenAt : Times, banked : Times, stamp : Times]
ViewerType ==
  [pc : {"off", "open", "closed"}, last : {"none", "queued", "running"} \cup Ended]

TypeOK ==
  /\ first \in Firsts
  /\ job \in JobType
  /\ writer \in [Writers -> WriterType]
  /\ posted \subseteq Stages
  /\ runner \in {"new", "created", "begin", "chain", "detail", "validate", "invalid", "persist",
                 "succeed", "faildrain", "fail", "done", "dead"}
  /\ chain \in 0..StageCount + 1
  /\ stored \in BOOLEAN
  /\ now \in Times
  /\ hurried \in BOOLEAN
  /\ lost \in 0..MaxLost /\ refused \in 0..MaxRefused
  /\ viewer \in ViewerType

\* Every frame sequence is one of JobLifecycle: stages never go back, a job that has ended
\* is never shown running again by a late progress write, and only a refused command of its
\* own turns a success into a failure (drain and the terminal setters).
Lifecycle == INSTANCE JobLifecycle
               WITH state <- job.st, stage <- job.stage, trouble <- (refused > 0)
ImplementsLifecycle == Lifecycle!Spec

\* A succeeded job has its package in the store, no write of its own still to come and,
\* unless a write was lost, its last stage and the details of all it worked on; and the last
\* frame of a stream tells how the job ended: success is never shown without a stored
\* package, a stored package as a failure only after a crash or a refused command
\* (the order of drain, save and set_plan_succeeded in the two runners, and job_events).
OutcomeIsTrue ==
  /\ job.st = "succeeded" =>
       /\ stored
       /\ ~Busy /\ posted = {}
       /\ lost = 0 => job.stage = StageCount /\ first..StageCount \subseteq job.details
  /\ viewer.pc = "closed" =>
       /\ viewer.last \in Ended
       /\ viewer.last = "succeeded" => stored
       /\ viewer.last = "failed" /\ stored => runner = "dead" \/ refused > 0

\* Stages that took one tick each are reported with one tick each, assembly's two windows
\* added up, when no stage ended on a pending write and none was lost (_close_stage_timer).
TimesAreExact ==
  job.st = "succeeded" /\ ~hurried /\ lost = 0 =>
    job.bank = [s \in Stages |-> IF s >= first THEN 1 ELSE 0]

\* A job whose process lives and whose commands Redis accepts ends, whatever the chain does
\* and whatever progress is lost; and no page is left polling, even when the process died:
\* the key expires.
JobAndStreamEnd ==
  /\ (runner = "begin") ~> (job.st \in Ended \/ runner = "dead" \/ refused > 0)
  /\ (viewer.pc = "open") ~> (viewer.pc = "closed")
=============================================================================
