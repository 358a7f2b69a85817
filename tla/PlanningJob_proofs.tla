------------------------- MODULE PlanningJob_proofs -------------------------
(***************************************************************************)
(* What PlanningJob promises for every mix of lost progress, refused       *)
(* commands and crashes: its types, the truth of its outcome and of its    *)
(* times, and that it implements JobLifecycle.                             *)
(***************************************************************************)
EXTENDS PlanningJob, TLAPS

Active(w) == writer[w].pc # "idle"
BeforeMove(w) == writer[w].pc \in {"read", "stamp", "bank", "move"}

\* The assembly makes no call to a model, the other stages do: only it can end while the
\* write of the stage before it is pending.
OnlyAssemblyIsQuick == Quick \subseteq {StageCount}

\* No write is overtaken by one of a later stage, by how long the stages take or because no
\* stage ended on a pending write so far.
Ordered == ~hurried \/ OnlyAssemblyIsQuick

-----------------------------------------------------------------------------
\* The runner writes alone, on its way in and out; a stage's write is under way only while
\* the chain runs or a failure waits for it.
WhoWrites ==
  /\ Active(Self) <=> runner \in {"begin", "invalid", "succeed", "fail"}
  /\ Busy \/ posted # {} => runner \in {"chain", "faildrain"}

\* The clock counts the stages that have ended; no window of time is banked twice.
ClockInv ==
  /\ runner \in {"new", "created", "begin"} => chain = 0
  /\ runner = "chain" => chain # 0
  /\ runner \in {"detail", "validate", "invalid", "persist", "succeed"} => chain = StageCount + 1
  /\ chain = 0 => now = 0
  /\ chain # 0 => first <= chain /\ now = chain - first
  /\ job.at <= now
  /\ \A s \in Stages : job.bank[s] <= job.at
  /\ \A w \in Writers :
       /\ writer[w].pc \in {"stamp", "bank"} => writer[w].banked <= writer[w].seenAt
       /\ writer[w].pc = "stamp" => writer[w].seenAt <= now
       /\ writer[w].pc = "bank" =>
            /\ writer[w].seenStage \in Stages
            /\ writer[w].seenAt <= writer[w].stamp
            /\ writer[w].stamp <= job.at

\* Who writes what, and when.
WriterInv ==
  /\ runner = "begin" => writer[Self].to = "running" /\ writer[Self].stage = first
  /\ runner \in {"invalid", "fail"} => writer[Self].to = "failed"
  /\ runner = "succeed" => writer[Self].to = "succeeded"
  /\ \A s \in Stages : Active(s) =>
       /\ writer[s].to = "running" /\ writer[s].stage = NextStage(s)
       /\ s < chain
       /\ Ordered => chain = s + 1 \/ NextStage(s) = StageCount
  /\ ~hurried => \A v, w \in Writers : Active(v) /\ Active(w) => v = w

\* The status in the hash at each point of the runner.
StatusInv ==
  /\ job.st = "none" <=> runner = "new"
  /\ Busy \/ posted # {} => job.st = "running"
  /\ job.st \in {"none", "queued", "gone"} => job.stage = 0
  /\ job.st \in {"none", "gone"} => ~job.ttl
  /\ runner = "created" => job.st = "queued"
  /\ runner = "begin" => job.st = IF At(Self, "expire") THEN "running" ELSE "queued"
  /\ runner = "begin" /\ At(Self, "expire") => job.stage = first
  /\ runner \in {"chain", "detail", "validate", "persist"} => job.st = "running"
  /\ runner = "invalid" => job.st = IF At(Self, "expire") THEN "failed" ELSE "running"
  /\ runner = "succeed" => job.st = IF At(Self, "expire") THEN "succeeded" ELSE "running"
  /\ runner \in {"faildrain", "fail"} => job.st \in {"queued", "running"} \cup Ended
  /\ runner = "fail" /\ At(Self, "expire") => job.st = "failed"
  /\ job.st = "succeeded" => runner \in {"succeed", "faildrain", "fail", "done", "dead"}
  /\ job.st = "succeeded" /\ runner \in {"faildrain", "fail"} => refused > 0
  /\ job.st = "failed" => runner \in {"invalid", "faildrain", "fail", "done", "dead"}
  /\ job.st = "gone" => runner \in {"done", "dead"}
  /\ runner = "done" => job.st \in Ended \cup {"gone"} \/ refused > 0
  /\ chain # 0 => job.stage <= chain

\* The stage the chain works on, or its last one, is shown or about to be.
Front == IF chain = StageCount + 1 THEN StageCount ELSE chain

Succeeding == runner \in {"chain", "detail", "validate", "persist", "succeed"}

\* Nothing the chain reports is missing, unless it was lost: not its stage,
ShownInv ==
  Succeeding /\ lost = 0 /\ Ordered => job.stage = Front \/ (Front > 1 /\ BeforeMove(Front - 1))

\* not what its stages produced,
DetailInv ==
  Succeeding /\ lost = 0 =>
    \A s \in first..StageCount : s < chain =>
      s \in job.details \cup posted \/ (s = StageCount /\ ~Brief /\ runner \in {"chain", "detail"})

\* and nothing at its end.
CompleteInv ==
  job.st = "succeeded" /\ lost = 0 =>
    /\ Ordered => job.stage = StageCount
    /\ first..StageCount \subseteq job.details

\* What the package in the store says of the outcome, and what a page has been shown.
OutcomeInv ==
  /\ runner = "succeed" \/ job.st = "succeeded" => stored
  /\ stored => runner \in {"succeed", "faildrain", "fail", "done", "dead"}
  /\ stored /\ (runner \in {"faildrain", "fail"} \/ job.st = "failed") => refused > 0
  /\ viewer.pc # "closed" => viewer.last \notin Ended
  /\ viewer.pc = "open" /\ job.st = "gone" => runner = "dead" \/ refused > 0
  /\ viewer.pc = "closed" =>
       /\ viewer.last \in Ended
       /\ viewer.last = "succeeded" => stored
       /\ viewer.last = "failed" =>
            \/ runner = "dead" \/ refused > 0
            \/ ~stored /\ runner \in {"invalid", "faildrain", "fail", "done"}

-----------------------------------------------------------------------------
\* What was read before a window is closed still holds when it is banked.
ReadsHold(w) ==
  /\ writer[w].pc \in {"stamp", "bank"} =>
       /\ writer[w].seenStage = job.stage
       /\ job.stage # 0 => writer[w].banked = job.bank[job.stage]
  /\ At(w, "stamp") => writer[w].seenAt = job.at
  /\ At(w, "bank") => writer[w].stamp = job.at
  /\ writer[w].pc \in {"bank", "move", "expire"} => job.at = now

Ticks(s) == IF first <= s /\ s < chain THEN 1 ELSE 0

Keeping == ~hurried /\ lost = 0 /\ (Succeeding \/ runner = "begin" \/ job.st = "succeeded")

\* Each stage that has ended is banked with its one tick, the open window aside.
TimesInv ==
  Keeping =>
    /\ \A w \in Writers : Active(w) => ReadsHold(w)
    /\ \A s \in Stages : s # job.stage => job.bank[s] = Ticks(s)
    /\ job.stage # 0 =>
         IF \E w \in Writers : At(w, "bank")
         THEN \A w \in Writers : At(w, "bank") => Total(w) = Ticks(job.stage)
         ELSE job.bank[job.stage] + (now - job.at) = Ticks(job.stage)
    /\ job.st = "succeeded" => job.at = now /\ job.bank = [s \in Stages |-> IF s >= first THEN 1 ELSE 0]

-----------------------------------------------------------------------------
(* Types and the clock. *)

\* The records the actions are built from have their types.
LEMMA RecordTypes == NoJob \in JobType /\ Idle \in WriterType
BY DEF NoJob, JobType, Idle, WriterType, Ended, Stages, StageCount, Times

\* A write that begins.
LEMMA WritingTypes ==
  ASSUME NEW to \in {"running"} \cup Ended, NEW s \in 0..StageCount
  PROVE  /\ Writing(to, s) \in WriterType
         /\ Writing(to, s).pc = "read" /\ Writing(to, s).to = to /\ Writing(to, s).stage = s
<1>1. Idle \in WriterType
  BY RecordTypes
<1> QED
  BY <1>1 DEF Writing, WriterType

\* The initial state has the types.
LEMMA InitTypes == Init => TypeOK /\ ClockInv
<1> SUFFICES ASSUME Init PROVE TypeOK /\ ClockInv
  OBVIOUS
<1>1. TypeOK
  <2>1. viewer \in ViewerType
    BY DEF Init, ViewerType
  <2>2. chain \in 0..StageCount + 1 /\ now \in Times /\ lost \in 0..MaxLost /\ refused \in 0..MaxRefused
    BY PlanningJobAssumption DEF Init, Times, StageCount
  <2>3. job \in JobType /\ writer \in [Writers -> WriterType]
    BY RecordTypes DEF Init
  <2> QED
    BY <2>1, <2>2, <2>3 DEF Init, TypeOK
<1>2. ClockInv
  BY DEF Init, ClockInv, NoJob, Idle, Stages
<1> QED
  BY <1>1, <1>2

\* What a write remembers of the job it reads.
LEMMA ReadEffect ==
  ASSUME TypeOK, NEW w \in Writers, ReadJob(w)
  PROVE  /\ writer' \in [Writers -> WriterType]
         /\ writer[w].pc = "read" /\ writer'[w].pc = "stamp"
         /\ writer'[w].to = writer[w].to /\ writer'[w].stage = writer[w].stage
         /\ writer'[w].seenStage = job.stage /\ writer'[w].seenAt = job.at
         /\ job.stage = 0 => writer'[w].banked = 0
         /\ job.stage # 0 => writer'[w].banked = job.bank[job.stage]
         /\ \A v \in Writers : v # w => writer'[v] = writer[v]
         /\ UNCHANGED <<first, job, posted, runner, chain, stored, now, hurried, lost, refused, viewer>>
<1> DEFINE b == IF job.stage = 0 THEN 0 ELSE job.bank[job.stage]
<1>1. job.stage \in 0..StageCount /\ job.at \in Times /\ (job.stage # 0 => job.bank[job.stage] \in Times)
  BY DEF TypeOK, JobType, Stages, StageCount, Times
<1>0. writer[w].pc = "read"
  BY DEF ReadJob, At
<1>2. b \in Times
  BY <1>1 DEF Times, StageCount
<1>3. (job.stage = 0 => b = 0) /\ (job.stage # 0 => b = job.bank[job.stage])
  OBVIOUS
<1>4. writer' = [writer EXCEPT ![w].pc = "stamp", ![w].seenStage = job.stage,
                               ![w].seenAt = job.at, ![w].banked = b]
  BY DEF ReadJob
<1> HIDE DEF b
<1>5. writer' \in [Writers -> WriterType]
  <2>1. [writer[w] EXCEPT !.pc = "stamp", !.seenStage = job.stage,
                          !.seenAt = job.at, !.banked = b] \in WriterType
    BY <1>1, <1>2 DEF TypeOK, WriterType
  <2> QED
    BY <1>4, <2>1 DEF TypeOK
<1>6. /\ writer'[w].pc = "stamp"
      /\ writer'[w].to = writer[w].to /\ writer'[w].stage = writer[w].stage
      /\ writer'[w].seenStage = job.stage /\ writer'[w].seenAt = job.at
      /\ writer'[w].banked = b
      /\ \A v \in Writers : v # w => writer'[v] = writer[v]
  BY <1>4 DEF TypeOK, WriterType
<1>8. UNCHANGED <<first, job, posted, runner, chain, stored, now, hurried, lost, refused, viewer>>
  BY DEF ReadJob, faults
<1> QED
  BY <1>3, <1>5, <1>6, <1>0, <1>8

\* The clock is read and written as the moment the stage was entered.
LEMMA StampEffect ==
  ASSUME TypeOK, NEW w \in Writers, StampTime(w)
  PROVE  /\ writer' \in [Writers -> WriterType] /\ job' \in JobType
         /\ writer[w].pc = "stamp"
         /\ writer'[w].pc = (IF writer[w].seenStage = 0 THEN "move" ELSE "bank")
         /\ writer'[w].to = writer[w].to /\ writer'[w].stage = writer[w].stage
         /\ writer'[w].seenStage = writer[w].seenStage /\ writer'[w].seenAt = writer[w].seenAt
         /\ writer'[w].banked = writer[w].banked /\ writer'[w].stamp = now
         /\ job'.at = now
         /\ job'.st = job.st /\ job'.stage = job.stage /\ job'.bank = job.bank
         /\ job'.details = job.details /\ job'.ttl = job.ttl
         /\ \A v \in Writers : v # w => writer'[v] = writer[v]
         /\ UNCHANGED <<first, posted, runner, chain, stored, now, hurried, lost, refused, viewer>>
<1> DEFINE p == IF writer[w].seenStage = 0 THEN "move" ELSE "bank"
<1>1. p \in {"move", "bank"}
  OBVIOUS
<1>2. writer' = [writer EXCEPT ![w].pc = p, ![w].stamp = now]
  BY DEF StampTime
<1> HIDE DEF p
<1>3. writer' \in [Writers -> WriterType]
  BY <1>1, <1>2 DEF TypeOK, WriterType
<1>4. /\ writer'[w].pc = p
      /\ writer'[w].to = writer[w].to /\ writer'[w].stage = writer[w].stage
      /\ writer'[w].seenStage = writer[w].seenStage /\ writer'[w].seenAt = writer[w].seenAt
      /\ writer'[w].banked = writer[w].banked /\ writer'[w].stamp = now
      /\ \A v \in Writers : v # w => writer'[v] = writer[v]
  BY <1>2 DEF TypeOK, WriterType
<1>5. /\ job' \in JobType /\ job'.at = now
      /\ job'.st = job.st /\ job'.stage = job.stage /\ job'.bank = job.bank
      /\ job'.details = job.details /\ job'.ttl = job.ttl
  BY DEF StampTime, TypeOK, JobType
<1> QED
  BY <1>3, <1>4, <1>5 DEF StampTime, At, faults, p

\* The window that was closed is added to what is banked for its stage.
LEMMA BankEffect ==
  ASSUME TypeOK, ClockInv, NEW w \in Writers, BankTime(w)
  PROVE  /\ Total(w) \in Times /\ Total(w) <= job.at /\ writer[w].seenStage \in Stages
         /\ writer' \in [Writers -> WriterType] /\ job' \in JobType
         /\ writer[w].pc = "bank" /\ writer'[w].pc = "move"
         /\ writer'[w].to = writer[w].to /\ writer'[w].stage = writer[w].stage
         /\ job'.bank[writer[w].seenStage] = Total(w)
         /\ \A s \in Stages : s # writer[w].seenStage => job'.bank[s] = job.bank[s]
         /\ job'.st = job.st /\ job'.stage = job.stage /\ job'.at = job.at
         /\ job'.details = job.details /\ job'.ttl = job.ttl
         /\ \A v \in Writers : v # w => writer'[v] = writer[v]
         /\ UNCHANGED <<first, posted, runner, chain, stored, now, hurried, lost, refused, viewer>>
<1> DEFINE q == writer[w].seenStage
           t == Total(w)
<1>0. t \in Times /\ t <= job.at /\ q \in Stages
  BY DEF BankTime, At, Total, TypeOK, ClockInv, WriterType, JobType, Times, StageCount
<1>1. job' = [job EXCEPT !.bank[q] = t]
  BY DEF BankTime
<1>2. writer' = [writer EXCEPT ![w].pc = "move"] /\ writer[w].pc = "bank"
  BY DEF BankTime, At
<1>3. /\ writer' \in [Writers -> WriterType] /\ writer'[w].pc = "move"
      /\ writer'[w].to = writer[w].to /\ writer'[w].stage = writer[w].stage
      /\ \A v \in Writers : v # w => writer'[v] = writer[v]
  BY <1>2 DEF TypeOK, WriterType
<1> HIDE DEF q, t
<1>4. /\ job' \in JobType /\ job'.bank[q] = t
      /\ \A s \in Stages : s # q => job'.bank[s] = job.bank[s]
      /\ job'.st = job.st /\ job'.stage = job.stage /\ job'.at = job.at
      /\ job'.details = job.details /\ job'.ttl = job.ttl
  BY <1>0, <1>1 DEF TypeOK, JobType
<1> QED
  BY <1>0, <1>2, <1>3, <1>4 DEF BankTime, faults, q, t

\* The status and the stage move together.
LEMMA MoveEffect ==
  ASSUME TypeOK, NEW w \in Writers, MoveJob(w)
  PROVE  /\ writer' \in [Writers -> WriterType] /\ job' \in JobType
         /\ writer[w].pc = "move" /\ writer'[w].pc = "expire"
         /\ writer'[w].to = writer[w].to /\ writer'[w].stage = writer[w].stage
         /\ job'.st = writer[w].to
         /\ job'.stage = (IF writer[w].to = "running" THEN writer[w].stage ELSE job.stage)
         /\ job'.bank = job.bank /\ job'.at = job.at
         /\ job'.details = job.details /\ job'.ttl = job.ttl
         /\ \A v \in Writers : v # w => writer'[v] = writer[v]
         /\ UNCHANGED <<first, posted, runner, chain, stored, now, hurried, lost, refused, viewer>>
<1> DEFINE q == IF writer[w].to = "running" THEN writer[w].stage ELSE job.stage
           t == writer[w].to
<1>1. job' = [job EXCEPT !.st = t, !.stage = q]
  BY DEF MoveJob, TypeOK, JobType
<1>2. q \in 0..StageCount /\ t \in {"running"} \cup Ended
  BY DEF TypeOK, WriterType, JobType
<1>3. writer' = [writer EXCEPT ![w].pc = "expire"] /\ writer[w].pc = "move"
  BY DEF MoveJob, At
<1>4. /\ writer' \in [Writers -> WriterType] /\ writer'[w].pc = "expire"
      /\ writer'[w].to = writer[w].to /\ writer'[w].stage = writer[w].stage
      /\ \A v \in Writers : v # w => writer'[v] = writer[v]
  BY <1>3 DEF TypeOK, WriterType
<1> HIDE DEF q, t
<1>5. /\ job' \in JobType /\ job'.st = t /\ job'.stage = q
      /\ job'.bank = job.bank /\ job'.at = job.at
      /\ job'.details = job.details /\ job'.ttl = job.ttl
  BY <1>1, <1>2 DEF TypeOK, JobType
<1> QED
  BY <1>3, <1>4, <1>5 DEF MoveJob, faults, q, t

\* The write is over; the runner goes on when it was its own.
LEMMA ExpireEffect ==
  ASSUME TypeOK, NEW w \in Writers, RefreshTtl(w)
  PROVE  /\ writer' \in [Writers -> WriterType] /\ job' \in JobType
         /\ writer[w].pc = "expire" /\ writer'[w].pc = "idle"
         /\ job'.ttl
         /\ job'.st = job.st /\ job'.stage = job.stage /\ job'.at = job.at
         /\ job'.bank = job.bank /\ job'.details = job.details
         /\ \A v \in Writers : v # w => writer'[v] = writer[v]
         /\ w # Self => runner' = runner /\ chain' = chain
         /\ w = Self /\ runner = "begin" => runner' = "chain" /\ chain' = first
         /\ w = Self /\ runner # "begin" => runner' = "done" /\ chain' = chain
         /\ UNCHANGED <<first, posted, stored, now, hurried, lost, refused, viewer>>
<1>1. job' = [job EXCEPT !.ttl = TRUE] /\ writer' = [writer EXCEPT ![w] = Idle]
  BY DEF RefreshTtl
<1>2. /\ job' \in JobType /\ job'.ttl
      /\ job'.st = job.st /\ job'.stage = job.stage /\ job'.at = job.at
      /\ job'.bank = job.bank /\ job'.details = job.details
  BY <1>1 DEF TypeOK, JobType
<1>3. /\ writer' \in [Writers -> WriterType] /\ writer'[w].pc = "idle"
      /\ \A v \in Writers : v # w => writer'[v] = writer[v]
  BY <1>1, RecordTypes DEF TypeOK, Idle
<1> QED
  BY <1>2, <1>3 DEF RefreshTtl, At, faults

\* A command of a write keeps the types, and what it banks is not more than has passed.
LEMMA TypesOfWrite ==
  ASSUME TypeOK, ClockInv, NEW w \in Writers, WriteStep(w)
  PROVE  TypeOK' /\ ClockInv'
<1> USE DEF Times, StageCount
<1>1. job \in JobType /\ now \in Times /\ writer \in [Writers -> WriterType]
  BY DEF TypeOK
<1>2. CASE ReadJob(w)
  <2>1. TypeOK'
    BY <1>2, ReadEffect DEF TypeOK
  <2>2. writer'[w].banked <= writer'[w].seenAt /\ writer'[w].seenAt <= now
    BY <1>1, <1>2, ReadEffect DEF ClockInv, JobType, Stages
  <2> QED
    BY <1>2, <2>1, <2>2, ReadEffect DEF ClockInv
<1>3. CASE StampTime(w)
  <2>1. TypeOK'
    BY <1>3, StampEffect DEF TypeOK
  <2>2. \A v \in Writers : writer[v].pc = "bank" => writer[v].stamp <= now
    BY <1>1 DEF ClockInv, WriterType, JobType
  <2>3. \A s \in Stages : job.bank[s] <= now
    BY <1>1 DEF ClockInv, JobType
  <2>4. writer'[w].pc = "bank" => /\ writer'[w].seenStage \in Stages
                                  /\ writer'[w].banked <= writer'[w].seenAt
                                  /\ writer'[w].seenAt <= writer'[w].stamp
                                  /\ writer'[w].stamp <= now
    BY <1>1, <1>3, StampEffect DEF ClockInv, WriterType, Stages
  <2> QED
    BY <1>1, <1>3, <2>1, <2>2, <2>3, <2>4, StampEffect DEF ClockInv
<1>4. CASE BankTime(w)
  <2>1. TypeOK'
    BY <1>4, BankEffect DEF TypeOK
  <2>2. \A s \in Stages : job'.bank[s] <= job.at
    BY <1>1, <1>4, BankEffect DEF ClockInv
  <2> QED
    BY <1>4, <2>1, <2>2, BankEffect DEF ClockInv
<1>5. CASE MoveJob(w)
  BY <1>5, MoveEffect DEF TypeOK, ClockInv
<1>6. CASE RefreshTtl(w)
  <2>1. first \in 1..StageCount
    BY PlanningJobAssumption DEF TypeOK
  <2>2. chain' \in 0..StageCount + 1
    BY <1>6, <2>1, ExpireEffect DEF TypeOK
  <2>3. TypeOK'
    BY <1>6, <2>2, ExpireEffect DEF TypeOK
  <2> QED
    BY <1>6, <2>1, <2>3, ExpireEffect DEF ClockInv
<1> QED
  BY <1>2, <1>3, <1>4, <1>5, <1>6 DEF WriteStep

\* The runner's other steps keep the types.
LEMMA TypesOfRunner ==
  ASSUME TypeOK, WhoWrites, ClockInv, Runner
  PROVE  TypeOK' /\ ClockInv'
<1> USE PlanningJobAssumption
<1>1. first \in 1..StageCount /\ Self \in Writers /\ 0 \in 0..StageCount
  BY DEF TypeOK, StageCount, Writers, Self
<1>2. CASE CreateHash
  <2>1. job' = [NoJob EXCEPT !.st = "queued"]
    BY <1>2 DEF CreateHash
  <2>2. job' \in JobType
    BY <2>1, RecordTypes DEF JobType
  <2>3. job'.at = 0 /\ \A s \in Stages : job'.bank[s] = 0
    BY <2>1 DEF NoJob
  <2>4. \A w \in Writers : writer[w].pc = "idle"
    BY <1>2 DEF CreateHash, WhoWrites, Active, Busy, Writers
  <2> QED
    BY <1>2, <2>2, <2>3, <2>4 DEF CreateHash, TypeOK, ClockInv, faults, Times, StageCount
<1>3. CASE CreateTask
  <2>1. (1..first - 1) \ {4} \subseteq Stages
    BY <1>1 DEF Stages, StageCount
  <2>2. job' = [job EXCEPT !.ttl = TRUE, !.details = (1..first - 1) \ {4}]
    BY <1>3 DEF CreateTask
  <2>3. job' \in JobType /\ job'.at = job.at /\ job'.bank = job.bank
    BY <2>1, <2>2 DEF TypeOK, JobType
  <2>4. Writing("running", first) \in WriterType /\ Writing("running", first).pc = "read"
    BY <1>1, WritingTypes DEF StageCount
  <2> QED
    BY <1>1, <1>3, <2>3, <2>4 DEF CreateTask, TypeOK, ClockInv, faults
<1>4. ASSUME NEW from, NEW to \in {"invalid", "fail"}, RunnerWrites(from, to, "failed"),
             to = "invalid" => chain = StageCount + 1
      PROVE  TypeOK' /\ ClockInv'
  <2>1. Writing("failed", 0) \in WriterType /\ Writing("failed", 0).pc = "read"
    BY <1>1, WritingTypes DEF Ended
  <2> QED
    BY <1>1, <1>4, <2>1 DEF RunnerWrites, RunnerGoes, TypeOK, ClockInv, faults
<1>5. CASE Drain \/ Validate \/ FailDrain
  <2>1. CASE Drain
    BY <2>1 DEF Drain, RunnerGoes, TypeOK, ClockInv, faults
  <2>2. CASE RunnerGoes("validate", "persist") /\ UNCHANGED writer
    BY <2>2 DEF RunnerGoes, TypeOK, ClockInv, faults
  <2>3. CASE RunnerWrites("validate", "invalid", "failed")
    BY <2>3, <1>4 DEF RunnerWrites, RunnerGoes, ClockInv
  <2>4. CASE FailDrain
    BY <2>4, <1>4 DEF FailDrain
  <2> QED
    BY <1>5, <2>1, <2>2, <2>3, <2>4 DEF Validate
<1>6. CASE AssembleDetail
  <2>1. job' = job \/ job' = [job EXCEPT !.details = @ \cup {StageCount}]
    BY <1>6 DEF AssembleDetail
  <2>2. StageCount \in Stages
    BY DEF Stages, StageCount
  <2>3. job' \in JobType /\ job'.at = job.at /\ job'.bank = job.bank
    BY <2>1, <2>2 DEF TypeOK, JobType
  <2>4. refused' = refused \/ (refused < MaxRefused /\ refused' = refused + 1)
    BY <1>6 DEF AssembleDetail
  <2>5. refused' \in 0..MaxRefused
    BY <2>4 DEF TypeOK
  <2> QED
    BY <1>6, <2>3, <2>5 DEF AssembleDetail, TypeOK, ClockInv
<1>7. CASE Persist
  <2>1. Writing("succeeded", 0) \in WriterType /\ Writing("succeeded", 0).pc = "read"
    BY <1>1, WritingTypes DEF Ended
  <2>2. refused' = refused \/ (refused < MaxRefused /\ refused' = refused + 1)
    BY <1>7 DEF Persist
  <2>3. refused' \in 0..MaxRefused
    BY <2>2 DEF TypeOK
  <2>4. /\ \/ writer' = writer
           \/ writer' = [writer EXCEPT ![Self] = Writing("succeeded", 0)]
        /\ stored' \in BOOLEAN /\ runner' \in {"succeed", "faildrain"} /\ runner = "persist"
        /\ UNCHANGED <<first, job, posted, chain, now, hurried, lost, viewer>>
    BY <1>7 DEF Persist, TypeOK
  <2> QED
    BY <1>1, <2>1, <2>3, <2>4 DEF TypeOK, ClockInv
<1> QED
  BY <1>2, <1>3, <1>5, <1>6, <1>7 DEF Runner

\* The chain, the faults, the key's expiry and the stream keep the types.
LEMMA TypesOfRest ==
  ASSUME TypeOK, WhoWrites, ClockInv, NEW s \in Stages,
         \/ StageDone(s) \/ PostDetail(s) \/ ProgressLost(s)
         \/ ChainRaises \/ CommandRefused \/ Crash \/ Expire \/ OpenStream \/ Poll
  PROVE  TypeOK' /\ ClockInv'
<1> USE PlanningJobAssumption
<1>1. s \in Writers /\ Self \in Writers /\ s \in 1..StageCount
  BY DEF Stages, Writers
<1>2. writer \in [Writers -> WriterType] /\ job \in JobType /\ Idle.pc = "idle"
  BY DEF TypeOK, Idle
<1>3. CASE StageDone(s)
  <2>1. NextStage(s) \in 0..StageCount
    BY <1>1 DEF NextStage, StageCount
  <2>2. Writing("running", NextStage(s)) \in WriterType /\ Writing("running", NextStage(s)).pc = "read"
    BY <2>1, WritingTypes
  <2>3. /\ posted' \subseteq Stages
        /\ writer' = writer \/ writer' = [writer EXCEPT ![s] = Writing("running", NextStage(s))]
        /\ runner = "chain" /\ chain = s /\ now' = now + 1 /\ chain' = s + 1
        /\ hurried' \in BOOLEAN
        /\ UNCHANGED <<first, job, runner, stored, lost, refused, viewer>>
    BY <1>3 DEF StageDone, TypeOK
  <2>4. now' \in Times /\ chain' \in 0..StageCount + 1 /\ first <= chain' /\ now' = chain' - first
    BY <1>1, <2>3 DEF TypeOK, ClockInv, Times, StageCount
  <2>5. writer' \in [Writers -> WriterType] /\ \A w \in Writers : writer'[w] = writer[w] \/ writer'[w].pc = "read"
    BY <1>1, <1>2, <2>2, <2>3
  <2>6. TypeOK'
    BY <2>3, <2>4, <2>5 DEF TypeOK
  <2>7. job.at <= now' /\ \A w \in Writers : writer[w].pc = "stamp" => writer[w].seenAt <= now'
    BY <1>2, <2>3 DEF TypeOK, ClockInv, Times, StageCount, JobType, WriterType
  <2> QED
    BY <1>1, <2>3, <2>4, <2>5, <2>6, <2>7 DEF ClockInv, StageCount
<1>4. CASE PostDetail(s)
  <2>1. job' = job \/ job' = [job EXCEPT !.details = @ \cup {s}, !.ttl = TRUE]
    BY <1>4 DEF PostDetail
  <2>2. job.details \cup {s} \subseteq Stages
    BY <1>2 DEF JobType
  <2>5. job' \in JobType /\ job'.at = job.at /\ job'.bank = job.bank
    BY <1>2, <2>1, <2>2 DEF JobType
  <2>3. lost' = lost \/ (lost < MaxLost /\ lost' = lost + 1)
    BY <1>4 DEF PostDetail
  <2>4. lost' \in 0..MaxLost
    BY <2>3 DEF TypeOK
  <2> QED
    BY <1>4, <2>4, <2>5 DEF PostDetail, TypeOK, ClockInv
<1>5. CASE ProgressLost(s)
  BY <1>1, <1>2, <1>5, RecordTypes DEF ProgressLost, TypeOK, ClockInv
<1>6. CASE ChainRaises
  BY <1>6 DEF ChainRaises, TypeOK, ClockInv, faults
<1>7. CASE CommandRefused
  BY <1>1, <1>2, <1>7, RecordTypes DEF CommandRefused, TypeOK, ClockInv
<1>8. CASE Crash
  BY <1>2, <1>8, RecordTypes DEF Crash, TypeOK, ClockInv, faults
<1>9. CASE Expire
  <2>1. job' = [NoJob EXCEPT !.st = "gone"]
    BY <1>9 DEF Expire
  <2>2. job' \in JobType
    BY <2>1, RecordTypes DEF JobType
  <2>3. job'.at = 0 /\ \A r \in Stages : job'.bank[r] = 0
    BY <2>1 DEF NoJob
  <2>4. \A w \in Writers : writer[w].pc = "idle"
    BY <1>9 DEF Expire, WhoWrites, Active, Busy, Writers
  <2>5. 0 <= now
    BY DEF TypeOK, Times, StageCount
  <2> QED
    BY <1>9, <2>2, <2>3, <2>4, <2>5 DEF Expire, TypeOK, ClockInv, faults
<1>10. CASE OpenStream \/ Poll
  <2>1. ASSUME OpenStream PROVE viewer' \in ViewerType
    BY <2>1 DEF OpenStream, TypeOK, ViewerType
  <2>2. ASSUME Poll PROVE viewer' \in ViewerType
    <3>1. viewer'.pc \in {"closed", "open"} /\ viewer'.last \in {"none", "queued", "running"} \cup Ended
      BY <1>2, <2>2 DEF Poll, JobType, Ended
    <3> QED
      BY <2>2, <3>1 DEF Poll, ViewerType
  <2>3. viewer' \in ViewerType
    BY <1>10, <2>1, <2>2
  <2> QED
    BY <1>10, <2>3 DEF OpenStream, Poll, TypeOK, ClockInv, faults
<1> QED
  BY <1>3, <1>4, <1>5, <1>6, <1>7, <1>8, <1>9, <1>10

\* The runner's own write begins.
LEMMA SelfEffect ==
  ASSUME TypeOK, NEW to \in {"running"} \cup Ended, NEW n \in 0..StageCount,
         writer' = [writer EXCEPT ![Self] = Writing(to, n)]
  PROVE  /\ writer'[Self].pc = "read" /\ writer'[Self].to = to /\ writer'[Self].stage = n
         /\ \A v \in Writers : v # Self => writer'[v] = writer[v]
BY WritingTypes DEF TypeOK, Writers

\* The runner goes on to a last write.
LEMMA WritesEffect ==
  ASSUME TypeOK, NEW from, NEW goal, NEW st \in Ended, RunnerWrites(from, goal, st)
  PROVE  /\ runner = from /\ runner' = goal
         /\ writer'[Self].pc = "read" /\ writer'[Self].to = st
         /\ \A v \in Writers : v # Self => writer'[v] = writer[v]
         /\ UNCHANGED <<first, job, posted, chain, stored, now, hurried, lost, refused, viewer>>
<1>1. writer' = [writer EXCEPT ![Self] = Writing(st, 0)] /\ 0 \in 0..StageCount
  BY DEF RunnerWrites, StageCount
<1> QED
  BY <1>1, SelfEffect DEF RunnerWrites, RunnerGoes, faults

\* A write ends before its last command.
LEMMA DropEffect ==
  ASSUME TypeOK, NEW w \in Writers, writer' = [writer EXCEPT ![w] = Idle]
  PROVE  writer'[w].pc = "idle" /\ \A v \in Writers : v # w => writer'[v] = writer[v]
BY DEF TypeOK, Idle

\* A stage ends and its write begins.
LEMMA StageEffect ==
  ASSUME TypeOK, NEW s \in Stages, StageDone(s)
  PROVE  /\ runner = "chain" /\ chain = s /\ now' = now + 1 /\ chain' = s + 1
         /\ s \in Quick \/ (~Busy /\ posted = {})
         /\ hurried' = (hurried \/ Busy)
         /\ \A v \in Writers : v # s => writer'[v] = writer[v]
         /\ Reports(s) => /\ posted' = posted \cup {s} /\ writer'[s].pc = "read"
                          /\ writer'[s].to = "running" /\ writer'[s].stage = NextStage(s)
         /\ ~Reports(s) => posted' = posted /\ writer' = writer
         /\ UNCHANGED <<first, job, runner, stored, lost, refused, viewer>>
<1>1. NextStage(s) \in 0..StageCount /\ s \in Writers
  BY DEF NextStage, StageCount, Stages, Writers
<1>2. Reports(s) => writer' = [writer EXCEPT ![s] = Writing("running", NextStage(s))]
  BY DEF StageDone
<1>3. Reports(s) => /\ writer'[s].pc = "read" /\ writer'[s].to = "running"
                    /\ writer'[s].stage = NextStage(s)
                    /\ \A v \in Writers : v # s => writer'[v] = writer[v]
  BY <1>1, <1>2, WritingTypes DEF TypeOK
<1>4. ~Reports(s) => posted' = posted /\ writer' = writer
  BY DEF StageDone
<1> QED
  BY <1>3, <1>4 DEF StageDone

\* A step of the job is one of these.
LEMMA Steps ==
  ASSUME [Next]_vars
  PROVE  \/ \E w \in Writers : WriteStep(w)
         \/ Runner
         \/ \E s \in Stages : StageDone(s) \/ PostDetail(s) \/ ProgressLost(s)
         \/ ChainRaises \/ CommandRefused \/ Crash \/ Expire \/ OpenStream \/ Poll
         \/ UNCHANGED vars
BY DEF Next, Chain, Progress, Writers

\* Every step keeps the types and the clock.
LEMMA TypesStep == ASSUME TypeOK, WhoWrites, ClockInv, [Next]_vars PROVE TypeOK' /\ ClockInv'
<1>1. CASE UNCHANGED vars
  BY <1>1 DEF vars, TypeOK, ClockInv
<1>2. 1 \in Stages
  BY DEF Stages, StageCount
<1> QED
  BY <1>1, <1>2, Steps, TypesOfWrite, TypesOfRunner, TypesOfRest

-----------------------------------------------------------------------------
(* Who writes. *)

\* Every step keeps the writers in their places.
LEMMA WhoStep == ASSUME TypeOK, ClockInv, WhoWrites, [Next]_vars PROVE WhoWrites'
<1> USE DEF WhoWrites, Active, Busy
<1>1. Self \notin Stages /\ Self \in Writers /\ Stages \subseteq Writers /\ 0 \in 0..StageCount
  BY DEF Self, Stages, Writers, StageCount
<1>2. ASSUME NEW w \in Writers, WriteStep(w) PROVE WhoWrites'
  <2>1. CASE ReadJob(w)
    BY <1>1, <2>1, ReadEffect
  <2>2. CASE StampTime(w)
    BY <1>1, <2>2, StampEffect
  <2>3. CASE BankTime(w)
    BY <1>1, <2>3, BankEffect
  <2>4. CASE MoveJob(w)
    BY <1>1, <2>4, MoveEffect
  <2>5. CASE RefreshTtl(w)
    BY <1>1, <2>5, ExpireEffect
  <2> QED
    BY <1>2, <2>1, <2>2, <2>3, <2>4, <2>5 DEF WriteStep
<1>3. CASE Runner
  <2>1. CASE CreateHash
    BY <2>1 DEF CreateHash
  <2>2. CASE CreateTask
    <3>1. first \in 0..StageCount
      BY PlanningJobAssumption DEF TypeOK, StageCount
    <3>2. writer' = [writer EXCEPT ![Self] = Writing("running", first)]
      BY <2>2 DEF CreateTask
    <3>3. writer'[Self].pc = "read" /\ \A v \in Writers : v # Self => writer'[v] = writer[v]
      BY <3>1, <3>2, SelfEffect
    <3> QED
      BY <1>1, <2>2, <3>3 DEF CreateTask
  <2>3. CASE Drain
    BY <2>3 DEF Drain, RunnerGoes, Drained
  <2>4. CASE AssembleDetail
    BY <2>4 DEF AssembleDetail
  <2>5. CASE Validate
    <3>1. CASE RunnerWrites("validate", "invalid", "failed")
      BY <1>1, <3>1, WritesEffect DEF Ended
    <3> QED
      BY <2>5, <3>1 DEF Validate, RunnerGoes
  <2>6. CASE Persist
    <3>1. writer' = [writer EXCEPT ![Self] = Writing("succeeded", 0)] =>
            writer'[Self].pc = "read" /\ \A v \in Writers : v # Self => writer'[v] = writer[v]
      BY <1>1, SelfEffect DEF Ended
    <3>2. \/ writer' = [writer EXCEPT ![Self] = Writing("succeeded", 0)] /\ runner' = "succeed"
          \/ writer' = writer /\ runner' = "faildrain"
      BY <2>6 DEF Persist
    <3>3. runner = "persist" /\ posted' = posted
      BY <2>6 DEF Persist
    <3> QED
      BY <1>1, <3>1, <3>2, <3>3
  <2>7. CASE FailDrain
    <3>1. ~Busy /\ posted = {} /\ RunnerWrites("faildrain", "fail", "failed")
      BY <2>7 DEF FailDrain, Drained
    <3> QED
      BY <1>1, <3>1, WritesEffect DEF Ended
  <2> QED
    BY <1>3, <2>1, <2>2, <2>3, <2>4, <2>5, <2>6, <2>7 DEF Runner
<1>4. ASSUME NEW s \in Stages, StageDone(s) \/ PostDetail(s) \/ ProgressLost(s) PROVE WhoWrites'
  <2>1. CASE StageDone(s)
    BY <1>1, <2>1, StageEffect
  <2>2. CASE PostDetail(s)
    BY <2>2 DEF PostDetail
  <2>3. CASE ProgressLost(s)
    BY <1>1, <2>3, DropEffect DEF ProgressLost
  <2> QED
    BY <1>4, <2>1, <2>2, <2>3
<1>5. CASE ChainRaises
  BY <1>5 DEF ChainRaises
<1>6. CASE CommandRefused
  BY <1>1, <1>6, DropEffect DEF CommandRefused, At
<1>7. CASE Crash
  BY <1>1, <1>7 DEF Crash, Idle
<1>8. CASE Expire \/ OpenStream \/ Poll
  BY <1>8 DEF Expire, OpenStream, Poll
<1>9. CASE UNCHANGED vars
  BY <1>9 DEF vars
<1> QED
  BY <1>2, <1>3, <1>4, <1>5, <1>6, <1>7, <1>8, <1>9, Steps

\* Where nobody begins a write and the runner does not reach one, WriterInv stays.
LEMMA WritersUntouched ==
  ASSUME WriterInv, UNCHANGED <<first, chain>>, hurried' = hurried,
         \A w \in Writers : Active(w)' =>
           Active(w) /\ writer'[w].to = writer[w].to /\ writer'[w].stage = writer[w].stage,
         runner' \in {"begin", "invalid", "succeed", "fail"} => runner' = runner /\ Active(Self)'
  PROVE  WriterInv'
BY DEF WriterInv, Writers, Self, Stages, StageCount, NextStage, Ordered

\* A write of the runner begins when no other is under way.
LEMMA SelfBegins ==
  ASSUME TypeOK, WriterInv, ~Busy, UNCHANGED <<first, chain>>, hurried' = hurried,
         writer'[Self].pc = "read",
         \A v \in Writers : v # Self => writer'[v] = writer[v],
         runner' = "begin" => writer'[Self].to = "running" /\ writer'[Self].stage = first,
         runner' \in {"invalid", "fail"} => writer'[Self].to = "failed",
         runner' = "succeed" => writer'[Self].to = "succeeded"
  PROVE  WriterInv'
<1>1. \A v \in Writers : Active(v)' => v = Self
  BY DEF Busy, Active, Writers
<1> QED
  BY <1>1 DEF WriterInv, Writers, Self, Stages

\* The write of a stage begins when no other is under way, unless it is the assembly's.
LEMMA WriterStage ==
  ASSUME TypeOK, WhoWrites, WriterInv, NEW s \in Stages, StageDone(s)
  PROVE  WriterInv'
<1>1. Self \notin Stages /\ Self \in Writers /\ Stages \subseteq Writers
  BY DEF Self, Stages, Writers
<1>2. ~Active(Self)
  BY StageEffect DEF WhoWrites
<1>3. ~Busy => \A v \in Writers : Active(v)' => v = s
  BY <1>2, StageEffect DEF Busy, Active, Writers
<1>4. Active(s)' => /\ writer'[s].to = "running" /\ writer'[s].stage = NextStage(s)
                    /\ s < chain' /\ chain' = s + 1
  <2>1. Active(s) => s < chain /\ writer[s].to = "running" /\ writer[s].stage = NextStage(s)
    BY DEF WriterInv
  <2>2. ~(s < s)
    BY DEF Stages
  <2> QED
    BY <2>1, <2>2, StageEffect DEF Active, Stages
<1>5. ASSUME NEW v \in Stages, v # s, Active(v)'
      PROVE  /\ writer'[v].to = "running" /\ writer'[v].stage = NextStage(v) /\ v < chain'
             /\ Ordered' => chain' = v + 1 \/ NextStage(v) = StageCount
  <2>1. Active(v) /\ writer'[v] = writer[v] /\ Busy
    BY <1>1, <1>5, StageEffect DEF Active, Busy
  <2>2. /\ writer[v].to = "running" /\ writer[v].stage = NextStage(v) /\ v < chain
        /\ Ordered => chain = v + 1 \/ NextStage(v) = StageCount
    BY <2>1 DEF WriterInv
  <2>3. hurried' /\ s \in Quick /\ chain = s /\ chain' = s + 1
    BY <2>1, StageEffect
  <2>4. Ordered' => Ordered /\ s = StageCount
    BY <2>3 DEF Ordered, OnlyAssemblyIsQuick
  <2> QED
    BY <2>1, <2>2, <2>3, <2>4 DEF Stages, StageCount, NextStage
<1>6. ~hurried' => \A v, w \in Writers : Active(v)' /\ Active(w)' => v = w
  BY <1>3, StageEffect
<1>7. runner' = "chain"
  BY StageEffect
<1> QED
  BY <1>4, <1>5, <1>6, <1>7 DEF WriterInv

\* Every step keeps the writers to their word and in order.
LEMMA WriterInvStep == ASSUME TypeOK, ClockInv, WhoWrites, WriterInv, [Next]_vars PROVE WriterInv'
<1>1. Self \notin Stages /\ Self \in Writers /\ Stages \subseteq Writers /\ 0 \in 0..StageCount
  BY DEF Self, Stages, Writers, StageCount
<1>2. Active(Self) <=> runner \in {"begin", "invalid", "succeed", "fail"}
  BY DEF WhoWrites
<1>3. ASSUME NEW w \in Writers, WriteStep(w) PROVE WriterInv'
  <2>1. CASE ReadJob(w)
    BY <1>1, <1>2, <2>1, ReadEffect, WritersUntouched DEF Active
  <2>2. CASE StampTime(w)
    BY <1>1, <1>2, <2>2, StampEffect, WritersUntouched DEF Active
  <2>3. CASE BankTime(w)
    BY <1>1, <1>2, <2>3, BankEffect, WritersUntouched DEF Active
  <2>4. CASE MoveJob(w)
    BY <1>1, <1>2, <2>4, MoveEffect, WritersUntouched DEF Active
  <2>5. CASE RefreshTtl(w)
    <3>1. CASE w # Self \/ runner # "begin"
      BY <1>1, <1>2, <2>5, <3>1, ExpireEffect, WritersUntouched DEF Active
    <3>2. CASE w = Self /\ runner = "begin"
      <4>1. \A s \in Stages : ~Active(s)
        BY <3>2 DEF WhoWrites, Busy, Active
      <4>2. \A v \in Writers : ~Active(v)'
        BY <1>1, <2>5, <3>2, <4>1, ExpireEffect DEF Active, Writers
      <4>3. runner' = "chain"
        BY <2>5, <3>2, ExpireEffect
      <4> QED
        BY <1>1, <4>2, <4>3 DEF WriterInv
    <3> QED
      BY <3>1, <3>2
  <2> QED
    BY <1>3, <2>1, <2>2, <2>3, <2>4, <2>5 DEF WriteStep
<1>4. CASE Runner
  <2>1. CASE CreateHash \/ Drain \/ AssembleDetail
    BY <1>2, <2>1, WritersUntouched DEF CreateHash, Drain, AssembleDetail, RunnerGoes, faults, Active
  <2>2. CASE CreateTask
    <3>1. writer' = [writer EXCEPT ![Self] = Writing("running", first)] /\ first \in 0..StageCount
      BY <2>2, PlanningJobAssumption DEF CreateTask, TypeOK, StageCount
    <3>2. runner' = "begin" /\ ~Busy /\ UNCHANGED <<first, chain, hurried>>
      BY <2>2 DEF CreateTask, WhoWrites, faults
    <3> QED
      BY <3>1, <3>2, SelfEffect, SelfBegins
  <2>3. CASE Validate
    <3>1. CASE RunnerWrites("validate", "invalid", "failed")
      <4>1. ~Busy
        BY <3>1 DEF RunnerWrites, RunnerGoes, WhoWrites
      <4> QED
        BY <3>1, <4>1, WritesEffect, SelfBegins DEF Ended
    <3>2. CASE RunnerGoes("validate", "persist") /\ UNCHANGED writer
      BY <3>2, WritersUntouched DEF RunnerGoes, faults, Active
    <3> QED
      BY <2>3, <3>1, <3>2 DEF Validate
  <2>4. CASE Persist
    <3>1. runner = "persist" /\ ~Busy /\ UNCHANGED <<first, chain, hurried>>
      BY <2>4 DEF Persist, WhoWrites
    <3>2. CASE writer' = [writer EXCEPT ![Self] = Writing("succeeded", 0)] /\ runner' = "succeed"
      BY <1>1, <3>1, <3>2, SelfEffect, SelfBegins DEF Ended
    <3>3. CASE writer' = writer /\ runner' = "faildrain"
      BY <3>1, <3>3, WritersUntouched DEF Active
    <3> QED
      BY <2>4, <3>2, <3>3 DEF Persist
  <2>5. CASE FailDrain
    <3>1. ~Busy /\ RunnerWrites("faildrain", "fail", "failed")
      BY <2>5 DEF FailDrain, Drained
    <3> QED
      BY <3>1, WritesEffect, SelfBegins DEF Ended
  <2> QED
    BY <1>4, <2>1, <2>2, <2>3, <2>4, <2>5 DEF Runner
<1>5. ASSUME NEW s \in Stages, PostDetail(s) \/ ProgressLost(s) PROVE WriterInv'
  <2>1. CASE PostDetail(s)
    BY <1>2, <2>1, WritersUntouched DEF PostDetail, Active
  <2>2. CASE ProgressLost(s)
    BY <1>1, <1>2, <2>2, DropEffect, WritersUntouched DEF ProgressLost, Active
  <2> QED
    BY <1>5, <2>1, <2>2
<1>6. CASE ChainRaises
  BY <1>6, WritersUntouched DEF ChainRaises, faults, Active
<1>7. CASE CommandRefused
  BY <1>1, <1>7, DropEffect, WritersUntouched DEF CommandRefused, Active
<1>8. CASE Crash
  BY <1>8, WritersUntouched DEF Crash, Active, Idle, faults
<1>9. CASE Expire \/ OpenStream \/ Poll
  BY <1>2, <1>9, WritersUntouched DEF Expire, OpenStream, Poll, Active, faults
<1>10. CASE UNCHANGED vars
  BY <1>2, <1>10, WritersUntouched DEF vars, Active
<1> QED
  BY <1>3, <1>4, <1>5, <1>6, <1>7, <1>8, <1>9, <1>10, WriterStage, Steps

-----------------------------------------------------------------------------
(* The status. *)

JobTypes == TypeOK /\ ClockInv /\ WhoWrites /\ WriterInv

\* A write of a stage is under way only while the runner itself does not write.
LEMMA OneKindOfWriter ==
  ASSUME WhoWrites
  PROVE  /\ Active(Self) => ~Busy /\ posted = {}
         /\ \A w \in Writers : Active(w) /\ w # Self => w \in Stages /\ Busy /\ ~Active(Self)
BY DEF WhoWrites, Busy, Active, Writers

\* The commands of a write move the status as the runner's place allows.
LEMMA StatusOfWrite ==
  ASSUME JobTypes, StatusInv, NEW w \in Writers, WriteStep(w)
  PROVE  StatusInv'
<1> USE DEF JobTypes
<1>1. Self \notin Stages /\ Self \in Writers /\ Stages \subseteq Writers
  BY DEF Self, Stages, Writers
<1>2. Active(Self) <=> runner \in {"begin", "invalid", "succeed", "fail"}
  BY DEF WhoWrites
<1>3. Busy' => Busy
  <2>1. \A v \in Writers : writer'[v] = writer[v] \/ Active(v)
    BY ReadEffect, StampEffect, BankEffect, MoveEffect, ExpireEffect DEF WriteStep, Active
  <2> QED
    BY <1>1, <2>1 DEF Busy, Active
<1>4. CASE writer'[w].pc # "expire" /\ writer[w].pc # "expire" /\
           /\ \A v \in Writers : v # w => writer'[v] = writer[v]
           /\ job'.st = job.st /\ job'.stage = job.stage /\ job'.ttl = job.ttl
           /\ UNCHANGED <<first, posted, runner, chain, refused>>
  BY <1>1, <1>3, <1>4 DEF StatusInv, At
<1>5. CASE ReadJob(w)
  BY <1>4, <1>5, ReadEffect
<1>6. CASE StampTime(w)
  BY <1>4, <1>6, StampEffect
<1>7. CASE BankTime(w)
  BY <1>4, <1>7, BankEffect
<1>8. CASE MoveJob(w)
  <2>1. CASE w = Self
    <3>1. Active(Self) /\ ~Busy /\ posted = {}
      BY <1>1, <1>8, <2>1, MoveEffect, OneKindOfWriter DEF Active
    <3>2. At(Self, "move") /\ At(Self, "expire")' /\ ~Busy' /\ posted' = {}
      BY <1>3, <1>8, <2>1, <3>1, MoveEffect DEF At
    <3>3. UNCHANGED <<first, posted, runner, chain, refused>> /\ job'.ttl = job.ttl
      BY <1>8, MoveEffect
    <3>4. CASE runner = "begin"
      <4>1. job'.st = "running" /\ job'.stage = first /\ chain = 0 /\ first # 0 /\ job.st = "queued"
        BY <1>8, <2>1, <3>2, <3>4, MoveEffect, PlanningJobAssumption DEF WriterInv, ClockInv, StatusInv, TypeOK, At
      <4> QED
        BY <3>2, <3>3, <3>4, <4>1 DEF StatusInv, At
    <3>5. CASE runner \in {"invalid", "fail"}
      <4>1. job'.st = "failed" /\ job'.stage = job.stage
        BY <1>8, <2>1, <3>5, MoveEffect DEF WriterInv
      <4> QED
        BY <3>2, <3>3, <3>5, <4>1 DEF StatusInv, At, Ended
    <3>6. CASE runner = "succeed"
      <4>1. job'.st = "succeeded" /\ job'.stage = job.stage
        BY <1>8, <2>1, <3>6, MoveEffect DEF WriterInv
      <4> QED
        BY <3>2, <3>3, <3>6, <4>1 DEF StatusInv, At, Ended
    <3> QED
      BY <1>2, <3>1, <3>4, <3>5, <3>6
  <2>2. CASE w # Self
    <3>1. w \in Stages /\ Busy /\ ~Active(Self)
      BY <1>8, <2>2, MoveEffect, OneKindOfWriter DEF Active
    <3>2. runner \in {"chain", "faildrain"} /\ job.st = "running"
      BY <3>1 DEF WhoWrites, StatusInv
    <3>3. writer[w].to = "running" /\ writer[w].stage = NextStage(w) /\ w < chain
      BY <1>8, <3>1, MoveEffect DEF WriterInv, Active
    <3>4. NextStage(w) <= chain /\ chain \in Nat
      BY <3>1, <3>3 DEF NextStage, Stages, StageCount, TypeOK
    <3>5. job'.st = "running" /\ job'.stage = NextStage(w) /\ job'.ttl = job.ttl
          /\ UNCHANGED <<first, posted, runner, chain, refused>>
      BY <1>8, <3>3, MoveEffect
    <3> QED
      BY <1>3, <3>2, <3>4, <3>5 DEF StatusInv, At
  <2> QED
    BY <2>1, <2>2
<1>9. CASE RefreshTtl(w)
  <2>1. job'.st = job.st /\ job'.stage = job.stage /\ job'.ttl
        /\ UNCHANGED <<first, posted, refused>>
        /\ writer[w].pc = "expire" /\ writer'[w].pc = "idle"
        /\ \A v \in Writers : v # w => writer'[v] = writer[v]
    BY <1>9, ExpireEffect
  <2>2. job.st \notin {"none", "gone"}
    BY <1>2, <2>1, OneKindOfWriter DEF StatusInv, WhoWrites, Active
  <2>3. CASE w = Self
    <3>1. Active(Self) /\ ~Busy /\ posted = {} /\ At(Self, "expire")
      BY <1>1, <2>1, <2>3, OneKindOfWriter DEF Active, At
    <3>2. CASE runner = "begin"
      <4>1. runner' = "chain" /\ chain' = first /\ job.st = "running" /\ job.stage = first
        BY <1>9, <2>3, <3>1, <3>2, ExpireEffect DEF StatusInv
      <4>2. first <= first
        BY PlanningJobAssumption DEF TypeOK
      <4> QED
        BY <1>3, <2>1, <2>2, <3>1, <4>1, <4>2 DEF StatusInv, At
    <3>3. CASE runner # "begin"
      <4>1. runner' = "done" /\ chain' = chain /\ runner \in {"invalid", "succeed", "fail"}
        BY <1>2, <1>9, <2>3, <3>1, <3>3, ExpireEffect
      <4>2. job.st \in Ended
        BY <3>1, <4>1 DEF StatusInv, Ended
      <4> QED
        BY <1>3, <2>1, <2>2, <3>1, <4>1, <4>2 DEF StatusInv, At
    <3> QED
      BY <3>2, <3>3
  <2>4. CASE w # Self
    <3>1. Busy /\ ~Active(Self) /\ runner \in {"chain", "faildrain"} /\ runner' = runner /\ chain' = chain
      BY <1>9, <2>1, <2>4, ExpireEffect, OneKindOfWriter DEF Active, WhoWrites
    <3> QED
      BY <1>3, <2>1, <2>2, <3>1 DEF StatusInv, At
  <2> QED
    BY <2>3, <2>4
<1> QED
  BY <1>5, <1>6, <1>7, <1>8, <1>9 DEF WriteStep

\* The runner's other steps leave the status where its next place allows it.
LEMMA StatusOfRunner ==
  ASSUME JobTypes, StatusInv, Runner
  PROVE  StatusInv'
<1> USE DEF JobTypes
<1>1. Self \notin Stages /\ Self \in Writers /\ Stages \subseteq Writers
  BY DEF Self, Stages, Writers
<1>2. CASE CreateHash
  <2>1. /\ job'.st = "queued" /\ job'.stage = 0 /\ job'.ttl = FALSE
        /\ runner = "new" /\ runner' = "created" /\ UNCHANGED <<chain, writer, posted>>
    BY <1>2 DEF CreateHash, NoJob
  <2>2. ~Busy' /\ posted' = {} /\ chain = 0
    BY <2>1 DEF WhoWrites, ClockInv, Busy, Active
  <2> QED
    BY <2>1, <2>2 DEF StatusInv, At, Ended
<1>3. CASE CreateTask
  <2>1. /\ job'.st = job.st /\ job'.stage = job.stage /\ job'.ttl
        /\ runner = "created" /\ runner' = "begin" /\ UNCHANGED <<first, chain, posted>>
    BY <1>3 DEF CreateTask, TypeOK, JobType
  <2>2. writer' = [writer EXCEPT ![Self] = Writing("running", first)] /\ first \in 0..StageCount
    BY <1>3, PlanningJobAssumption DEF CreateTask, TypeOK, StageCount
  <2>3. writer'[Self].pc = "read" /\ \A v \in Writers : v # Self => writer'[v] = writer[v]
    BY <2>2, SelfEffect
  <2>4. ~Busy' /\ posted' = {} /\ chain = 0
    BY <1>1, <2>1, <2>3 DEF WhoWrites, ClockInv, Busy, Active
  <2> QED
    BY <2>1, <2>3, <2>4 DEF StatusInv, At, Ended
<1>4. ASSUME NEW goal \in {"invalid", "fail"}, ~Busy, posted = {},
             RunnerWrites(IF goal = "fail" THEN "faildrain" ELSE "validate", goal, "failed")
      PROVE  StatusInv'
  <2>1. /\ runner = (IF goal = "fail" THEN "faildrain" ELSE "validate") /\ runner' = goal
        /\ writer'[Self].pc = "read"
        /\ \A v \in Writers : v # Self => writer'[v] = writer[v]
        /\ UNCHANGED <<first, job, posted, chain, stored, now, hurried, lost, refused, viewer>>
    BY <1>4, WritesEffect DEF Ended
  <2>2. ~Busy' /\ posted' = {}
    BY <1>1, <1>4, <2>1 DEF Busy
  <2> QED
    BY <2>1, <2>2 DEF StatusInv, At, Ended
<1>5. CASE Drain
  BY <1>5 DEF Drain, RunnerGoes, faults, StatusInv, Busy, At
<1>6. CASE Validate
  <2>1. CASE RunnerWrites("validate", "invalid", "failed")
    <3>1. ~Busy /\ posted = {}
      BY <2>1 DEF RunnerWrites, RunnerGoes, WhoWrites
    <3> QED
      BY <1>4, <2>1, <3>1
  <2>2. CASE RunnerGoes("validate", "persist") /\ UNCHANGED writer
    BY <2>2 DEF RunnerGoes, faults, StatusInv, Busy, At
  <2> QED
    BY <1>6, <2>1, <2>2 DEF Validate
<1>7. CASE AssembleDetail
  <2>1. /\ job'.st = job.st /\ job'.stage = job.stage /\ job'.ttl = job.ttl
        /\ runner = "detail" /\ runner' \in {"validate", "faildrain"}
        /\ UNCHANGED <<first, writer, chain, posted>>
    BY <1>7 DEF AssembleDetail, TypeOK, JobType
  <2>2. refused' = refused \/ (refused' = refused + 1 /\ refused \in Nat)
    BY <1>7, PlanningJobAssumption DEF AssembleDetail, TypeOK
  <2> QED
    BY <2>1, <2>2 DEF StatusInv, Busy, At, Ended
<1>8. CASE Persist
  <2>1. /\ runner = "persist" /\ UNCHANGED <<first, job, chain, posted>>
        /\ \/ runner' = "succeed" /\ writer' = [writer EXCEPT ![Self] = Writing("succeeded", 0)]
           \/ runner' = "faildrain" /\ writer' = writer
    BY <1>8 DEF Persist
  <2>2. runner' = "succeed" => /\ writer'[Self].pc = "read"
                               /\ \A v \in Writers : v # Self => writer'[v] = writer[v]
    BY <2>1, SelfEffect DEF Ended, StageCount
  <2>3. ~Busy' /\ posted' = {}
    BY <1>1, <2>1, <2>2 DEF WhoWrites, Busy
  <2> QED
    BY <2>1, <2>2, <2>3 DEF StatusInv, At, Ended
<1>9. CASE FailDrain
  <2>1. ~Busy /\ posted = {} /\ RunnerWrites("faildrain", "fail", "failed")
    BY <1>9 DEF FailDrain, Drained
  <2> QED
    BY <1>4, <2>1
<1> QED
  BY <1>2, <1>3, <1>5, <1>6, <1>7, <1>8, <1>9 DEF Runner

\* So do the chain, the faults, the expiry and the stream.
LEMMA StatusOfRest ==
  ASSUME JobTypes, StatusInv, NEW s \in Stages,
         \/ StageDone(s) \/ PostDetail(s) \/ ProgressLost(s)
         \/ ChainRaises \/ CommandRefused \/ Crash \/ Expire \/ OpenStream \/ Poll
         \/ UNCHANGED vars
  PROVE  StatusInv'
<1> USE DEF JobTypes
<1>1. Self \notin Stages /\ Self \in Writers /\ Stages \subseteq Writers
  BY DEF Self, Stages, Writers
<1>2. CASE StageDone(s)
  <2>1. /\ runner = "chain" /\ chain = s /\ chain' = s + 1
        /\ writer'[Self] = writer[Self]
        /\ UNCHANGED <<first, job, runner, refused>>
    BY <1>1, <1>2, StageEffect
  <2>2. job.stage <= s => job.stage <= s + 1
    BY DEF TypeOK, JobType, Stages, StageCount
  <2> QED
    BY <2>1, <2>2 DEF StatusInv, At, Stages
<1>3. CASE PostDetail(s)
  <2>1. /\ job'.st = job.st /\ job'.stage = job.stage /\ (job'.ttl = job.ttl \/ job.st = "running")
        /\ posted # {} /\ UNCHANGED <<first, writer, runner, chain, refused>>
    BY <1>3 DEF PostDetail, TypeOK, JobType, StatusInv
  <2> QED
    BY <2>1 DEF StatusInv, At, Busy
<1>4. CASE ProgressLost(s)
  <2>1. /\ writer'[Self] = writer[Self] /\ Busy
        /\ UNCHANGED <<first, job, posted, runner, chain, refused>>
    BY <1>1, <1>4, DropEffect DEF ProgressLost, Busy, At
  <2> QED
    BY <2>1 DEF StatusInv, At
<1>5. CASE ChainRaises
  BY <1>5 DEF ChainRaises, StatusInv, At, Busy, Ended, faults
<1>6. CASE CommandRefused
  <2>1. /\ Active(Self) /\ ~At(Self, "expire")'
        /\ \A v \in Writers : v # Self => writer'[v] = writer[v]
        /\ UNCHANGED <<first, job, posted, chain>>
        /\ runner' = (IF runner = "fail" THEN "done" ELSE "faildrain")
        /\ refused' = refused + 1
    BY <1>1, <1>6, DropEffect DEF CommandRefused, At, Active
  <2>2. ~Busy /\ posted = {} /\ runner \in {"begin", "invalid", "succeed", "fail"}
    BY <2>1, OneKindOfWriter DEF WhoWrites
  <2>3. ~Busy' /\ refused' > 0
    BY <1>1, <2>1, <2>2, PlanningJobAssumption DEF Busy, TypeOK
  <2>4. job.st \in {"queued", "running"} \cup Ended
    BY <2>2 DEF StatusInv, Ended
  <2> QED
    BY <2>1, <2>2, <2>3, <2>4 DEF StatusInv, Ended
<1>7. CASE Crash
  <2>1. /\ runner \notin {"new", "done", "dead"} /\ runner' = "dead" /\ posted' = {} /\ ~Busy'
        /\ UNCHANGED <<first, job, chain, refused>>
    BY <1>1, <1>7 DEF Crash, Busy, Idle, faults
  <2> QED
    BY <2>1 DEF StatusInv
<1>8. CASE Expire
  <2>1. /\ runner \in {"done", "dead"} /\ UNCHANGED <<first, chain, writer, posted, runner, refused>>
        /\ job'.st = "gone" /\ job'.stage = 0 /\ job'.ttl = FALSE
    BY <1>8 DEF Expire, NoJob, faults
  <2>2. ~Busy' /\ posted' = {} /\ 0 <= chain
    BY <2>1 DEF WhoWrites, Busy, TypeOK, StageCount
  <2> QED
    BY <2>1, <2>2 DEF StatusInv, Ended
<1>9. CASE OpenStream \/ Poll \/ UNCHANGED vars
  BY <1>9 DEF OpenStream, Poll, vars, faults, StatusInv, At, Busy
<1> QED
  BY <1>2, <1>3, <1>4, <1>5, <1>6, <1>7, <1>8, <1>9

\* Every step keeps the status true to the runner's place.
LEMMA StatusStep == ASSUME JobTypes, StatusInv, [Next]_vars PROVE StatusInv'
<1>1. 1 \in Stages
  BY DEF Stages, StageCount
<1> QED
  BY <1>1, Steps, StatusOfWrite, StatusOfRunner, StatusOfRest

-----------------------------------------------------------------------------
(* The lifecycle. *)

\* A command of a write moves the job as the lifecycle does, when no write is overtaken.
LEMMA MoveMaps ==
  ASSUME JobTypes, StatusInv, Ordered, NEW w \in Writers, MoveJob(w)
  PROVE  [Lifecycle!Next]_(Lifecycle!vars)
<1> USE DEF JobTypes
<1>1. UNCHANGED refused
  BY MoveEffect
<1>2. job.stage \in 0..StageCount /\ chain \in 0..StageCount + 1 /\ first \in 1..StageCount
  BY PlanningJobAssumption DEF TypeOK, JobType, StageCount
<1>3. CASE w = Self
  <2>1. Active(Self) /\ At(Self, "move")
    BY <1>3, MoveEffect DEF Active, At
  <2>2. CASE runner = "begin"
    <3>1. /\ job.st = "queued" /\ job.stage = 0 /\ job'.st = "running" /\ job'.stage = first
      BY <1>3, <2>1, <2>2, MoveEffect DEF StatusInv, WriterInv, At
    <3>2. Lifecycle!Advance
      BY <1>1, <1>2, <3>1 DEF Lifecycle!Advance, Lifecycle!Steps
    <3> QED
      BY <3>2 DEF Lifecycle!Next
  <2>3. CASE runner = "invalid"
    <3>1. job.st = "running" /\ job'.st = "failed" /\ job'.stage = job.stage
      BY <1>3, <2>1, <2>3, MoveEffect DEF StatusInv, WriterInv, At
    <3>2. Lifecycle!Fail
      BY <1>1, <3>1 DEF Lifecycle!Fail, Lifecycle!Steps
    <3> QED
      BY <3>2 DEF Lifecycle!Next
  <2>4. CASE runner = "succeed"
    <3>1. job.st = "running" /\ job'.st = "succeeded" /\ job'.stage = job.stage
      BY <1>3, <2>1, <2>4, MoveEffect DEF StatusInv, WriterInv, At
    <3>2. Lifecycle!Succeed
      BY <1>1, <3>1 DEF Lifecycle!Succeed, Lifecycle!Steps
    <3> QED
      BY <3>2 DEF Lifecycle!Next
  <2>5. CASE runner = "fail"
    <3>1. /\ job'.st = "failed" /\ job'.stage = job.stage
          /\ job.st \in {"queued", "running", "failed"} \/ (job.st = "succeeded" /\ refused > 0)
      BY <1>3, <2>1, <2>5, MoveEffect DEF StatusInv, WriterInv, At, Ended
    <3>2. CASE job.st \in {"queued", "running"}
      BY <1>1, <3>1, <3>2 DEF Lifecycle!Fail, Lifecycle!Steps, Lifecycle!Next
    <3>3. CASE job.st = "succeeded" /\ refused > 0
      BY <1>1, <3>1, <3>3 DEF Lifecycle!Relapse, Lifecycle!Steps, Lifecycle!Next
    <3>4. CASE job.st = "failed"
      BY <1>1, <3>1, <3>4 DEF Lifecycle!vars
    <3> QED
      BY <3>1, <3>2, <3>3, <3>4
  <2> QED
    BY <2>1, <2>2, <2>3, <2>4, <2>5 DEF WhoWrites
<1>4. CASE w # Self
  <2>1. w \in Stages /\ Busy /\ Active(w)
    BY <1>4, MoveEffect, OneKindOfWriter DEF Active
  <2>2. job.st = "running" /\ (chain # 0 => job.stage <= chain)
    BY <2>1 DEF StatusInv
  <2>3. /\ writer[w].to = "running" /\ writer[w].stage = NextStage(w)
        /\ w < chain /\ (chain = w + 1 \/ NextStage(w) = StageCount)
    BY <2>1 DEF WriterInv
  <2>4. job'.st = "running" /\ job'.stage = NextStage(w)
    BY <2>3, MoveEffect
  <2>5. NextStage(w) \in job.stage..StageCount /\ NextStage(w) > 0
    BY <1>2, <2>1, <2>2, <2>3 DEF NextStage, Stages, StageCount
  <2>6. Lifecycle!Advance
    BY <1>1, <2>2, <2>4, <2>5 DEF Lifecycle!Advance, Lifecycle!Steps
  <2> QED
    BY <2>6 DEF Lifecycle!Next
<1> QED
  BY <1>3, <1>4

\* Every step of a job is one of its lifecycle, or none.
LEMMA LifecycleStep ==
  ASSUME JobTypes, StatusInv, Ordered, [Next]_vars
  PROVE  [Lifecycle!Next]_(Lifecycle!vars)
<1> USE DEF JobTypes
<1>1. CASE job'.st = job.st /\ job'.stage = job.stage /\ UNCHANGED refused
  BY <1>1 DEF Lifecycle!vars
<1>2. CASE job'.st = job.st /\ job'.stage = job.stage /\ refused' = refused + 1
  <2>1. refused' > 0
    BY <1>2, PlanningJobAssumption DEF TypeOK
  <2> QED
    BY <1>2, <2>1 DEF Lifecycle!Refuse, Lifecycle!Next
<1>3. ASSUME NEW w \in Writers, WriteStep(w) PROVE [Lifecycle!Next]_(Lifecycle!vars)
  <2>1. CASE ReadJob(w)
    BY <1>1, <2>1, ReadEffect
  <2>2. CASE StampTime(w)
    BY <1>1, <2>2, StampEffect
  <2>3. CASE BankTime(w)
    BY <1>1, <2>3, BankEffect
  <2>4. CASE RefreshTtl(w)
    BY <1>1, <2>4, ExpireEffect
  <2> QED
    BY <1>3, <2>1, <2>2, <2>3, <2>4, MoveMaps DEF WriteStep
<1>4. CASE Runner
  <2>1. CASE CreateHash
    <3>1. job.st = "none" /\ job.stage = 0 /\ job'.st = "queued" /\ job'.stage = 0 /\ UNCHANGED refused
      BY <2>1 DEF CreateHash, NoJob, StatusInv, faults
    <3> QED
      BY <3>1 DEF Lifecycle!Create, Lifecycle!Steps, Lifecycle!Next
  <2>2. CASE CreateTask
    BY <1>1, <2>2 DEF CreateTask, TypeOK, JobType, faults
  <2>3. CASE Drain \/ Validate \/ FailDrain
    BY <1>1, <2>3 DEF Drain, Validate, FailDrain, RunnerWrites, RunnerGoes, faults
  <2>4. CASE AssembleDetail
    <3>1. job'.st = job.st /\ job'.stage = job.stage
      BY <2>4 DEF AssembleDetail, TypeOK, JobType
    <3>2. UNCHANGED refused \/ refused' = refused + 1
      BY <2>4 DEF AssembleDetail
    <3> QED
      BY <1>1, <1>2, <3>1, <3>2
  <2>5. CASE Persist
    <3>1. UNCHANGED job /\ (UNCHANGED refused \/ refused' = refused + 1)
      BY <2>5 DEF Persist
    <3> QED
      BY <1>1, <1>2, <3>1
  <2> QED
    BY <1>4, <2>1, <2>2, <2>3, <2>4, <2>5 DEF Runner
<1>5. ASSUME NEW s \in Stages, StageDone(s) \/ PostDetail(s) \/ ProgressLost(s)
      PROVE  [Lifecycle!Next]_(Lifecycle!vars)
  <2>1. job'.st = job.st /\ job'.stage = job.stage /\ UNCHANGED refused
    BY <1>5 DEF StageDone, PostDetail, ProgressLost, TypeOK, JobType
  <2> QED
    BY <1>1, <2>1
<1>6. CASE ChainRaises \/ Crash \/ OpenStream \/ Poll \/ UNCHANGED vars
  BY <1>1, <1>6 DEF ChainRaises, Crash, OpenStream, Poll, vars, faults
<1>7. CASE CommandRefused
  BY <1>2, <1>7 DEF CommandRefused
<1>8. CASE Expire
  <2>1. job'.st = "gone" /\ job'.stage = 0 /\ UNCHANGED refused
    BY <1>8 DEF Expire, NoJob, faults
  <2>2. job.ttl /\ job.st \in {"none", "queued", "running", "gone"} \cup Ended
    BY <1>8 DEF Expire, TypeOK, JobType
  <2>3. job.st \in {"queued", "running", "succeeded", "failed"}
    BY <2>2 DEF StatusInv, Ended
  <2> QED
    BY <2>1, <2>3 DEF Lifecycle!Vanish, Lifecycle!Steps, Lifecycle!Next
<1> QED
  BY <1>3, <1>4, <1>5, <1>6, <1>7, <1>8, Steps

-----------------------------------------------------------------------------
(* What the chain reports. *)

\* Where the front does not move and no write of a stage ends, its stage stays shown.
LEMMA ShownKept ==
  ASSUME TypeOK, ShownInv, Succeeding' => Succeeding, lost' = 0 => lost = 0, hurried' = hurried,
         chain' = chain, job'.stage = job.stage,
         \A s \in Stages : BeforeMove(s) => BeforeMove(s)'
  PROVE  ShownInv'
<1>1. Front' = Front /\ (Front > 1 => Front - 1 \in Stages)
  BY DEF Front, TypeOK, StageCount, Stages
<1>2. Ordered' = Ordered
  BY DEF Ordered
<1> SUFFICES ASSUME Succeeding', lost' = 0, Ordered'
             PROVE  job'.stage = Front' \/ (Front > 1 /\ BeforeMove(Front - 1)')
  BY <1>1 DEF ShownInv, BeforeMove
<1>3. job.stage = Front \/ (Front > 1 /\ BeforeMove(Front - 1))
  BY <1>2 DEF ShownInv
<1> QED
  BY <1>1, <1>3

\* Every step shows the front or leaves the write that will.
LEMMA ShownStep == ASSUME JobTypes, StatusInv, ShownInv, [Next]_vars PROVE ShownInv'
<1> USE DEF JobTypes
<1>1. Self \notin Stages /\ Self \in Writers /\ Stages \subseteq Writers /\ 0 \in 0..StageCount
  BY DEF Self, Stages, Writers, StageCount
<1>2. ASSUME NEW w \in Writers, WriteStep(w) PROVE ShownInv'
  <2>1. CASE ReadJob(w)
    BY <1>1, <2>1, ReadEffect, ShownKept DEF BeforeMove, Succeeding
  <2>2. CASE StampTime(w)
    BY <1>1, <2>2, StampEffect, ShownKept DEF BeforeMove, Succeeding
  <2>3. CASE BankTime(w)
    BY <1>1, <2>3, BankEffect, ShownKept DEF BeforeMove, Succeeding
  <2>4. CASE MoveJob(w)
    <3>1. CASE w = Self
      <4>1. ~Succeeding' \/ (runner = "succeed" /\ job'.stage = job.stage)
        BY <2>4, <3>1, MoveEffect DEF WhoWrites, WriterInv, Active, Succeeding
      <4>2. ~Succeeding' => ShownInv'
        BY DEF ShownInv
      <4>3. runner = "succeed" /\ job'.stage = job.stage => ShownInv'
        BY <1>1, <2>4, <3>1, MoveEffect, ShownKept DEF BeforeMove, Succeeding
      <4> QED
        BY <4>1, <4>2, <4>3
    <3>2. CASE w # Self
      <4>1. w \in Stages /\ Active(w) /\ Busy
        BY <2>4, <3>2, MoveEffect, OneKindOfWriter DEF Active
      <4>2. /\ writer[w].to = "running" /\ writer[w].stage = NextStage(w) /\ w < chain
            /\ Ordered => chain = w + 1 \/ NextStage(w) = StageCount
        BY <4>1 DEF WriterInv
      <4>3. job'.stage = NextStage(w) /\ chain' = chain /\ hurried' = hurried
        BY <2>4, <4>2, MoveEffect
      <4>4. Ordered => NextStage(w) = Front
        BY <4>1, <4>2 DEF NextStage, Front, Stages, StageCount, TypeOK
      <4> QED
        BY <4>3, <4>4 DEF ShownInv, Front, Ordered
    <3> QED
      BY <3>1, <3>2
  <2>5. CASE RefreshTtl(w)
    <3>1. CASE w = Self /\ runner = "begin"
      <4>1. At(Self, "expire") /\ job'.stage = first /\ chain' = first /\ first \in 1..StageCount
        BY <2>5, <3>1, ExpireEffect, PlanningJobAssumption DEF StatusInv, At, TypeOK, StageCount
      <4>2. Front' = first
        BY <4>1 DEF Front, StageCount
      <4> QED
        BY <4>1, <4>2 DEF ShownInv
    <3>2. CASE w = Self /\ runner # "begin"
      BY <2>5, <3>2, ExpireEffect DEF ShownInv, Succeeding
    <3>3. CASE w # Self
      BY <1>1, <2>5, <3>3, ExpireEffect, ShownKept DEF BeforeMove, Succeeding
    <3> QED
      BY <3>1, <3>2, <3>3
  <2> QED
    BY <1>2, <2>1, <2>2, <2>3, <2>4, <2>5 DEF WriteStep
<1>3. CASE Runner
  <2>1. CASE CreateHash \/ CreateTask \/ FailDrain
    BY <2>1 DEF CreateHash, CreateTask, FailDrain, RunnerWrites, RunnerGoes, ShownInv, Succeeding
  <2>2. CASE Drain
    BY <2>2, ShownKept DEF Drain, RunnerGoes, faults, Succeeding, BeforeMove
  <2>3. CASE AssembleDetail
    <3>1. job'.stage = job.stage
      BY <2>3 DEF AssembleDetail, TypeOK, JobType
    <3> QED
      BY <2>3, <3>1, ShownKept DEF AssembleDetail, Succeeding, BeforeMove
  <2>4. CASE Validate
    <3>1. CASE RunnerWrites("validate", "invalid", "failed")
      BY <3>1 DEF RunnerWrites, RunnerGoes, ShownInv, Succeeding
    <3>2. CASE RunnerGoes("validate", "persist") /\ UNCHANGED writer
      BY <3>2, ShownKept DEF RunnerGoes, faults, Succeeding, BeforeMove
    <3> QED
      BY <2>4, <3>1, <3>2 DEF Validate
  <2>5. CASE Persist
    <3>1. CASE writer' = [writer EXCEPT ![Self] = Writing("succeeded", 0)] /\ runner' = "succeed"
      <4>1. \A v \in Writers : v # Self => writer'[v] = writer[v]
        BY <1>1, <3>1, SelfEffect DEF Ended
      <4>2. runner = "persist" /\ UNCHANGED <<job, chain, hurried, lost>>
        BY <2>5 DEF Persist
      <4> QED
        BY <1>1, <4>1, <4>2, ShownKept DEF Succeeding, BeforeMove
    <3>2. CASE runner' = "faildrain"
      BY <3>2 DEF ShownInv, Succeeding
    <3> QED
      BY <2>5, <3>1, <3>2 DEF Persist
  <2> QED
    BY <1>3, <2>1, <2>2, <2>3, <2>4, <2>5 DEF Runner
<1>4. ASSUME NEW s \in Stages, StageDone(s) PROVE ShownInv'
  <2>1. /\ chain = s /\ chain' = s + 1 /\ runner = "chain" /\ s \in 1..StageCount
        /\ UNCHANGED <<job, runner, lost>> /\ (Ordered' => Ordered)
    BY <1>4, StageEffect DEF Stages, Ordered
  <2>2. CASE s = StageCount
    <3>1. Front = StageCount /\ Front' = StageCount
      BY <2>1, <2>2 DEF Front, StageCount
    <3>2. writer'[StageCount - 1] = writer[StageCount - 1]
      BY <1>1, <1>4, <2>2, StageEffect DEF StageCount, Stages
    <3> QED
      BY <2>1, <3>1, <3>2 DEF ShownInv, Succeeding, BeforeMove, StageCount
  <2>3. CASE s # StageCount
    <3>1. Reports(s) /\ Front' = s + 1 /\ s + 1 > 1 /\ (s + 1) - 1 = s
      BY <2>1, <2>3 DEF Reports, Front, StageCount
    <3>2. BeforeMove(s)'
      BY <1>4, <3>1, StageEffect DEF BeforeMove
    <3> QED
      BY <3>1, <3>2 DEF ShownInv, BeforeMove
  <2> QED
    BY <2>2, <2>3
<1>5. ASSUME NEW s \in Stages, PostDetail(s) \/ ProgressLost(s) PROVE ShownInv'
  <2>1. CASE PostDetail(s)
    <3>1. job'.stage = job.stage
      BY <2>1 DEF PostDetail, TypeOK, JobType
    <3>2. lost' = lost \/ lost' # 0
      BY <2>1, PlanningJobAssumption DEF PostDetail, TypeOK
    <3> QED
      BY <2>1, <3>1, <3>2, ShownKept DEF PostDetail, Succeeding, BeforeMove
  <2>2. CASE ProgressLost(s)
    <3>1. lost' # 0
      BY <2>2, PlanningJobAssumption DEF ProgressLost, TypeOK
    <3> QED
      BY <3>1 DEF ShownInv
  <2> QED
    BY <1>5, <2>1, <2>2
<1>6. CASE ChainRaises \/ CommandRefused \/ Crash \/ Expire
  BY <1>6 DEF ChainRaises, CommandRefused, Crash, Expire, ShownInv, Succeeding
<1>7. CASE OpenStream \/ Poll \/ UNCHANGED vars
  BY <1>7, ShownKept DEF OpenStream, Poll, vars, faults, Succeeding, BeforeMove
<1> QED
  BY <1>2, <1>3, <1>4, <1>5, <1>6, <1>7, Steps

\* Where no stage ends and nothing produced disappears, the details stay complete.
LEMMA DetailKept ==
  ASSUME DetailInv, Succeeding' => Succeeding, lost' = 0 => lost = 0,
         UNCHANGED <<first, chain>>,
         job.details \cup posted \subseteq job'.details \cup posted',
         runner' = runner \/ runner' \in {"chain", "detail"} \/ Brief
           \/ runner \in {"validate", "persist", "succeed"}
  PROVE  DetailInv'
BY DEF DetailInv, Brief

\* Every step keeps the details complete.
LEMMA DetailStep == ASSUME JobTypes, DetailInv, [Next]_vars PROVE DetailInv'
<1> USE DEF JobTypes
<1>2. ASSUME NEW w \in Writers, WriteStep(w) PROVE DetailInv'
  <2>1. CASE ReadJob(w)
    BY <2>1, ReadEffect, DetailKept DEF Succeeding
  <2>2. CASE StampTime(w)
    BY <2>2, StampEffect, DetailKept DEF Succeeding
  <2>3. CASE BankTime(w)
    BY <2>3, BankEffect, DetailKept DEF Succeeding
  <2>4. CASE MoveJob(w)
    BY <2>4, MoveEffect, DetailKept DEF Succeeding
  <2>5. CASE RefreshTtl(w)
    <3>1. CASE w = Self /\ runner = "begin"
      <4>1. chain' = first /\ first' = first /\ first \in Nat
        BY <2>5, <3>1, ExpireEffect, PlanningJobAssumption DEF TypeOK
      <4> QED
        BY <4>1 DEF DetailInv
    <3>2. CASE w = Self /\ runner # "begin"
      BY <2>5, <3>2, ExpireEffect DEF DetailInv, Succeeding
    <3>3. CASE w # Self
      BY <2>5, <3>3, ExpireEffect, DetailKept DEF Succeeding
    <3> QED
      BY <3>1, <3>2, <3>3
  <2> QED
    BY <1>2, <2>1, <2>2, <2>3, <2>4, <2>5 DEF WriteStep
<1>3. CASE Runner
  <2>1. CASE CreateHash \/ CreateTask \/ FailDrain
    BY <2>1 DEF CreateHash, CreateTask, FailDrain, RunnerWrites, RunnerGoes, DetailInv, Succeeding
  <2>2. CASE Drain
    <3>1. /\ runner = "chain" /\ runner' \in {"validate", "detail"} /\ (runner' = "validate" => Brief)
          /\ UNCHANGED <<first, chain, job, posted, lost>>
      BY <2>2 DEF Drain, RunnerGoes, faults
    <3> QED
      BY <3>1, DetailKept DEF Succeeding
  <2>3. CASE AssembleDetail
    <3>1. /\ runner = "detail" /\ UNCHANGED <<first, posted, chain, lost>>
          /\ \/ runner' = "validate" /\ job'.details = job.details \cup {StageCount}
             \/ runner' = "faildrain"
      BY <2>3 DEF AssembleDetail, TypeOK, JobType
    <3> QED
      BY <3>1 DEF DetailInv, Succeeding, Brief
  <2>4. CASE Validate
    <3>1. CASE RunnerWrites("validate", "invalid", "failed")
      BY <3>1 DEF RunnerWrites, RunnerGoes, DetailInv, Succeeding
    <3>2. CASE RunnerGoes("validate", "persist") /\ UNCHANGED writer
      BY <3>2, DetailKept DEF RunnerGoes, faults, Succeeding
    <3> QED
      BY <2>4, <3>1, <3>2 DEF Validate
  <2>5. CASE Persist
    <3>1. runner = "persist" /\ runner' \in {"succeed", "faildrain"} /\ UNCHANGED <<first, job, posted, chain, lost>>
      BY <2>5 DEF Persist
    <3> QED
      BY <3>1, DetailKept DEF Succeeding
  <2> QED
    BY <1>3, <2>1, <2>2, <2>3, <2>4, <2>5 DEF Runner
<1>4. ASSUME NEW s \in Stages, StageDone(s) PROVE DetailInv'
  <2>1. /\ chain = s /\ chain' = s + 1 /\ runner = "chain" /\ runner' = "chain"
        /\ UNCHANGED <<first, job, lost>>
        /\ Reports(s) => posted' = posted \cup {s}
        /\ ~Reports(s) => posted' = posted /\ s = StageCount /\ ~Brief
    BY <1>4, StageEffect DEF Reports, Stages, StageCount
  <2>2. \A r \in first..StageCount : r < s + 1 => r < s \/ r = s
    BY DEF Stages
  <2>3. Succeeding /\ Brief' = Brief
    BY <2>1 DEF Succeeding, Brief
  <2> QED
    BY <2>1, <2>2, <2>3 DEF DetailInv
<1>5. ASSUME NEW s \in Stages, PostDetail(s) \/ ProgressLost(s) PROVE DetailInv'
  <2>1. CASE PostDetail(s)
    <3>1. \/ job'.details = job.details \cup {s} /\ lost' = lost
          \/ lost' = lost + 1
      BY <2>1 DEF PostDetail, TypeOK, JobType
    <3>4. lost + 1 # 0
      BY PlanningJobAssumption DEF TypeOK
    <3>2. posted' = posted \ {s} /\ UNCHANGED <<first, runner, chain>>
      BY <2>1 DEF PostDetail
    <3>3. CASE lost' # 0
      BY <3>3 DEF DetailInv
    <3> QED
      BY <3>1, <3>2, <3>3, <3>4, DetailKept DEF Succeeding
  <2>2. CASE ProgressLost(s)
    <3>1. lost' # 0
      BY <2>2, PlanningJobAssumption DEF ProgressLost, TypeOK
    <3> QED
      BY <3>1 DEF DetailInv
  <2> QED
    BY <1>5, <2>1, <2>2
<1>6. CASE ChainRaises \/ CommandRefused \/ Crash \/ Expire
  BY <1>6 DEF ChainRaises, CommandRefused, Crash, Expire, DetailInv, Succeeding
<1>7. CASE OpenStream \/ Poll \/ UNCHANGED vars
  BY <1>7, DetailKept DEF OpenStream, Poll, vars, faults, Succeeding
<1> QED
  BY <1>2, <1>3, <1>4, <1>5, <1>6, <1>7, Steps

\* A job that succeeds has been shown whole, and stays so.
LEMMA CompleteStep ==
  ASSUME JobTypes, StatusInv, ShownInv, DetailInv, CompleteInv, [Next]_vars
  PROVE  CompleteInv'
<1> USE DEF JobTypes
<1>1. Ordered' => Ordered
  BY StageEffect, Steps DEF Ordered, Runner, WriteStep, CreateHash, CreateTask, Drain, RunnerGoes,
     AssembleDetail, Validate, RunnerWrites, Persist, FailDrain, ReadJob, StampTime, BankTime, MoveJob,
     RefreshTtl, PostDetail, ProgressLost, ChainRaises, CommandRefused, Crash, Expire, OpenStream,
     Poll, vars, faults
<1>2. CASE job'.st # "succeeded"
  BY <1>2 DEF CompleteInv
<1>3. CASE /\ job.st = "succeeded" /\ first' = first /\ job'.stage = job.stage
           /\ job.details \subseteq job'.details /\ (lost' = 0 => lost = 0)
  BY <1>1, <1>3 DEF CompleteInv
<1>4. ASSUME NEW w \in Writers, WriteStep(w) PROVE CompleteInv'
  <2>1. CASE ReadJob(w)
    BY <1>2, <1>3, <2>1, ReadEffect
  <2>2. CASE StampTime(w)
    BY <1>2, <1>3, <2>2, StampEffect
  <2>3. CASE BankTime(w)
    BY <1>2, <1>3, <2>3, BankEffect
  <2>4. CASE MoveJob(w)
    <3>1. CASE writer[w].to # "succeeded"
      BY <1>2, <2>4, <3>1, MoveEffect
    <3>2. CASE writer[w].to = "succeeded"
      <4>1. w = Self
        BY <2>4, <3>2, MoveEffect DEF WriterInv, Active, Writers
      <4>2. runner = "succeed" /\ ~Busy /\ posted = {}
        BY <2>4, <3>2, <4>1, MoveEffect, OneKindOfWriter DEF WhoWrites, WriterInv, Active
      <4>3. chain = StageCount + 1 /\ Succeeding /\ Front = StageCount
        BY <4>2 DEF ClockInv, Succeeding, Front
      <4>4. ~BeforeMove(StageCount - 1)
        BY <4>2 DEF Busy, BeforeMove, Stages, StageCount
      <4>5. lost = 0 /\ Ordered => job.stage = StageCount
        BY <4>3, <4>4 DEF ShownInv
      <4>6. \A s \in first..StageCount : s < StageCount + 1
        BY DEF StageCount
      <4>7. lost = 0 => first..StageCount \subseteq job.details
        BY <4>2, <4>3, <4>6 DEF DetailInv
      <4>8. job'.stage = job.stage /\ job'.details = job.details /\ UNCHANGED <<first, lost>>
        BY <2>4, <3>2, MoveEffect
      <4> QED
        BY <1>1, <4>5, <4>7, <4>8 DEF CompleteInv
    <3> QED
      BY <3>1, <3>2
  <2>5. CASE RefreshTtl(w)
    BY <1>2, <1>3, <2>5, ExpireEffect
  <2> QED
    BY <1>4, <2>1, <2>2, <2>3, <2>4, <2>5 DEF WriteStep
<1>5. CASE Runner
  <2>1. CASE CreateHash
    BY <1>2, <2>1 DEF CreateHash, NoJob
  <2>2. CASE CreateTask
    <3>1. job'.st = "queued"
      BY <2>2 DEF CreateTask, StatusInv, TypeOK, JobType
    <3> QED
      BY <1>2, <3>1
  <2>3. CASE Drain \/ Validate \/ FailDrain \/ Persist
    BY <1>2, <1>3, <2>3 DEF Drain, Validate, FailDrain, Persist, RunnerWrites, RunnerGoes, faults
  <2>4. CASE AssembleDetail
    <3>1. job'.st = "running"
      BY <2>4 DEF AssembleDetail, StatusInv, TypeOK, JobType
    <3> QED
      BY <1>2, <3>1
  <2> QED
    BY <1>5, <2>1, <2>2, <2>3, <2>4 DEF Runner
<1>6. ASSUME NEW s \in Stages, StageDone(s) \/ PostDetail(s) \/ ProgressLost(s) PROVE CompleteInv'
  <2>1. CASE StageDone(s)
    BY <1>2, <1>3, <2>1, StageEffect
  <2>2. CASE PostDetail(s)
    <3>1. job'.st = job.st /\ job.st = "running"
      BY <2>2 DEF PostDetail, StatusInv, TypeOK, JobType
    <3> QED
      BY <1>2, <3>1
  <2>3. CASE ProgressLost(s)
    <3>1. lost' # 0
      BY <2>3, PlanningJobAssumption DEF ProgressLost, TypeOK
    <3> QED
      BY <3>1 DEF CompleteInv
  <2> QED
    BY <1>6, <2>1, <2>2, <2>3
<1>7. CASE ChainRaises \/ CommandRefused \/ Crash \/ OpenStream \/ Poll \/ UNCHANGED vars
  BY <1>2, <1>3, <1>7 DEF ChainRaises, CommandRefused, Crash, OpenStream, Poll, vars, faults
<1>8. CASE Expire
  BY <1>2, <1>8 DEF Expire, NoJob
<1> QED
  BY <1>4, <1>5, <1>6, <1>7, <1>8, Steps

-----------------------------------------------------------------------------
(* The outcome. *)

\* What the writes and the runner's other steps leave of the outcome.
LEMMA OutcomeKept ==
  ASSUME OutcomeInv, UNCHANGED <<stored, viewer>>, refused > 0 => refused' > 0,
         runner' \in {"succeed", "faildrain", "fail", "done", "dead"} \/ ~stored,
         runner' = "succeed" \/ job'.st = "succeeded" => runner = "succeed" \/ job.st = "succeeded",
         job'.st = "failed" => job.st = "failed" \/ runner \in {"invalid", "faildrain", "fail"},
         runner' \in {"faildrain", "fail"} => runner \in {"faildrain", "fail"} \/ ~stored \/ refused' > 0,
         job'.st = "gone" => job.st = "gone",
         runner = "dead" => runner' = "dead",
         runner \in {"invalid", "faildrain", "fail", "done"} =>
           runner' \in {"invalid", "faildrain", "fail", "done"} \/ runner' = "dead" \/ refused' > 0
  PROVE  OutcomeInv'
BY DEF OutcomeInv

\* Every step keeps the outcome true.
LEMMA OutcomeStep == ASSUME JobTypes, StatusInv, OutcomeInv, [Next]_vars PROVE OutcomeInv'
<1> USE DEF JobTypes
<1>1. stored => runner \in {"succeed", "faildrain", "fail", "done", "dead"}
  BY DEF OutcomeInv
<1>2. ASSUME NEW w \in Writers, WriteStep(w) PROVE OutcomeInv'
  <2>0. Active(Self) <=> runner \in {"begin", "invalid", "succeed", "fail"}
    BY DEF WhoWrites
  <2>1. CASE ReadJob(w)
    BY <1>1, <2>1, ReadEffect, OutcomeKept
  <2>2. CASE StampTime(w)
    BY <1>1, <2>2, StampEffect, OutcomeKept
  <2>3. CASE BankTime(w)
    BY <1>1, <2>3, BankEffect, OutcomeKept
  <2>4. CASE MoveJob(w)
    <3>1. job'.st = "succeeded" => runner = "succeed"
      BY <2>0, <2>4, MoveEffect DEF WriterInv, Active, Writers
    <3>2. job'.st = "failed" => runner \in {"invalid", "fail"}
      BY <2>0, <2>4, MoveEffect DEF WriterInv, Active, Writers
    <3>3. job'.st # "gone"
      BY <2>4, MoveEffect DEF TypeOK, WriterType, Ended
    <3> QED
      BY <1>1, <2>4, <3>1, <3>2, <3>3, MoveEffect, OutcomeKept
  <2>5. CASE RefreshTtl(w)
    <3>1. runner' = runner \/ (runner = "begin" /\ runner' = "chain")
          \/ (runner \in {"invalid", "succeed", "fail"} /\ runner' = "done")
      BY <2>0, <2>5, ExpireEffect DEF Active
    <3> QED
      BY <1>1, <2>5, <3>1, ExpireEffect, OutcomeKept
  <2> QED
    BY <1>2, <2>1, <2>2, <2>3, <2>4, <2>5 DEF WriteStep
<1>3. CASE Runner
  <2>1. CASE CreateHash
    BY <1>1, <2>1, OutcomeKept DEF CreateHash, NoJob, faults
  <2>2. CASE CreateTask
    <3>1. job'.st = job.st
      BY <2>2 DEF CreateTask, TypeOK, JobType
    <3> QED
      BY <1>1, <2>2, <3>1, OutcomeKept DEF CreateTask, faults
  <2>3. CASE Drain \/ FailDrain \/ Validate
    BY <1>1, <2>3, OutcomeKept DEF Drain, FailDrain, Validate, RunnerWrites, RunnerGoes, faults
  <2>4. CASE AssembleDetail
    <3>1. job'.st = job.st
      BY <2>4 DEF AssembleDetail, TypeOK, JobType
    <3>2. refused > 0 => refused + 1 > 0
      BY PlanningJobAssumption DEF TypeOK
    <3> QED
      BY <1>1, <2>4, <3>1, <3>2, OutcomeKept DEF AssembleDetail
  <2>5. CASE Persist
    <3>1. CASE stored' = TRUE /\ runner' = "succeed" /\ UNCHANGED refused
      <4>1. runner = "persist" /\ UNCHANGED <<job, viewer>> /\ job.st = "running"
        BY <2>5 DEF Persist, StatusInv
      <4> QED
        BY <3>1, <4>1 DEF OutcomeInv
    <3>2. CASE refused' = refused + 1 /\ runner' = "faildrain" /\ UNCHANGED stored
      <4>1. runner = "persist" /\ UNCHANGED <<job, viewer>> /\ refused' > 0
        BY <2>5, <3>2, PlanningJobAssumption DEF Persist, TypeOK
      <4> QED
        BY <1>1, <3>2, <4>1, OutcomeKept
    <3> QED
      BY <2>5, <3>1, <3>2 DEF Persist
  <2> QED
    BY <1>3, <2>1, <2>2, <2>3, <2>4, <2>5 DEF Runner
<1>4. ASSUME NEW s \in Stages, StageDone(s) \/ PostDetail(s) \/ ProgressLost(s) PROVE OutcomeInv'
  <2>1. job'.st = job.st /\ UNCHANGED <<runner, stored, viewer, refused>>
    BY <1>4 DEF StageDone, PostDetail, ProgressLost, TypeOK, JobType
  <2> QED
    BY <1>1, <2>1, OutcomeKept
<1>5. CASE ChainRaises \/ Crash \/ UNCHANGED vars
  BY <1>1, <1>5, OutcomeKept DEF ChainRaises, Crash, vars, faults
<1>6. CASE CommandRefused
  <2>1. refused' > 0
    BY <1>6, PlanningJobAssumption DEF CommandRefused, TypeOK
  <2>2. runner \notin {"dead", "done"} /\ UNCHANGED <<job, stored, viewer>> /\ runner' \in {"done", "faildrain"}
    BY <1>6 DEF CommandRefused, At, WhoWrites, Active
  <2> QED
    BY <1>1, <2>1, <2>2, OutcomeKept
<1>7. CASE Expire
  <2>1. /\ runner \in {"done", "dead"} /\ job.ttl /\ (viewer.pc = "open" => viewer.last = job.st)
        /\ job'.st = "gone" /\ UNCHANGED <<runner, stored, refused, viewer>>
    BY <1>7 DEF Expire, NoJob, faults
  <2>2. viewer.pc = "open" => runner = "dead" \/ refused > 0
    BY <2>1 DEF OutcomeInv, StatusInv
  <2> QED
    BY <2>1, <2>2 DEF OutcomeInv
<1>8. CASE OpenStream
  <2>1. /\ viewer'.pc = "open" /\ viewer'.last = viewer.last /\ viewer.pc = "off" /\ job.st # "gone"
        /\ UNCHANGED <<job, runner, stored, refused>>
    BY <1>8 DEF OpenStream, StatusInv, TypeOK, ViewerType, faults
  <2> QED
    BY <2>1 DEF OutcomeInv
<1>9. CASE Poll
  <2>1. /\ viewer.pc = "open" /\ UNCHANGED <<job, runner, stored, refused>>
        /\ viewer'.pc = (IF job.st \in Ended \cup {"gone"} THEN "closed" ELSE "open")
        /\ viewer'.last = (IF job.st = "gone" THEN "failed" ELSE job.st)
    BY <1>9 DEF Poll, faults
  <2>2. CASE job.st \in Ended \cup {"gone"}
    BY <2>1, <2>2 DEF OutcomeInv, StatusInv, Ended
  <2>3. CASE job.st \notin Ended \cup {"gone"}
    BY <2>1, <2>3 DEF OutcomeInv, Ended
  <2> QED
    BY <2>2, <2>3
<1> QED
  BY <1>2, <1>3, <1>4, <1>5, <1>6, <1>7, <1>8, <1>9, Steps

-----------------------------------------------------------------------------
(* The times. *)

\* Values the sums are made of.
LEMMA TimeTypes ==
  ASSUME JobTypes
  PROVE  /\ job.stage \in 0..StageCount /\ job.at \in Nat /\ now \in Nat /\ chain \in Nat /\ first \in Stages
         /\ job.bank = [s \in Stages |-> job.bank[s]]
         /\ \A s \in Stages : job.bank[s] \in Nat
         /\ \A w \in Writers : /\ writer[w].banked \in Nat /\ writer[w].seenAt \in Nat
                               /\ writer[w].stamp \in Nat /\ writer[w].seenStage \in 0..StageCount
         /\ \A s \in Stages : Ticks(s) \in {0, 1}
         /\ \A s : s # 0 /\ s \in 0..StageCount => s \in Stages
BY PlanningJobAssumption
   DEF JobTypes, TypeOK, JobType, WriterType, Times, Stages, StageCount, Ticks

\* While no stage has ended on a pending write, one write at most is under way.
LEMMA OneWriter ==
  ASSUME JobTypes, ~hurried, NEW v \in Writers, NEW w \in Writers, Active(v), Active(w)
  PROVE  v = w
BY DEF JobTypes, WriterInv

\* Once the job has succeeded nothing more is banked, by a write that tries again either.
LEMMA SuccessTicks ==
  ASSUME JobTypes, TimesInv, Keeping, job.st = "succeeded", job.stage # 0
  PROVE  job.bank[job.stage] = Ticks(job.stage) /\ job.at = now
<1> USE DEF JobTypes
<1>1. job.at = now /\ job.bank = [s \in Stages |-> IF s >= first THEN 1 ELSE 0]
  BY DEF TimesInv
<1>2. job.stage \in Stages
  BY TimeTypes
<1>3. job.bank[job.stage] = IF job.stage >= first THEN 1 ELSE 0
  BY <1>1, <1>2
<1>4. CASE ~ \E w \in Writers : At(w, "bank")
  BY <1>1, <1>2, <1>4, TimeTypes DEF TimesInv
<1>5. ASSUME NEW w \in Writers, At(w, "bank") PROVE job.bank[job.stage] = Ticks(job.stage)
  <2>1. Total(w) = Ticks(job.stage)
    BY <1>5 DEF TimesInv
  <2>2. writer[w].banked = job.bank[job.stage]
    BY <1>5 DEF TimesInv, ReadsHold, Active, At
  <2>3. writer[w].seenAt <= writer[w].stamp
    BY <1>5 DEF ClockInv, At
  <2>4. writer[w].banked <= Ticks(job.stage)
    BY <2>1, <2>3, TimeTypes DEF Total
  <2> QED
    BY <1>2, <1>3, <2>2, <2>4, TimeTypes DEF Ticks
<1> QED
  BY <1>1, <1>4, <1>5

\* Where nothing is banked and no stage ends, the times stay.
LEMMA TimesKept ==
  ASSUME JobTypes, TimesInv, Keeping' => Keeping, UNCHANGED <<first, now>>,
         \A s \in Stages : Ticks(s)' = Ticks(s),
         job'.stage = job.stage, job'.at = job.at, job'.bank = job.bank,
         job'.st = "succeeded" => job.st = "succeeded",
         \A w \in Writers : Active(w)' => writer'[w] = writer[w] \/ writer'[w].pc = "read",
         Keeping' => (\A w \in Writers : At(w, "bank") => At(w, "bank")') \/ job.st = "succeeded"
  PROVE  TimesInv'
<1> SUFFICES ASSUME Keeping' PROVE TimesInv'
  BY DEF TimesInv
<1>0. Keeping
  OBVIOUS
<1>1. ASSUME NEW w \in Writers, Active(w)' PROVE ReadsHold(w)'
  <2>1. CASE writer'[w].pc = "read"
    BY <2>1 DEF ReadsHold, At
  <2>2. CASE writer'[w] = writer[w]
    <3>1. ReadsHold(w)
      BY <1>0, <1>1, <2>2 DEF TimesInv, Active
    <3> QED
      BY <2>2, <3>1 DEF ReadsHold, At
  <2> QED
    BY <1>1, <2>1, <2>2
<1>2. \A s \in Stages : s # job'.stage => job'.bank[s] = Ticks(s)'
  BY <1>0 DEF TimesInv
<1>3. ASSUME NEW w \in Writers, At(w, "bank")'
      PROVE  At(w, "bank") /\ Total(w)' = Total(w)
  BY <1>3 DEF At, Active, Total
<1>4. ASSUME job.stage # 0
      PROVE  IF \E w \in Writers : At(w, "bank")'
             THEN \A w \in Writers : At(w, "bank")' => Total(w)' = Ticks(job.stage)
             ELSE job.bank[job.stage] + (now - job.at) = Ticks(job.stage)
  <2>1. \A w \in Writers : At(w, "bank")' => Total(w)' = Ticks(job.stage)
    BY <1>0, <1>3, <1>4 DEF TimesInv
  <2>2. CASE job.st = "succeeded"
    BY <1>0, <1>4, <2>1, <2>2, SuccessTicks, TimeTypes
  <2>3. CASE \A w \in Writers : At(w, "bank") => At(w, "bank")'
    BY <1>0, <1>4, <2>1, <2>3 DEF TimesInv
  <2> QED
    BY <2>2, <2>3
<1>5. job.stage # 0 => Ticks(job.stage)' = Ticks(job.stage)
  BY TimeTypes
<1>6. job'.st = "succeeded" =>
        job'.at = now' /\ job'.bank = [s \in Stages |-> IF s >= first' THEN 1 ELSE 0]
  BY <1>0 DEF TimesInv
<1> QED
  BY <1>1, <1>2, <1>4, <1>5, <1>6 DEF TimesInv, Ticks, At, Total

\* A write reads the stage it will bank for.
LEMMA TimesOfRead ==
  ASSUME JobTypes, TimesInv, NEW w \in Writers, ReadJob(w)
  PROVE  TimesInv'
<1> USE DEF JobTypes
<1> SUFFICES ASSUME Keeping' PROVE TimesInv'
  BY DEF TimesInv
<1>1. Keeping /\ ~hurried /\ Active(w)
  BY ReadEffect DEF Keeping, Succeeding, Active
<1>2. ASSUME NEW v \in Writers, Active(v)' PROVE v = w
  BY <1>1, <1>2, ReadEffect, OneWriter DEF Active
<1>3. ReadsHold(w)'
  BY ReadEffect DEF ReadsHold, At
<1>4. \A v \in Writers : ~At(v, "bank") /\ ~At(v, "bank")'
  BY <1>1, <1>2, ReadEffect, OneWriter DEF At, Active
<1>5. Ticks(job.stage)' = Ticks(job.stage) /\ \A s \in Stages : Ticks(s)' = Ticks(s)
  BY ReadEffect DEF Ticks
<1>6. UNCHANGED <<job, now, first>>
  BY ReadEffect
<1> QED
  BY <1>1, <1>2, <1>3, <1>4, <1>5, <1>6 DEF TimesInv

\* The window closes: what is to be banked is the stage's tick.
LEMMA TimesOfStamp ==
  ASSUME JobTypes, TimesInv, NEW w \in Writers, StampTime(w)
  PROVE  TimesInv'
<1> USE DEF JobTypes
<1> SUFFICES ASSUME Keeping' PROVE TimesInv'
  BY DEF TimesInv
<1>1. Keeping /\ ~hurried /\ Active(w)
  BY StampEffect DEF Keeping, Succeeding, Active
<1>2. ASSUME NEW v \in Writers, Active(v)' PROVE v = w
  BY <1>1, <1>2, StampEffect, OneWriter DEF Active
<1>3. /\ writer[w].seenStage = job.stage /\ writer[w].seenAt = job.at
      /\ job.stage # 0 => writer[w].banked = job.bank[job.stage]
  BY <1>1, StampEffect DEF TimesInv, ReadsHold, At
<1>4. ReadsHold(w)'
  BY <1>3, StampEffect DEF ReadsHold, At
<1>5. \A v \in Writers : ~At(v, "bank")
  BY <1>1, StampEffect, OneWriter DEF At, Active
<1>6. ASSUME job.stage # 0 PROVE Total(w)' = Ticks(job.stage) /\ At(w, "bank")'
  <2>1. job.bank[job.stage] + (now - job.at) = Ticks(job.stage)
    BY <1>1, <1>5, <1>6 DEF TimesInv
  <2>2. writer'[w].banked = job.bank[job.stage] /\ writer'[w].stamp = now /\ writer'[w].seenAt = job.at
    BY <1>3, <1>6, StampEffect
  <2> QED
    BY <1>3, <1>6, <2>1, <2>2, StampEffect DEF Total, At
<1>7. Ticks(job.stage)' = Ticks(job.stage) /\ \A s \in Stages : Ticks(s)' = Ticks(s)
  BY StampEffect DEF Ticks
<1>8. /\ job'.at = now /\ job'.st = job.st /\ job'.stage = job.stage /\ job'.bank = job.bank
      /\ UNCHANGED <<now, first>>
  BY StampEffect
<1>9. \A s \in Stages : s # job'.stage => job'.bank[s] = Ticks(s)'
  BY <1>1, <1>7, <1>8 DEF TimesInv
<1>10. job'.stage # 0 => \A v \in Writers : At(v, "bank")' => Total(v)' = Ticks(job.stage)'
  BY <1>2, <1>6, <1>7, <1>8 DEF At, Active
<1>11. job'.stage # 0 => \E v \in Writers : At(v, "bank")'
  BY <1>6, <1>8
<1>12. job'.st = "succeeded" =>
         job'.at = now' /\ job'.bank = [s \in Stages |-> IF s >= first' THEN 1 ELSE 0]
  BY <1>1, <1>8 DEF TimesInv
<1> QED
  BY <1>2, <1>4, <1>9, <1>10, <1>11, <1>12 DEF TimesInv

\* The tick is banked.
LEMMA TimesOfBank ==
  ASSUME JobTypes, TimesInv, NEW w \in Writers, BankTime(w)
  PROVE  TimesInv'
<1> USE DEF JobTypes
<1> SUFFICES ASSUME Keeping' PROVE TimesInv'
  BY DEF TimesInv
<1>1. Keeping /\ ~hurried /\ Active(w) /\ At(w, "bank")
  BY BankEffect DEF Keeping, Succeeding, Active, At
<1>2. ASSUME NEW v \in Writers, Active(v)' PROVE v = w
  BY <1>1, <1>2, BankEffect, OneWriter DEF Active
<1>3. writer[w].seenStage = job.stage /\ job.at = now /\ job.stage \in Stages
  BY <1>1, BankEffect DEF TimesInv, ReadsHold, At
<1>4. Total(w) = Ticks(job.stage) /\ job.stage # 0
  BY <1>1, <1>3 DEF TimesInv, Stages
<1>5. ReadsHold(w)' /\ ~At(w, "bank")'
  BY <1>3, BankEffect DEF ReadsHold, At
<1>6. /\ job'.bank[job.stage] = Ticks(job.stage)
      /\ \A s \in Stages : s # job.stage => job'.bank[s] = job.bank[s]
      /\ job'.at = now /\ job'.stage = job.stage /\ job'.st = job.st /\ UNCHANGED <<first, now, chain>>
      /\ job' \in JobType
  BY <1>3, <1>4, BankEffect
<1>7. Ticks(job.stage)' = Ticks(job.stage) /\ \A s \in Stages : Ticks(s)' = Ticks(s)
  BY <1>6 DEF Ticks
<1>8. \A s \in Stages : s # job'.stage => job'.bank[s] = Ticks(s)'
  BY <1>1, <1>6, <1>7 DEF TimesInv
<1>9. job'.bank[job.stage] + (now' - job'.at) = Ticks(job.stage)'
  BY <1>3, <1>6, <1>7, TimeTypes
<1>10. ASSUME job'.st = "succeeded"
       PROVE  job'.at = now' /\ job'.bank = [s \in Stages |-> IF s >= first' THEN 1 ELSE 0]
  <2>1. job.bank = [s \in Stages |-> IF s >= first THEN 1 ELSE 0]
    BY <1>1, <1>6, <1>10 DEF TimesInv
  <2>2. job.bank[job.stage] = Ticks(job.stage)
    BY <1>1, <1>4, <1>6, <1>10, SuccessTicks
  <2>3. \A s \in Stages : job'.bank[s] = IF s >= first THEN 1 ELSE 0
    BY <1>3, <1>6, <2>1, <2>2
  <2>4. job'.bank = [s \in Stages |-> job'.bank[s]]
    BY <1>6 DEF JobType
  <2> QED
    BY <1>6, <2>3, <2>4
<1>11. \A v \in Writers : ~At(v, "bank")'
  BY <1>2, <1>5 DEF At, Active
<1> QED
  BY <1>2, <1>5, <1>6, <1>8, <1>9, <1>10, <1>11 DEF TimesInv

\* When the stage moves, every window is banked.
LEMMA TimesOfMove ==
  ASSUME JobTypes, TimesInv, NEW w \in Writers, MoveJob(w)
  PROVE  TimesInv'
<1> USE DEF JobTypes
<1> SUFFICES ASSUME Keeping' PROVE TimesInv'
  BY DEF TimesInv
<1>1. Active(w) /\ At(w, "move") /\ ~hurried
  BY MoveEffect DEF Keeping, Active, At
<1>2. ASSUME NEW v \in Writers, Active(v)' PROVE v = w
  BY <1>1, <1>2, MoveEffect, OneWriter DEF Active
<1>3. job'.st = "succeeded" => runner = "succeed"
  BY <1>1, MoveEffect DEF WriterInv, WhoWrites, Active, Writers
<1>4. Keeping
  BY <1>3, MoveEffect DEF Keeping, Succeeding
<1>5. \A v \in Writers : ~At(v, "bank") /\ ~At(v, "bank")'
  BY <1>1, <1>2, MoveEffect, OneWriter DEF At, Active
<1>6. job.at = now
  BY <1>1, <1>4 DEF TimesInv, ReadsHold, At
<1>7. \A s \in Stages : job.bank[s] = Ticks(s)
  BY <1>4, <1>5, <1>6, TimeTypes DEF TimesInv, Stages
<1>8. ReadsHold(w)'
  BY <1>6, MoveEffect DEF ReadsHold, At
<1>9. /\ job'.bank = job.bank /\ job'.at = now /\ UNCHANGED <<first, now, chain>>
      /\ job'.stage \in 0..StageCount
  BY <1>6, MoveEffect DEF JobType
<1>10. \A s \in Stages : job'.bank[s] = Ticks(s)'
  BY <1>7, <1>9 DEF Ticks
<1>11. job'.stage # 0 => job'.bank[job'.stage] + (now' - job'.at) = Ticks(job.stage)'
  BY <1>9, <1>10, TimeTypes
<1>12. ASSUME job'.st = "succeeded"
       PROVE  job'.at = now' /\ job'.bank = [s \in Stages |-> IF s >= first' THEN 1 ELSE 0]
  <2>1. chain = StageCount + 1
    BY <1>3, <1>12 DEF ClockInv
  <2>2. \A s \in Stages : Ticks(s) = IF s >= first THEN 1 ELSE 0
    BY <2>1, TimeTypes DEF Ticks, Stages, StageCount
  <2> QED
    BY <1>7, <1>9, <2>2, TimeTypes
<1> QED
  BY <1>2, <1>5, <1>8, <1>10, <1>11, <1>12 DEF TimesInv

\* A stage that ends opens no window: its tick is in the one still open.
LEMMA TimesOfStage ==
  ASSUME JobTypes, StatusInv, ShownInv, TimesInv, NEW s \in Stages, StageDone(s)
  PROVE  TimesInv'
<1> USE DEF JobTypes
<1> SUFFICES ASSUME Keeping' PROVE TimesInv'
  BY DEF TimesInv
<1>1. /\ runner = "chain" /\ chain = s /\ chain' = s + 1 /\ now' = now + 1
      /\ ~Busy /\ ~hurried /\ lost = 0 /\ UNCHANGED <<first, job>>
  BY StageEffect DEF Keeping
<1>2. Keeping /\ Succeeding /\ Ordered /\ job.st = "running"
  BY <1>1 DEF Keeping, Succeeding, Ordered, StatusInv
<1>3. \A v \in Writers : ~Active(v)
  BY <1>1 DEF WhoWrites, Busy, Active, Writers
<1>4. \A v \in Writers : Active(v)' => writer'[v].pc = "read"
  BY <1>3, StageEffect DEF Active
<1>5. job.stage = s
  <2>1. Front = s /\ (Front > 1 => Front - 1 \in Writers)
    BY <1>1 DEF Front, Stages, StageCount, Writers
  <2>2. ~BeforeMove(s - 1) \/ ~(s > 1)
    BY <1>3, <2>1 DEF BeforeMove, Active
  <2> QED
    BY <1>1, <1>2, <2>1, <2>2 DEF ShownInv
<1>6. \A v \in Writers : ~At(v, "bank") /\ ~At(v, "bank")'
  BY <1>3, <1>4 DEF At, Active
<1>7. s # 0 /\ s \in Nat /\ first <= s
  BY <1>1 DEF Stages, ClockInv
<1>8. job.bank[s] + (now - job.at) = 0
  BY <1>2, <1>5, <1>6, <1>7, <1>1 DEF TimesInv, Ticks
<1>9. job.bank[s] + ((now + 1) - job.at) = 1
  BY <1>8, TimeTypes
<1>10. Ticks(s)' = 1 /\ \A r \in Stages : r # s => Ticks(r)' = Ticks(r)
  BY <1>1, <1>7, TimeTypes DEF Ticks, Stages
<1>11. \A v \in Writers : Active(v)' => ReadsHold(v)'
  BY <1>4 DEF ReadsHold, At
<1>12. Ticks(job.stage)' = Ticks(s)'
  BY <1>1, <1>5 DEF Ticks
<1>13. \A r \in Stages : r # job'.stage => job'.bank[r] = Ticks(r)'
  BY <1>1, <1>2, <1>5, <1>10 DEF TimesInv
<1> QED
  BY <1>1, <1>2, <1>5, <1>6, <1>9, <1>10, <1>11, <1>12, <1>13 DEF TimesInv

\* Every step keeps the times exact, while no progress is lost or overtaken.
LEMMA TimesStep ==
  ASSUME JobTypes, StatusInv, ShownInv, TimesInv, [Next]_vars
  PROVE  TimesInv'
<1> USE DEF JobTypes
<1>1. Self \notin Stages /\ Self \in Writers /\ Stages \subseteq Writers /\ 0 \in 0..StageCount
  BY DEF Self, Stages, Writers, StageCount
<1>0. ASSUME ~Keeping' PROVE TimesInv'
  BY <1>0 DEF TimesInv
<1>2. ASSUME NEW w \in Writers, RefreshTtl(w) PROVE TimesInv'
  <2>1. \A s \in Stages : Ticks(s)' = Ticks(s)
    <3>1. CASE w = Self /\ runner = "begin"
      BY <1>2, <3>1, ExpireEffect, TimeTypes DEF Ticks, ClockInv, Stages
    <3>2. CASE ~(w = Self /\ runner = "begin")
      BY <1>2, <3>2, ExpireEffect DEF Ticks
    <3> QED
      BY <3>1, <3>2
  <2>2. Keeping' => Keeping
    BY <1>2, ExpireEffect DEF Keeping, Succeeding
  <2>3. \A v \in Writers : Active(v)' => writer'[v] = writer[v]
    BY <1>2, ExpireEffect DEF Active
  <2>4. \A v \in Writers : At(v, "bank") => At(v, "bank")'
    BY <1>2, ExpireEffect DEF At
  <2> QED
    BY <1>2, <2>1, <2>2, <2>3, <2>4, ExpireEffect, TimesKept
<1>3. ASSUME NEW w \in Writers, WriteStep(w) PROVE TimesInv'
  BY <1>2, <1>3, TimesOfRead, TimesOfStamp, TimesOfBank, TimesOfMove DEF WriteStep
<1>4. CASE CreateTask
  <2>1. /\ job'.stage = job.stage /\ job'.bank = job.bank /\ job'.at = job.at /\ job'.st = job.st
        /\ runner = "created" /\ UNCHANGED <<first, chain, now, posted>>
    BY <1>4 DEF CreateTask, TypeOK, JobType, faults
  <2>2. first \in 0..StageCount /\ writer' = [writer EXCEPT ![Self] = Writing("running", first)]
    BY <1>4, PlanningJobAssumption DEF CreateTask, TypeOK, StageCount
  <2>3. \A v \in Writers : Active(v)' => writer'[v].pc = "read"
    <3>1. writer'[Self].pc = "read" /\ \A v \in Writers : v # Self => writer'[v] = writer[v]
      BY <2>2, SelfEffect
    <3>2. \A v \in Writers : ~Active(v)
      BY <2>1 DEF WhoWrites, Busy, Active, Writers
    <3> QED
      BY <3>1, <3>2 DEF Active
  <2>4. job.st = "queued" /\ job.stage = 0 /\ chain = 0 /\ now = 0
    BY <2>1 DEF StatusInv, ClockInv
  <2>5. \A s \in Stages : job.bank[s] = Ticks(s)'
    BY <2>1, <2>4, TimeTypes DEF ClockInv, Ticks, Stages
  <2>6. \A v \in Writers : Active(v)' => ReadsHold(v)'
    BY <2>3 DEF ReadsHold, At
  <2> QED
    BY <2>1, <2>4, <2>5, <2>6 DEF TimesInv
<1>5. ASSUME NEW goal \in {"invalid", "succeed", "fail"}, NEW to \in Ended,
             writer' = [writer EXCEPT ![Self] = Writing(to, 0)], ~Active(Self), Keeping' => Keeping,
             UNCHANGED <<first, job, chain, now>>
      PROVE  TimesInv'
  <2>1. /\ \A v \in Writers : Active(v)' => writer'[v] = writer[v] \/ writer'[v].pc = "read"
        /\ \A v \in Writers : At(v, "bank") => At(v, "bank")'
    BY <1>1, <1>5, SelfEffect DEF Active, At
  <2>2. \A s \in Stages : Ticks(s)' = Ticks(s)
    BY <1>5 DEF Ticks
  <2> QED
    BY <1>5, <2>1, <2>2, TimesKept
<1>6. ASSUME Keeping' => Keeping, UNCHANGED <<first, writer, chain, now>>,
             job'.stage = job.stage, job'.bank = job.bank, job'.at = job.at,
             job'.st = "succeeded" => job.st = "succeeded"
      PROVE  TimesInv'
  <2>1. \A s \in Stages : Ticks(s)' = Ticks(s)
    BY <1>6 DEF Ticks
  <2>2. \A v \in Writers : At(v, "bank") => At(v, "bank")'
    BY <1>6 DEF At
  <2> QED
    BY <1>6, <2>1, <2>2, TimesKept
<1>7. CASE Runner
  <2>1. CASE CreateHash
    BY <1>0, <2>1 DEF CreateHash, NoJob, Keeping, Succeeding
  <2>2. CASE Drain
    BY <1>6, <2>2 DEF Drain, RunnerGoes, faults, Keeping, Succeeding
  <2>3. CASE AssembleDetail
    <3>1. /\ job'.stage = job.stage /\ job'.bank = job.bank /\ job'.at = job.at /\ job'.st = job.st
          /\ UNCHANGED <<first, writer, chain, now, hurried, lost>>
      BY <2>3 DEF AssembleDetail, TypeOK, JobType
    <3>2. runner = "detail"
      BY <2>3 DEF AssembleDetail
    <3> QED
      BY <1>6, <3>1, <3>2 DEF Keeping, Succeeding
  <2>4. CASE Validate
    <3>1. CASE RunnerGoes("validate", "persist") /\ UNCHANGED writer
      BY <1>6, <3>1 DEF RunnerGoes, faults, Keeping, Succeeding
    <3>2. CASE RunnerWrites("validate", "invalid", "failed")
      <4>1. job'.st = "running" /\ runner' = "invalid"
        BY <3>2 DEF RunnerWrites, RunnerGoes, StatusInv
      <4> QED
        BY <1>0, <4>1 DEF Keeping, Succeeding
    <3> QED
      BY <2>4, <3>1, <3>2 DEF Validate
  <2>5. CASE Persist
    <3>1. runner = "persist" /\ ~Active(Self) /\ UNCHANGED <<first, job, chain, now, hurried, lost>>
      BY <2>5 DEF Persist, WhoWrites
    <3>2. Keeping' => Keeping
      BY <3>1 DEF Keeping, Succeeding
    <3>3. CASE writer' = [writer EXCEPT ![Self] = Writing("succeeded", 0)]
      BY <1>5, <3>1, <3>2, <3>3 DEF Ended
    <3>4. CASE UNCHANGED writer
      BY <1>6, <3>1, <3>2, <3>4
    <3> QED
      BY <2>5, <3>3, <3>4 DEF Persist
  <2>6. CASE FailDrain
    <3>1. /\ runner = "faildrain" /\ runner' = "fail" /\ ~Active(Self)
          /\ UNCHANGED <<first, job, chain, now, hurried, lost>>
          /\ writer' = [writer EXCEPT ![Self] = Writing("failed", 0)]
      BY <2>6 DEF FailDrain, RunnerWrites, RunnerGoes, WhoWrites, faults
    <3>2. Keeping' => Keeping
      BY <3>1 DEF Keeping, Succeeding
    <3> QED
      BY <1>5, <3>1, <3>2 DEF Ended
  <2> QED
    BY <1>4, <1>7, <2>1, <2>2, <2>3, <2>4, <2>5, <2>6 DEF Runner
<1>8. ASSUME NEW s \in Stages, PostDetail(s) \/ ProgressLost(s) PROVE TimesInv'
  <2>1. CASE PostDetail(s)
    <3>1. /\ job'.stage = job.stage /\ job'.bank = job.bank /\ job'.at = job.at /\ job'.st = job.st
          /\ UNCHANGED <<first, writer, chain, now, hurried, runner>>
      BY <2>1 DEF PostDetail, TypeOK, JobType
    <3>2. lost' = lost \/ lost' # 0
      BY <2>1, PlanningJobAssumption DEF PostDetail, TypeOK
    <3>3. Keeping' => Keeping
      BY <3>1, <3>2 DEF Keeping, Succeeding
    <3> QED
      BY <1>6, <3>1, <3>3
  <2>2. CASE ProgressLost(s)
    <3>1. lost' # 0
      BY <2>2, PlanningJobAssumption DEF ProgressLost, TypeOK
    <3> QED
      BY <1>0, <3>1 DEF Keeping
  <2> QED
    BY <1>8, <2>1, <2>2
<1>9. CASE ChainRaises
  <2>1. job'.st = "running" /\ runner' = "faildrain"
    BY <1>9 DEF ChainRaises, StatusInv
  <2> QED
    BY <1>0, <2>1 DEF Keeping, Succeeding
<1>10. CASE CommandRefused \/ Crash
  <2>1. /\ UNCHANGED <<first, job, chain, now, hurried, lost>> /\ runner' \in {"done", "faildrain", "dead"}
        /\ \A v \in Writers : writer'[v] = writer[v] \/ writer'[v].pc = "idle"
    BY <1>1, <1>10, DropEffect DEF CommandRefused, Crash, faults, Idle
  <2>2. Keeping' => Keeping /\ job.st = "succeeded"
    BY <2>1 DEF Keeping, Succeeding
  <2>3. \A v \in Writers : Active(v)' => writer'[v] = writer[v]
    BY <2>1 DEF Active
  <2>4. \A s \in Stages : Ticks(s)' = Ticks(s)
    BY <2>1 DEF Ticks
  <2> QED
    BY <2>1, <2>2, <2>3, <2>4, TimesKept
<1>11. CASE Expire
  <2>1. job'.st = "gone" /\ runner' \in {"done", "dead"}
    BY <1>11 DEF Expire, NoJob
  <2> QED
    BY <1>0, <2>1 DEF Keeping, Succeeding
<1>12. CASE OpenStream \/ Poll \/ UNCHANGED vars
  BY <1>6, <1>12 DEF OpenStream, Poll, vars, faults, Keeping, Succeeding
<1> QED
  BY <1>3, <1>7, <1>8, <1>9, <1>10, <1>11, <1>12, TimesOfStage, Steps

-----------------------------------------------------------------------------
(* The theorems. *)

JobInv == JobTypes /\ StatusInv /\ ShownInv /\ DetailInv /\ CompleteInv /\ OutcomeInv /\ TimesInv

\* The first state.
LEMMA InitInv == Init => JobInv
<1> SUFFICES ASSUME Init PROVE JobInv
  OBVIOUS
<1>1. \A w \in Writers : ~Active(w)
  BY DEF Init, Idle, Active
<1>2. ~Busy /\ posted = {} /\ ~Active(Self)
  BY <1>1 DEF Init, Busy, Active, Writers
<1>3. /\ job.st = "none" /\ job.stage = 0 /\ job.ttl = FALSE /\ runner = "new" /\ chain = 0
      /\ stored = FALSE /\ viewer.pc = "off" /\ viewer.last = "none"
  BY DEF Init, NoJob
<1>4. WhoWrites
  BY <1>2, <1>3 DEF WhoWrites
<1>5. WriterInv
  BY <1>1, <1>3 DEF WriterInv, Writers
<1>6. StatusInv
  BY <1>2, <1>3 DEF StatusInv, Ended
<1>7. ShownInv /\ DetailInv /\ CompleteInv
  BY <1>3 DEF ShownInv, DetailInv, CompleteInv, Succeeding
<1>8. OutcomeInv
  BY <1>3 DEF OutcomeInv, Ended
<1>9. TimesInv
  BY <1>3 DEF TimesInv, Keeping, Succeeding
<1> QED
  BY <1>4, <1>5, <1>6, <1>7, <1>8, <1>9, InitTypes DEF JobInv, JobTypes

\* Every step.
LEMMA NextInv == JobInv /\ [Next]_vars => JobInv'
<1> SUFFICES ASSUME JobInv, [Next]_vars PROVE JobInv'
  OBVIOUS
<1>1. JobTypes'
  BY TypesStep, WhoStep, WriterInvStep DEF JobInv, JobTypes
<1> QED
  BY <1>1, StatusStep, ShownStep, DetailStep, CompleteStep, OutcomeStep, TimesStep DEF JobInv

\* In every reachable state who writes what, what the hash holds and what the page was
\* shown fit together, however the writes of progress interleave with the runner.
THEOREM JobIsConsistent == Spec => []JobInv
BY InitInv, NextInv, PTL DEF Spec

\* The variables keep their types (the setters of store.py and the runners of main.py).
THEOREM JobTypeCorrect == Spec => []TypeOK
<1>1. JobInv => TypeOK
  BY DEF JobInv, JobTypes
<1> QED
  BY <1>1, JobIsConsistent, PTL

\* The last frame tells how the job ended and a success is complete, if only the assembly,
\* which calls no model, can end while the write of the stage before it is pending
\* (drain, save and set_plan_succeeded in the runners, and job_events).
THEOREM OutcomesAreTrue == ASSUME OnlyAssemblyIsQuick PROVE Spec => []OutcomeIsTrue
<1>1. ASSUME JobInv PROVE OutcomeIsTrue
  <2>1. Ordered
    BY DEF Ordered
  <2>2. job.st = "succeeded" =>
          /\ stored /\ ~Busy /\ posted = {}
          /\ lost = 0 => job.stage = StageCount /\ first..StageCount \subseteq job.details
    BY <1>1, <2>1 DEF JobInv, OutcomeInv, CompleteInv, StatusInv
  <2>3. viewer.pc = "closed" =>
          /\ viewer.last \in Ended
          /\ viewer.last = "succeeded" => stored
          /\ viewer.last = "failed" /\ stored => runner = "dead" \/ refused > 0
    BY <1>1 DEF JobInv, OutcomeInv
  <2> QED
    BY <2>2, <2>3 DEF OutcomeIsTrue
<1> QED
  BY <1>1, JobIsConsistent, PTL

\* The times reported are those taken, whatever the lengths of the stages, for as long as
\* no stage ended on a pending write and none was lost (_close_stage_timer).
THEOREM TimesAreTrue == Spec => []TimesAreExact
<1>1. JobInv => TimesAreExact
  BY DEF JobInv, TimesInv, Keeping, TimesAreExact
<1> QED
  BY <1>1, JobIsConsistent, PTL

\* What a page can see of a job is a behaviour of JobLifecycle: it never goes back to an
\* earlier stage and never runs again after its end, however late a progress write lands.
THEOREM JobImplementsLifecycle == ASSUME OnlyAssemblyIsQuick PROVE Spec => ImplementsLifecycle
<1>1. Init => Lifecycle!Init
  <2>1. Init => job.st = "none" /\ job.stage = 0 /\ (refused > 0) = FALSE
    BY DEF Init, NoJob
  <2> QED
    BY <2>1 DEF Lifecycle!Init
<1>2. JobInv /\ [Next]_vars => [Lifecycle!Next]_(Lifecycle!vars)
  BY LifecycleStep DEF JobInv, Ordered
<1> QED
  BY <1>1, <1>2, JobIsConsistent, PTL DEF Spec, ImplementsLifecycle, Lifecycle!Spec
=============================================================================
