--------------------------- MODULE RenderAttempt ---------------------------
(***************************************************************************)
(* What happens inside one execution of the render task, which RenderRun   *)
(* takes as one step: render_node of services/worker/worker/render.py with *)
(* its three retries of each call, the adapters of libs/adapters behind    *)
(* it, a provider that may lose an answer, fail, bill a failure, or never  *)
(* finish, and Redis, which may raise at every call and may have counted   *)
(* what it raised for.  Money is counted in renders.                       *)
(***************************************************************************)
EXTENDS Naturals

CONSTANTS
  MaxTries,  \* _RETRY_ATTEMPTS
  Deadline,  \* POLL_DEADLINE_S, in polls
  Direct,    \* the provider answers a submit with the asset itself (ElevenLabs)
  Resends    \* how often the Redis client repeats a command whose answer it lost

ASSUME AttemptAssumption ==
  MaxTries \in Nat \ {0} /\ Deadline \in Nat /\ Direct \in SUBSET BOOLEAN /\ Resends \in Nat

VARIABLES
  direct,    \* whether this node's adapter is one of the direct ones
  stage,     \* "load", "token", "submit", "poll", "record", "refused", "archive", "write" or an outcome
  tries,     \* attempts of the call under way that with_retries has made
  attempts,  \* the node's attempts counter
  jobs,      \* jobs the provider has accepted
  polls,     \* polls of the job since it was accepted
  spent,     \* what CostTracker has recorded
  billed,    \* what the provider bills for jobs it has answered for
  missed,    \* bills whose cost.record raised and changed nothing
  unheard,   \* jobs accepted whose answer was lost
  slow       \* the provider will not finish the job

attemptVars == <<direct, stage, tries, attempts, jobs, polls, spent, billed, missed, unheard, slow>>

\* "unwritten": the write of the failure raised too, and the node stays as it was.
Outcomes == {"succeeded", "failed", "dead_lettered", "unwritten"}

\* What a call raises: a ProviderError that is transient or not, or any other exception, from
\* Redis or from an answer that cannot be read.
Errors == {"transient", "fatal", "other"}

AttemptInit ==
  /\ direct \in Direct
  /\ slow \in BOOLEAN
  /\ stage = "load"
  /\ tries = 0 /\ attempts = 0 /\ jobs = 0 /\ polls = 0
  /\ spent = 0 /\ billed = 0 /\ missed = 0 /\ unheard = 0

Goes(from, to) == stage = from /\ stage' = to

\* execute: a ProviderError that is not transient is dead-lettered, all else failed
\* (failure_fields); set_node_status may raise as well.
Raises(error) == stage' \in {IF error = "fatal" THEN "dead_lettered" ELSE "failed", "unwritten"}

\* A counter in Redis after one increment that was answered, and after one that raised.
Counted(n) == (n + 1)..(n + 1 + Resends)
PerhapsCounted(n) == n..(n + 1 + Resends)

\* The package, the node or the prompt's size is refused, or Redis fails, or the provider's
\* name is unknown: nothing was submitted.
LoadFails(error) ==
  /\ stage = "load" /\ Raises(error)
  /\ UNCHANGED <<direct, tries, attempts, jobs, polls, spent, billed, missed, unheard, slow>>

Load ==
  /\ Goes("load", "token")
  /\ UNCHANGED <<direct, tries, attempts, jobs, polls, spent, billed, missed, unheard, slow>>

\* bucket.acquire and increment_attempts, once for each try.
TakeToken ==
  /\ Goes("token", "submit")
  /\ tries' = tries + 1 /\ attempts' \in Counted(attempts)
  /\ UNCHANGED <<direct, jobs, polls, spent, billed, missed, unheard, slow>>

\* Redis fails on one of the two, which is not retried.
TokenFails ==
  /\ stage = "token" /\ Raises("other")
  /\ attempts' \in PerhapsCounted(attempts)
  /\ UNCHANGED <<direct, tries, jobs, polls, spent, billed, missed, unheard, slow>>

\* The provider's answer: accepted, and a direct one has done and bills its work.
Submitted ==
  /\ Goes("submit", "poll")
  /\ tries' = 0 /\ jobs' = jobs + 1
  /\ billed' = billed + IF direct THEN 1 ELSE 0
  /\ UNCHANGED <<direct, attempts, polls, spent, missed, unheard, slow>>

\* A transient error is retried three times in all; that and any other is raised.
SubmitRaises(error) ==
  /\ stage = "submit"
  /\ IF error = "transient" /\ tries < MaxTries THEN stage' = "token" ELSE Raises(error)

\* Refused, throttled, or lost on the way there.
SubmitFails(error) ==
  /\ SubmitRaises(error)
  /\ UNCHANGED <<direct, tries, attempts, jobs, polls, spent, billed, missed, unheard, slow>>

\* The provider had accepted, but the network lost its answer, so that the next try submits
\* a second job, or the answer could not be read.
SubmitUnheard(error) ==
  /\ error # "fatal"
  /\ SubmitRaises(error)
  /\ jobs' = jobs + 1 /\ unheard' = unheard + 1
  /\ UNCHANGED <<direct, tries, attempts, polls, spent, billed, missed, slow>>

\* The poll itself fails; it is retried on the same handle, unless its answer cannot be read.
PollLost(error) ==
  /\ stage = "poll" /\ ~direct
  /\ error # "fatal"
  /\ IF error = "transient" /\ tries + 1 < MaxTries THEN UNCHANGED stage /\ tries' = tries + 1
     ELSE Raises(error) /\ UNCHANGED tries
  /\ UNCHANGED <<direct, attempts, jobs, polls, spent, billed, missed, unheard, slow>>

\* Mutant: the deadline is not looked at.
PollPendingForever ==
  /\ stage = "poll" /\ ~direct
  /\ tries' = 0
  /\ polls' = IF polls < Deadline THEN polls + 1 ELSE polls
  /\ UNCHANGED <<direct, stage, attempts, jobs, spent, billed, missed, unheard, slow>>

\* Still running: poll_until_done sleeps, or gives up at the deadline.
PollPending ==
  /\ stage = "poll" /\ ~direct
  /\ IF polls >= Deadline
     THEN Raises("fatal") /\ UNCHANGED polls
     ELSE UNCHANGED stage /\ polls' = polls + 1
  /\ tries' = 0
  /\ UNCHANGED <<direct, attempts, jobs, spent, billed, missed, unheard, slow>>

PollDone ==
  /\ stage = "poll" /\ (direct \/ ~slow)
  /\ stage' = "record"
  /\ tries' = 0
  /\ billed' = billed + IF direct THEN 0 ELSE 1
  /\ UNCHANGED <<direct, attempts, jobs, polls, spent, missed, unheard, slow>>

\* The job ended in an error; an image the safety checker blacked out is billed.
PollRefused(bills) ==
  /\ stage = "poll" /\ ~direct /\ ~slow
  /\ IF bills THEN stage' = "refused" ELSE Raises("fatal")
  /\ billed' = billed + IF bills THEN 1 ELSE 0
  /\ UNCHANGED <<direct, tries, attempts, jobs, polls, spent, missed, unheard, slow>>

\* Mutant: the cost is recorded with the status.
RecordLater ==
  /\ Goes("record", "archive")
  /\ UNCHANGED <<direct, tries, attempts, jobs, polls, spent, billed, missed, unheard, slow>>

\* Mutant: an error of cost.record is logged and the render goes on.
RecordFailsQuietly ==
  /\ Goes("record", "archive") \/ (stage = "refused" /\ Raises("fatal"))
  /\ spent' \in PerhapsCounted(spent)
  /\ missed' = missed + IF spent' = spent THEN 1 ELSE 0
  /\ UNCHANGED <<direct, tries, attempts, jobs, polls, billed, unheard, slow>>

\* cost.record raises, whether or not Redis did the INCRBYFLOAT: the node is failed, also
\* where the provider's own error would have dead-lettered it.
RecordFails ==
  /\ stage \in {"record", "refused"} /\ Raises("other")
  /\ spent' \in PerhapsCounted(spent)
  /\ missed' = missed + IF spent' = spent THEN 1 ELSE 0
  /\ UNCHANGED <<direct, tries, attempts, jobs, polls, billed, unheard, slow>>

\* cost.record, before the archive may fail.
RecordCost ==
  /\ Goes("record", "archive")
  /\ spent' \in Counted(spent)
  /\ UNCHANGED <<direct, tries, attempts, jobs, polls, billed, missed, unheard, slow>>

\* cost.record of what a failed job cost, then the provider's error goes on.
RecordRefused ==
  /\ stage = "refused" /\ Raises("fatal")
  /\ spent' \in Counted(spent)
  /\ UNCHANGED <<direct, tries, attempts, jobs, polls, billed, missed, unheard, slow>>

\* archive_result into the object store, retried whatever it raises.
ArchiveFails ==
  /\ stage = "archive"
  /\ IF tries + 1 < MaxTries THEN UNCHANGED stage /\ tries' = tries + 1
     ELSE Raises("other") /\ UNCHANGED tries
  /\ UNCHANGED <<direct, attempts, jobs, polls, spent, billed, missed, unheard, slow>>

Archive ==
  Goes("archive", "write") /\ UNCHANGED <<direct, tries, attempts, jobs, polls, spent, billed, missed, unheard, slow>>

WriteSucceeded ==
  /\ Goes("write", "succeeded")
  /\ UNCHANGED <<direct, tries, attempts, jobs, polls, spent, billed, missed, unheard, slow>>

\* set_node_status of the success raises, and execute writes a failure over it.
WriteFails ==
  /\ stage = "write" /\ Raises("other")
  /\ UNCHANGED <<direct, tries, attempts, jobs, polls, spent, billed, missed, unheard, slow>>

\* What the task and a provider that answers do; which answer is the provider's.
Proceeds ==
  \/ Load \/ TakeToken \/ Submitted \/ PollPending \/ PollDone \/ RecordCost \/ RecordRefused
  \/ Archive \/ WriteSucceeded

\* Redis, or the object store, raises.
StoreFails == TokenFails \/ RecordFails \/ ArchiveFails \/ WriteFails

AttemptNext ==
  \/ Proceeds \/ StoreFails
  \/ \E e \in Errors : LoadFails(e) \/ SubmitFails(e) \/ SubmitUnheard(e) \/ PollLost(e)
  \/ \E bills \in BOOLEAN : PollRefused(bills)

\* The budget sees every bill the task hears of, whatever fails after it; one that is lost,
\* because Redis refused the record itself, never belongs to a node that goes on to be
\* archived or that ends succeeded or dead-lettered; only an INCRBYFLOAT the Redis client
\* repeats counts a bill twice.  A job is submitted a second time only when the answer to
\* the first was lost, and never past the tries or without one in the counter of attempts
\* (submit and cost.record of render_node).
EveryBillIsRecorded ==
  /\ stage \in Outcomes \cup {"archive", "write"} => billed <= spent + missed
  /\ stage \in {"archive", "write", "succeeded", "dead_lettered"} => missed = 0
  /\ spent <= 1 + Resends /\ (billed = 0 => spent = 0)
  /\ jobs <= 1 + unheard
  /\ jobs <= attempts /\ jobs <= MaxTries

\* Every execution ends, even when the provider never finishes (POLL_DEADLINE_S).
AttemptEnds == (stage = "load") ~> (stage \in Outcomes)
=============================================================================
