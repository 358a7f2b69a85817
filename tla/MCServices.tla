----------------------------- MODULE MCServices -----------------------------
(***************************************************************************)
(* The services around a run that meet in no state, for TLC: each initial  *)
(* state picks the one that runs, so that the state space is the sum of    *)
(* theirs.                                                                 *)
(***************************************************************************)
EXTENDS TokenBucket, DaemonTick, NodeHistory, Sessions, RenderAttempt

VARIABLE running  \* which of them this behaviour is about

serviceVars == <<bucketVars, tickVars, historyVars, sessionVars, attemptVars, running>>

\* A user logs in from one address, a worker of each clock renders with the same provider.
MCNeeds == [c \in Callers |-> IF c = "login" THEN <<"user", "address">> ELSE <<"provider">>]
MCSkew == [c \in Callers |-> IF c = "ahead" THEN 1 ELSE 0]

Init ==
  /\ running \in {"bucket", "tick", "history", "session", "attempt"}
  /\ BucketInit /\ TickInit /\ HistoryInit /\ SessionInit /\ AttemptInit
  /\ running # "tick" => lostFilm = {}
  /\ running # "attempt" => direct /\ slow

Bucket == running = "bucket" /\ BucketNext /\ UNCHANGED <<tickVars, historyVars, sessionVars, attemptVars, running>>
Tick == running = "tick" /\ TickNext /\ UNCHANGED <<bucketVars, historyVars, sessionVars, attemptVars, running>>
History == running = "history" /\ HistoryNext /\ UNCHANGED <<bucketVars, tickVars, sessionVars, attemptVars, running>>
Session == running = "session" /\ SessionNext /\ UNCHANGED <<bucketVars, tickVars, historyVars, attemptVars, running>>
Attempt == running = "attempt" /\ AttemptNext /\ UNCHANGED <<bucketVars, tickVars, historyVars, sessionVars, running>>

Next == Bucket \/ Tick \/ History \/ Session \/ Attempt

DaemonStep == running = "tick" /\ Daemon /\ UNCHANGED <<bucketVars, historyVars, sessionVars, attemptVars, running>>
AttemptStep == running = "attempt" /\ Proceeds /\ UNCHANGED <<bucketVars, tickVars, historyVars, sessionVars, running>>

\* The event loop runs the daemon, the worker its task and the provider answers some poll.
Spec == Init /\ [][Next]_serviceVars /\ WF_serviceVars(DaemonStep) /\ WF_serviceVars(AttemptStep)

\* Only the running task has to end.
AttemptsEnd == running = "attempt" => AttemptEnds
=============================================================================
