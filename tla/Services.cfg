SPECIFICATION Spec
CONSTANTS
  Buckets = {"user", "address", "provider"}
  Callers = {"login", "even", "ahead"}
  Needs <- MCNeeds
  Skew <- MCSkew
  Token = 2
  Capacity = 1
  Ttl = 2
  MaxTime = 4
  MaxGained = 2
  Films = {f1, f2, f3}
  Goal = 2
  MaxRaises = 2
  MaxCommits = 6
  Sids = {s1, s2}
  Signups = {u1, u2}
  Requests = {r1, r2}
  Nobody = Nobody
  Idle = 2
  Cap = 3
  MaxClock = 4
  MaxTries = 3
  Deadline = 3
  Direct = {TRUE, FALSE}
  Resends = 1
INVARIANTS
  RateIsBounded
  HistoryAgrees
  RevokedIsRefused
  IndexCoversSessions
  EveryBillIsRecorded
PROPERTIES
  EveryFilmIsServed
  AttemptsEnd
CHECK_DEADLOCK FALSE
