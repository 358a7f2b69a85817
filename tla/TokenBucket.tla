---------------------------- MODULE TokenBucket ----------------------------
(***************************************************************************)
(* The token buckets of libs/rate-limiter/rate_limiter/token_bucket.py: a  *)
(* Lua script refills and takes in one step, with the time the caller      *)
(* passes.  Callers on machines with skewed clocks share the buckets: a    *)
(* login takes one token of its username and one of its address            *)
(* (libs/auth/auth/ratelimit.py), a render one of its provider.            *)
(***************************************************************************)
EXTENDS Integers, Sequences

CONSTANTS
  Buckets,     \* ratelimit:{provider} keys
  Callers,     \* who takes tokens
  Needs,       \* Needs[c]: the buckets c takes one token of, in the code's order
  Skew,        \* Skew[c]: how far c's clock is ahead
  Token,       \* time in which one token is refilled; a bucket counts in this fraction
  Capacity,    \* tokens of a full bucket
  Ttl,         \* EXPIRE: a bucket not used for this long is gone
  MaxTime,     \* bound: the clock
  MaxGained    \* bound: time a bucket is credited for nothing

ASSUME BucketAssumption ==
  /\ Token \in Nat \ {0} /\ Capacity \in Nat \ {0} /\ MaxTime \in Nat /\ MaxGained \in Nat /\ Ttl \in Nat
  /\ Capacity * Token <= Ttl  \* a bucket is full before it expires
  /\ \A c \in Callers : Needs[c] \in Seq(Buckets) /\ Needs[c] # <<>> /\ Skew[c] \in Int

VARIABLES
  bucket,  \* tokens and ts of each bucket; live is FALSE when the key is gone
  clock,   \* the true time
  used,    \* the true time of the last use of a bucket
  ask,     \* ask[c]: which of Needs[c] it asks for next
  granted, \* tokens given so far
  gained   \* time a bucket was credited beyond what had passed since its last use

bucketVars == <<bucket, clock, used, ask, granted, gained>>

BucketInit ==
  /\ bucket = [b \in Buckets |-> [tokens |-> 0, ts |-> 0, live |-> FALSE]]
  /\ clock = 0
  /\ used = [b \in Buckets |-> 0]
  /\ ask = [c \in Callers |-> 1]
  /\ granted = [b \in Buckets |-> 0]
  /\ gained = [b \in Buckets |-> 0]

Least(x, y) == IF x < y THEN x ELSE y
Most(x, y) == IF x > y THEN x ELSE y

\* Mutant: only a success moves the time of the last refill.
TakenKeepsTime(d, now) ==
  LET tokens == IF d.live THEN Least(Capacity * Token, d.tokens + Most(0, now - d.ts)) ELSE Capacity * Token IN
  [ok |-> tokens >= Token,
   data |-> [tokens |-> IF tokens >= Token THEN tokens - Token ELSE tokens,
             ts |-> IF tokens >= Token THEN now ELSE d.ts, live |-> TRUE]]

\* The script: the caller's time is stored even when it is behind ts, and when nothing is taken.
Taken(d, now) ==
  LET tokens == IF d.live THEN Least(Capacity * Token, d.tokens + Most(0, now - d.ts)) ELSE Capacity * Token IN
  [ok |-> tokens >= Token,
   data |-> [tokens |-> IF tokens >= Token THEN tokens - Token ELSE tokens, ts |-> now, live |-> TRUE]]

\* try_acquire of the next bucket; allow_login asks for the second one whatever the first said,
\* and acquire polls again as a user logs in again.
TryAcquire(c) ==
  LET b == Needs[c][ask[c]]
      taken == Taken(bucket[b], clock + Skew[c])
      credit == IF bucket[b].live
                THEN Most(0, (clock + Skew[c] - bucket[b].ts) - (clock - used[b])) ELSE 0
  IN
  /\ gained[b] + credit <= MaxGained
  /\ bucket' = [bucket EXCEPT ![b] = taken.data]
  /\ used' = [used EXCEPT ![b] = clock]
  /\ granted' = [granted EXCEPT ![b] = @ + IF taken.ok THEN 1 ELSE 0]
  /\ gained' = [gained EXCEPT ![b] = @ + credit]
  /\ ask' = [ask EXCEPT ![c] = (@ % Len(Needs[c])) + 1]
  /\ UNCHANGED clock

BucketExpires(b) ==
  /\ bucket[b].live /\ clock >= used[b] + Ttl
  /\ bucket' = [bucket EXCEPT ![b] = [tokens |-> 0, ts |-> 0, live |-> FALSE]]
  /\ UNCHANGED <<clock, used, ask, granted, gained>>

BucketClock == clock < MaxTime /\ clock' = clock + 1 /\ UNCHANGED <<bucket, used, ask, granted, gained>>

BucketNext ==
  \/ \E c \in Callers : TryAcquire(c)
  \/ \E b \in Buckets : BucketExpires(b)
  \/ BucketClock

SkewOf == [b \in Buckets |-> {Skew[c] : c \in {k \in Callers : \E i \in 1..Len(Needs[k]) : Needs[k][i] = b}}]

\* However many callers share a bucket, it gives no more than its capacity and one token per
\* refill time, and what skewed clocks credit it, which is nothing when the clocks agree;
\* neither a refused attempt nor the key's expiry adds to it (the refill of _ACQUIRE_LUA).
RateIsBounded ==
  \A b \in Buckets :
    /\ bucket[b].tokens \in 0..Capacity * Token
    /\ granted[b] * Token <= Capacity * Token + clock + gained[b]
    /\ (\A x, y \in SkewOf[b] : x = y) => gained[b] = 0
=============================================================================
