------------------------------ MODULE Sessions ------------------------------
(***************************************************************************)
(* Accounts and sessions of one username: register and login of libs/auth/ *)
(* auth/router.py, the middleware's check, and the hashes and the index of *)
(* sessions.py with their times to live.  Requests share a session and a   *)
(* logout may come between any two of their commands.                      *)
(***************************************************************************)
EXTENDS Naturals, FiniteSets

CONSTANTS
  Sids,      \* session ids that may be minted
  Signups,   \* concurrent registrations of the username, each with a user id
  Requests,  \* concurrent requests with a session cookie
  Nobody,
  Idle,      \* SESSION_IDLE_TTL
  Cap,       \* SESSION_ABSOLUTE_TTL
  MaxClock   \* bound: the clock

ASSUME SessionAssumption ==
  /\ Idle \in Nat \ {0} /\ Cap \in Nat /\ MaxClock \in Nat
  /\ Nobody \notin Sids \cup Signups

VARIABLES
  nameOf,    \* user:name:{username}, or the row of the UNIQUE column
  account,   \* user ids with a user:id:{user_id} hash
  signup,    \* registrations in progress
  session,   \* session:{sid}: its user, created_at, and when the key expires
  index,     \* sessions:user:{uid}: the sids, and when the key expires
  mint,      \* create_session in progress: where it stands with each sid
  cookie,    \* sids a browser holds
  touch,     \* requests in progress: the session read, its age, whether it was revoked before
  revoked,   \* sids a logout has destroyed
  hours      \* the clock

sessionVars ==
  <<nameOf, account, signup, session, index, mint, cookie, touch, revoked, hours>>

Never == MaxClock + Cap + 1  \* a key without a time to live
NoSession == [live |-> FALSE, user |-> Nobody, created |-> 0, ends |-> 0]
NoTouch == [pc |-> "idle", sid |-> Nobody, user |-> Nobody, created |-> 0, late |-> FALSE, age |-> 0]

SessionInit ==
  /\ nameOf = Nobody
  /\ account = {}
  /\ signup = [u \in Signups |-> "start"]
  /\ session = [s \in Sids |-> NoSession]
  /\ index = [sids |-> {}, ends |-> 0]
  /\ mint = [s \in Sids |-> "none"]
  /\ cookie = {}
  /\ touch = [r \in Requests |-> NoTouch]
  /\ revoked = {}
  /\ hours = 0

-----------------------------------------------------------------------------
(* register_user: the name is claimed before the account exists. *)

\* SET NX, or the UNIQUE constraint.
Claim(u) ==
  /\ signup[u] = "start"
  /\ signup' = [signup EXCEPT ![u] = IF nameOf = Nobody THEN "claimed" ELSE "taken"]
  /\ nameOf' = IF nameOf = Nobody THEN u ELSE nameOf

ClaimName(u) ==
  Claim(u) /\ UNCHANGED <<account, session, index, mint, cookie, touch, revoked, hours>>

\* The hash of the account.
CreateAccount(u) ==
  /\ signup[u] = "claimed"
  /\ signup' = [signup EXCEPT ![u] = "done"]
  /\ account' = account \cup {u}
  /\ UNCHANGED <<nameOf, session, index, mint, cookie, touch, revoked, hours>>

-----------------------------------------------------------------------------
(* create_session after a login: the hash, then the index and its time to live. *)

MintStep(s, from, to) ==
  /\ mint[s] = from
  /\ mint' = [mint EXCEPT ![s] = to]
  /\ UNCHANGED <<nameOf, account, signup, touch, revoked, hours>>

\* authenticate finds the account of the name; nobody knows the new hash before its cookie is
\* out, so its time to live is set with it.
Mint(s) ==
  /\ nameOf \in account
  /\ MintStep(s, "none", "hash")
  /\ session' = [session EXCEPT ![s] =
       [live |-> TRUE, user |-> nameOf, created |-> hours, ends |-> hours + Idle]]
  /\ UNCHANGED <<index, cookie>>

MintIndex(s) ==
  /\ MintStep(s, "hash", "index")
  /\ index' = [sids |-> index.sids \cup {s}, ends |-> IF index.sids = {} THEN Never ELSE index.ends]
  /\ UNCHANGED <<session, cookie>>

\* Mutant: the index lives as long as an idle session.
MintDoneIdle(s) ==
  /\ MintStep(s, "index", "done")
  /\ index' = [index EXCEPT !.ends = hours + Idle]
  /\ cookie' = cookie \cup {s}
  /\ UNCHANGED session

\* The index outlives every session in it; the cookie goes out.
MintDone(s) ==
  /\ MintStep(s, "index", "done")
  /\ index' = [index EXCEPT !.ends = hours + Cap]
  /\ cookie' = cookie \cup {s}
  /\ UNCHANGED session

-----------------------------------------------------------------------------
(* touch_session, which the middleware awaits before any handler runs. *)

TouchStep(r, from, t) ==
  /\ touch[r].pc = from
  /\ touch' = [touch EXCEPT ![r] = t]
  /\ UNCHANGED <<nameOf, account, signup, mint, cookie, revoked, hours>>

TouchRead(r, s) ==
  /\ s \in cookie
  /\ TouchStep(r, "idle",
       IF session[s].live
       THEN [pc |-> "read", sid |-> s, user |-> session[s].user, created |-> session[s].created,
             late |-> s \in revoked, age |-> 0]
       ELSE NoTouch)
  /\ UNCHANGED <<session, index>>

\* Mutant: a session without created_at is as old as this request.
TooOldIfDated(r) == touch[r].user # Nobody /\ hours > touch[r].created + Cap

\* A hash without created_at dates from 1970.
TooOld(r) == touch[r].user = Nobody \/ hours > touch[r].created + Cap

\* Past the absolute cap the session is destroyed and the request refused.
TouchRefuse(r) ==
  /\ TooOld(r)
  /\ TouchStep(r, "read", [touch[r] EXCEPT !.pc = "destroy"])
  /\ UNCHANGED <<session, index>>

\* last_seen: HSET makes a hash when a logout has just deleted it, with nothing else in it.
TouchStamp(r) ==
  /\ ~TooOld(r)
  /\ TouchStep(r, "read", [touch[r] EXCEPT !.pc = "stamped"])
  /\ session' = [session EXCEPT ![touch[r].sid] =
       IF @.live THEN @ ELSE [live |-> TRUE, user |-> Nobody, created |-> 0, ends |-> Never]]
  /\ UNCHANGED index

\* The handler may run: pc "accepted" remembers what was accepted.
TouchExpire(r) ==
  /\ TouchStep(r, "stamped",
       [touch[r] EXCEPT !.pc = "accepted", !.age = hours - touch[r].created])
  /\ session' = [session EXCEPT ![touch[r].sid].ends =
       IF session[touch[r].sid].live THEN hours + Idle ELSE @]
  /\ UNCHANGED index

Handled(r) == TouchStep(r, "accepted", NoTouch) /\ UNCHANGED <<session, index>>

\* logout, once its own touch is accepted.
Logout(r) == TouchStep(r, "accepted", [touch[r] EXCEPT !.pc = "destroy"]) /\ UNCHANGED <<session, index>>

-----------------------------------------------------------------------------
(* destroy_session: the user is read, the hash deleted, the index updated. *)

DestroyRead(r) ==
  /\ TouchStep(r, "destroy", [touch[r] EXCEPT !.pc = "delete", !.user = session[touch[r].sid].user])
  /\ UNCHANGED <<session, index>>

DestroyDelete(r) ==
  /\ TouchStep(r, "delete", [touch[r] EXCEPT !.pc = "unindex"])
  /\ session' = [session EXCEPT ![touch[r].sid] = NoSession]
  /\ UNCHANGED index

DestroyUnindex(r) ==
  /\ touch[r].pc = "unindex"
  /\ touch' = [touch EXCEPT ![r] = NoTouch]
  /\ index' = [index EXCEPT !.sids = IF touch[r].user = Nobody THEN @ ELSE @ \ {touch[r].sid}]
  /\ revoked' = revoked \cup {touch[r].sid}
  /\ UNCHANGED <<nameOf, account, signup, session, mint, cookie, hours>>

-----------------------------------------------------------------------------
\* The clock, and the keys that expire with it.
Hour ==
  /\ hours < MaxClock /\ cookie # {}  \* the clock starts with the first session
  /\ hours' = hours + 1
  /\ session' = [s \in Sids |-> IF session[s].ends <= hours + 1 THEN NoSession ELSE session[s]]
  /\ index' = IF index.ends <= hours + 1 THEN [sids |-> {}, ends |-> 0] ELSE index
  /\ \A r \in Requests : touch[r].pc \in {"idle", "accepted"}  \* a check takes no hour
  /\ \A s \in Sids : mint[s] \in {"none", "done"}
  /\ UNCHANGED <<nameOf, account, signup, mint, cookie, touch, revoked>>

SessionNext ==
  \/ \E u \in Signups : ClaimName(u) \/ CreateAccount(u)
  \/ \E s \in Sids : Mint(s) \/ MintIndex(s) \/ MintDone(s)
  \/ \E r \in Requests :
       \/ \E s \in Sids : TouchRead(r, s)
       \/ TouchRefuse(r) \/ TouchStamp(r) \/ TouchExpire(r) \/ Handled(r) \/ Logout(r)
       \/ DestroyRead(r) \/ DestroyDelete(r) \/ DestroyUnindex(r)
  \/ Hour

\* What the middleware accepts is a session of an account, not past the absolute cap however
\* often it is touched, and never one a logout had destroyed before the request came, although
\* a request under way at the logout may write the deleted hash again (touch_session).
RevokedIsRefused ==
  \A r \in Requests : touch[r].pc = "accepted" =>
    /\ ~touch[r].late
    /\ touch[r].user \in account
    /\ touch[r].age <= Cap

\* Every session a browser holds and the middleware would accept is in its user's index, where
\* a global logout finds it (the two times to live of create_session).
IndexCoversSessions ==
  \A s \in cookie : session[s].live /\ session[s].user # Nobody /\ hours < session[s].created + Cap
                      => s \in index.sids
=============================================================================
