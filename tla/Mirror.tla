------------------------------- MODULE Mirror -------------------------------
(***************************************************************************)
(* The two stores behind libs/state/state/store.py: Redis, which decides,  *)
(* and the Postgres mirror of pg.py, which must survive a flush of Redis   *)
(* and may be down.  One project with its owner, under any mix of submits, *)
(* edits, revisions and approvals.  A mirror is written after the Redis    *)
(* commit, on a connection of its own, and its failure is swallowed.  The  *)
(* rows of the nodes are in NodeHistory.                                   *)
(***************************************************************************)
EXTENDS Naturals

CONSTANTS
  Contents,   \* what a package may say
  Writers,    \* concurrent requests that write the package
  Owner,      \* the user who submitted it
  None,
  MaxWrites,  \* bound: package commits
  MaxOutages  \* bound: times Postgres goes down

\* A row of the packages table.
RowType == [spec : Contents, owner : {Owner, None}, approved : BOOLEAN]

ASSUME MirrorAssumption ==
  /\ None \notin Contents \cup BOOLEAN \cup RowType /\ Owner # None
  /\ MaxWrites \in Nat /\ MaxOutages \in Nat

VARIABLES
  redis,   \* pkg:{id}, project:{id}:owner, user:{uid}:projects and projects:approved
  row,     \* the packages row, or None
  writer,  \* requests in progress: what each will mirror
  commits, \* package commits so far
  newest,  \* the latest commit whose mirror has landed
  up, outages, flushed,
  torn,    \* the flush came between the owner's key and the user's set of a submit
  missed,  \* a mirror was lost to an outage or a crash
  crossed  \* a mirror landed after that of a later commit

packages == <<redis, row, writer, commits, newest>>
weather == <<up, outages, flushed, torn>>
vars == <<packages, weather, missed, crossed>>

Empty == [spec |-> None, owner |-> None, listed |-> FALSE, approved |-> FALSE]
Free == [pc |-> "idle", spec |-> None, approved |-> None, owner |-> None, seq |-> 0, alone |-> FALSE]

Init ==
  /\ redis = Empty
  /\ row = None
  /\ writer = [w \in Writers |-> Free]
  /\ commits = 0 /\ newest = 0
  /\ up = TRUE /\ outages = 0 /\ flushed = FALSE /\ torn = FALSE
  /\ missed = FALSE /\ crossed = FALSE

-----------------------------------------------------------------------------
(* Reads: Redis first for a value, Postgres first for a list. *)

GetPackage == IF redis.spec # None THEN redis.spec
              ELSE IF up /\ row # None THEN row.spec ELSE None

GetProjectOwner == IF redis.owner # None THEN redis.owner
                   ELSE IF up /\ row # None THEN row.owner ELSE None

\* _user_project_ids, and the packages it leads iter_user_packages to.
InHistory ==
  /\ IF up THEN row # None /\ row.owner = Owner ELSE redis.listed
  /\ GetPackage # None

Owned == GetProjectOwner = Owner  \* the guard of every route of a project

-----------------------------------------------------------------------------
(* Package writes. *)

At(w, pc) == writer[w].pc = pc

\* A request starts or goes on with r; those already under way are no longer alone.
Begins(w, r) ==
  /\ At(w, "idle")
  /\ writer' = [v \in Writers |->
       IF v = w THEN [r EXCEPT !.alone = \A u \in Writers \ {w} : At(u, "idle")]
       ELSE [writer[v] EXCEPT !.alone = FALSE]]

Commits(c) ==
  /\ commits < MaxWrites
  /\ commits' = commits + 1
  /\ redis' = [redis EXCEPT !.spec = c]

ToMirror(c, approved, owner) ==
  [pc |-> "mirror", spec |-> c, approved |-> approved, owner |-> owner, seq |-> commits + 1,
   alone |-> FALSE]

PackageStep == UNCHANGED <<row, newest, weather, missed, crossed>>

\* save_package with an owner: POST /packages, a planning job, a new version.
Submit(w, c) ==
  /\ Begins(w, [ToMirror(c, None, Owner) EXCEPT !.pc = "owner"])
  /\ Commits(c)
  /\ PackageStep

\* Mutant: the user's set before the owner's key.
SubmitListFirst(w) ==
  \/ /\ At(w, "owner")
     /\ redis' = [redis EXCEPT !.listed = TRUE]
     /\ writer' = [writer EXCEPT ![w].pc = "list"]
     /\ UNCHANGED commits /\ PackageStep
  \/ /\ At(w, "list")
     /\ redis' = [redis EXCEPT !.owner = Owner]
     /\ writer' = [writer EXCEPT ![w].pc = "mirror"]
     /\ UNCHANGED commits /\ PackageStep

\* The owner's key, then the user's set.
SubmitIndex(w) ==
  \/ /\ At(w, "owner")
     /\ redis' = [redis EXCEPT !.owner = Owner]
     /\ writer' = [writer EXCEPT ![w].pc = "list"]
     /\ UNCHANGED commits /\ PackageStep
  \/ /\ At(w, "list")
     /\ redis' = [redis EXCEPT !.listed = TRUE]
     /\ writer' = [writer EXCEPT ![w].pc = "mirror"]
     /\ UNCHANGED commits /\ PackageStep

\* update_package: what it checks, and save_package without owner.
SaveStart(w, c) ==
  /\ Owned /\ ~redis.approved
  /\ Begins(w, [Free EXCEPT !.pc = "save", !.spec = c])
  /\ UNCHANGED <<redis, commits>> /\ PackageStep

SaveSet(w) ==
  /\ At(w, "save")
  /\ Commits(writer[w].spec)
  /\ writer' = [writer EXCEPT ![w] =
                  [ToMirror(writer[w].spec, None, None) EXCEPT !.alone = writer[w].alone]]
  /\ PackageStep

\* Mutant: the revised draft is not mirrored.
ReplaceUnmirrored(w, c) ==
  /\ Owned /\ ~redis.approved
  /\ At(w, "idle") /\ UNCHANGED writer
  /\ Commits(c)
  /\ PackageStep

\* replace_package_if_unapproved, whose WATCH makes check and write one step.
Replace(w, c) ==
  /\ Owned /\ ~redis.approved
  /\ Begins(w, ToMirror(c, None, None))
  /\ Commits(c)
  /\ PackageStep

\* approve_and_seed: get_package_raw knows Redis only; fresh takes change the spec.
Approve(w, c) ==
  /\ Owned /\ ~redis.approved /\ redis.spec # None
  /\ Begins(w, ToMirror(c, TRUE, None))
  /\ commits < MaxWrites /\ commits' = commits + 1
  /\ redis' = [redis EXCEPT !.spec = c, !.approved = TRUE]
  /\ PackageStep

\* update_asset_content, for a node of an approved package.
Edit(w, c) ==
  /\ Owned /\ redis.approved /\ redis.spec # None
  /\ Begins(w, [ToMirror(c, None, None) EXCEPT !.pc = "reread"])
  /\ Commits(c)
  /\ PackageStep

\* The spec is read again for the mirror; a flush in between raises.
EditReread(w) ==
  /\ At(w, "reread")
  /\ writer' = [writer EXCEPT ![w] =
       IF redis.spec = None THEN Free
       ELSE [writer[w] EXCEPT !.pc = "mirror", !.spec = redis.spec, !.seq = commits]]
  /\ missed' = (missed \/ redis.spec = None)
  /\ UNCHANGED <<redis, row, commits, newest, weather, crossed>>

OrElse(new, old) == IF new # None THEN new ELSE old

\* Mutant: the conflict clause forgets the spec.
UpsertOnce(m) ==
  IF row = None THEN [spec |-> m.spec, owner |-> m.owner, approved |-> OrElse(m.approved, FALSE)]
  ELSE [row EXCEPT !.approved = OrElse(m.approved, row.approved)]

\* _UPSERT_PACKAGE: a write without owner or approval keeps those of the row.
Upsert(m) ==
  IF row = None THEN [spec |-> m.spec, owner |-> m.owner, approved |-> OrElse(m.approved, FALSE)]
  ELSE [spec |-> m.spec, owner |-> OrElse(m.owner, row.owner),
        approved |-> OrElse(m.approved, row.approved)]

\* _mirror: a failure is logged and swallowed.
MirrorPackage(w) ==
  /\ At(w, "mirror")
  /\ writer' = [writer EXCEPT ![w] = Free]
  /\ IF up
     THEN /\ row' = Upsert(writer[w])
          /\ newest' = IF writer[w].seq > newest THEN writer[w].seq ELSE newest
          /\ crossed' = (crossed \/ writer[w].seq < newest)
          /\ UNCHANGED missed
     ELSE missed' = TRUE /\ UNCHANGED <<row, newest, crossed>>
  /\ UNCHANGED <<redis, commits, weather>>

\* The process dies between the commit and the mirror.
WriterCrash(w) ==
  /\ writer[w].pc \in {"owner", "list", "reread", "mirror"}
  /\ writer' = [writer EXCEPT ![w] = Free]
  /\ missed' = TRUE
  /\ UNCHANGED <<redis, row, commits, newest, weather, crossed>>

-----------------------------------------------------------------------------
(* Postgres and Redis. *)

PostgresDown ==
  /\ up /\ outages < MaxOutages
  /\ up' = FALSE /\ outages' = outages + 1
  /\ UNCHANGED <<packages, flushed, torn, missed, crossed>>

PostgresUp == ~up /\ up' = TRUE /\ UNCHANGED <<packages, outages, flushed, torn, missed, crossed>>

\* Redis is persistent but not durable: once, everything in it is gone, runs included.
Flush ==
  /\ ~flushed /\ flushed' = TRUE
  /\ torn' = \E w \in Writers : At(w, "list")
  /\ redis' = Empty
  /\ UNCHANGED <<row, writer, commits, newest, up, outages, missed, crossed>>

PackageWrite ==
  \E w \in Writers :
    \/ \E c \in Contents : Submit(w, c) \/ SaveStart(w, c) \/ Replace(w, c) \/ Approve(w, c) \/ Edit(w, c)
    \/ SubmitIndex(w) \/ SaveSet(w) \/ EditReread(w) \/ MirrorPackage(w) \/ WriterCrash(w)

Next == PackageWrite \/ PostgresDown \/ PostgresUp \/ Flush

Spec == Init /\ [][Next]_vars

-----------------------------------------------------------------------------
OrNone(S) == S \cup {None}

KeysType ==
  [spec : OrNone(Contents), owner : {Owner, None}, listed : BOOLEAN, approved : BOOLEAN]
RequestType ==
  [pc : {"idle", "owner", "list", "save", "reread", "mirror"}, spec : OrNone(Contents),
   approved : {TRUE, None}, owner : {Owner, None}, seq : 0..MaxWrites, alone : BOOLEAN]

TypeOK ==
  /\ redis \in KeysType
  /\ row \in OrNone(RowType)
  /\ writer \in [Writers -> RequestType]
  /\ commits \in 0..MaxWrites /\ newest \in 0..MaxWrites
  /\ up \in BOOLEAN /\ outages \in 0..MaxOutages /\ flushed \in BOOLEAN /\ torn \in BOOLEAN
  /\ missed \in BOOLEAN /\ crossed \in BOOLEAN

Quiet == \A w \in Writers : At(w, "idle")

\* Once every request is over, Postgres has what Redis has, unless a mirror was lost or was
\* overtaken by that of a later commit: every path that commits a spec mirrors that spec
\* (the _mirror calls of store.py and the read after the commit in update_asset_content).
MirrorsConverge ==
  Quiet /\ redis.spec # None /\ ~missed /\ ~crossed =>
    /\ row # None
    /\ row.spec = redis.spec
    /\ redis.owner # None => row.owner = redis.owner
    /\ redis.approved => row.approved

\* Whatever was lost or overtaken before, one request that runs alone brings the mirror up
\* to date.
MirrorHeals ==
  [][\A w \in Writers :
       MirrorPackage(w) /\ writer[w].alone /\ up /\ redis.spec # None => row'.spec = redis.spec]_vars

\* What the History list shows can be opened: the routes find an owner and a package, at
\* every step of a submit, during an outage and after a flush; only a submit the flush cut in
\* two is listed without an owner while Postgres is down.  And a film whose row names its
\* owner stays listed through edits, crashes, lost mirrors, outages and a flush; only a flush
\* and an outage together hide it, as long as the outage lasts (_user_project_ids,
\* get_package and get_project_owner, which ask the stores in different orders).
HistoryHolds ==
  /\ InHistory /\ (up \/ ~torn) => Owned /\ GetPackage # None
  /\ row # None /\ row.owner = Owner /\ (up \/ ~flushed) => InHistory
=============================================================================
