----------------------------- MODULE Checkpoint -----------------------------
(***************************************************************************)
(* The versions of one film between planning and rendering: PUT and        *)
(* approve of services/scheduler/scheduler/main.py, the revision jobs of   *)
(* services/planning/planning/main.py and the package operations of        *)
(* libs/state/state/store.py they share.  A PUT, an approval and a         *)
(* revision run in different processes or tasks and meet only in Redis;    *)
(* each await is the end of a step.                                        *)
(***************************************************************************)
EXTENDS Integers, FiniteSets

CONSTANTS
  Projects,      \* project ids
  Film,          \* the project the film began with: its film_id
  Contents,      \* what a package may say, lineage and takes aside
  ValidContents, \* those that validate_package accepts
  Savers,        \* concurrent callers of PUT /packages/{id}
  Approvers,     \* concurrent callers of POST /packages/{id}/approve
  Jobs,          \* concurrent revision jobs
  MaxRevisions,  \* bound: how many revisions are started
  None           \* no project, no job, no take, no package, no render

\* What identifies a render: fingerprints(package), which covers content and take.
Fingerprints == [content : Contents, take : Projects \cup {None}]
Packages ==
  [content : Contents, take : Projects \cup {None}, version : Nat,
   parent : Projects \cup {None}]

ASSUME CheckpointAssumption ==
  /\ Film \in Projects
  /\ ValidContents \subseteq Contents
  /\ None \notin Projects \cup Jobs \cup Packages \cup Fingerprints
  /\ MaxRevisions \in Nat

VARIABLES
  pkg,       \* pkg:{id}: content, take, and the version and parent of its lineage
  index,     \* user:{uid}:projects: what iter_user_packages yields
  approved,  \* projects:approved
  made,      \* node hashes: what the assets of a project were rendered from
  filmLock,  \* _film_locks[film]: the job that holds it
  saver,     \* the PUT calls in progress
  approver,  \* the approve calls in progress
  job,       \* the revision jobs in progress
  started    \* revisions started so far

vars == <<pkg, index, approved, made, filmLock, saver, approver, job, started>>
store == <<pkg, index, approved, made>>

Fingerprint(package) == [content |-> package.content, take |-> package.take]

SaverIdle == [pc |-> "idle", project |-> None, package |-> None]
ApproverIdle ==
  [pc |-> "idle", project |-> None, rerender |-> FALSE, raw |-> None,
   seen |-> {}, seed |-> None]
JobIdle ==
  [pc |-> "idle", parent |-> None, base |-> None, content |-> None,
   version |-> 0, project |-> None]

\* A planned package, or an import: POST /packages does not run the validator.
Init ==
  /\ \E c \in Contents :
       pkg = [p \in Projects |->
                IF p = Film THEN [content |-> c, take |-> None, version |-> 1, parent |-> None]
                ELSE None]
  /\ index = {Film}
  /\ approved = {}
  /\ made = [p \in Projects |-> None]
  /\ filmLock = None
  /\ saver = [s \in Savers |-> SaverIdle]
  /\ approver = [a \in Approvers |-> ApproverIdle]
  /\ job = [j \in Jobs |-> JobIdle]
  /\ started = 0

-----------------------------------------------------------------------------
(* update_package: three awaits, and no WATCH around them. *)

\* is_package_approved; the body is the caller's edit of what it had loaded.
SaveStart(s, p, c) ==
  /\ saver[s].pc = "idle"
  /\ p \in index \ approved
  /\ saver' = [saver EXCEPT ![s] =
                 [pc |-> "read", project |-> p, package |-> [pkg[p] EXCEPT !.content = c]]]
  /\ UNCHANGED <<store, filmLock, approver, job, started>>

\* Mutant: the lineage of the body is dropped and the stored one not put in its place.
BodyWithoutLineage(s) == [saver[s].package EXCEPT !.version = 1, !.parent = None]

\* The lineage is server-owned: the body's gives way to the stored one.
BodyWithLineage(s) ==
  [saver[s].package EXCEPT !.version = pkg[saver[s].project].version,
                           !.parent = pkg[saver[s].project].parent]

\* get_package for the stored lineage, and the validator.
SaveRead(s) ==
  /\ saver[s].pc = "read"
  /\ saver' = [saver EXCEPT ![s] =
                 IF saver[s].package.content \in ValidContents
                 THEN [pc |-> "write", project |-> saver[s].project,
                       package |-> BodyWithLineage(s)]
                 ELSE SaverIdle]
  /\ UNCHANGED <<store, filmLock, approver, job, started>>

\* save_package without owner: an unconditional SET.
SaveWrite(s) ==
  /\ saver[s].pc = "write"
  /\ pkg' = [pkg EXCEPT ![saver[s].project] = saver[s].package]
  /\ saver' = [saver EXCEPT ![s] = SaverIdle]
  /\ UNCHANGED <<index, approved, made, filmLock, approver, job, started>>

-----------------------------------------------------------------------------
(* approve, and the transaction of approve_and_seed. *)

\* is_package_approved; the caller owns the project, so it exists.
ApproveStart(a, p, rerender) ==
  /\ approver[a].pc = "idle"
  /\ p \in index \ approved
  /\ approver' = [approver EXCEPT ![a] = [ApproverIdle EXCEPT !.pc = "read", !.project = p,
                                                              !.rerender = rerender]]
  /\ UNCHANGED <<store, filmLock, saver, job, started>>

\* Mutant: a draft was validated when it was saved, so approving it does not.
ApproveReadTrusts(a) ==
  /\ approver[a].pc = "read"
  /\ approver' = [approver EXCEPT ![a].pc = "match", ![a].raw = pkg[approver[a].project]]
  /\ UNCHANGED <<store, filmLock, saver, job, started>>

\* get_package_raw and the validator.
ApproveRead(a) ==
  LET p == approver[a].project IN
  /\ approver[a].pc = "read"
  /\ approver' = IF pkg[p].content \in ValidContents
                 THEN [approver EXCEPT ![a].pc = "match", ![a].raw = pkg[p]]
                 ELSE [approver EXCEPT ![a] = ApproverIdle]
  /\ UNCHANGED <<store, filmLock, saver, job, started>>

\* The spec as it will be approved: a node to render again gets a fresh take.
Retaken(a) ==
  IF approver[a].rerender
  THEN [approver[a].raw EXCEPT !.take = approver[a].project]
  ELSE approver[a].raw

\* The assets another version of the film has for this very spec.  The first version
\* has no lineage to search; a source is recognised by its spec, not by its assets.
Sources(p, package) ==
  {q \in index \ {p} : p # Film /\ made[q] # None /\ Fingerprint(pkg[q]) = Fingerprint(package)}

Unchanged(a) ==
  pkg[approver[a].project] = approver[a].raw /\ approver[a].project \notin approved

\* WATCH, the checks, and the search for sources, which reads the other versions.
ApproveMatch(a) ==
  /\ approver[a].pc = "match"
  /\ IF Unchanged(a)
     THEN \E seed \in IF Sources(approver[a].project, Retaken(a)) = {} THEN {None}
                      ELSE {made[q] : q \in Sources(approver[a].project, Retaken(a))} :
            approver' = [approver EXCEPT ![a].pc = "commit", ![a].seen = approved,
                                         ![a].seed = seed]
     ELSE approver' = [approver EXCEPT ![a] = ApproverIdle]
  /\ UNCHANGED <<store, filmLock, saver, job, started>>

\* What EXEC writes: takes, seeded node hashes and the approval, at once.
Approve(a) ==
  LET p == approver[a].project IN
  /\ pkg' = IF approver[a].rerender THEN [pkg EXCEPT ![p] = Retaken(a)] ELSE pkg
  /\ made' = IF approver[a].seed = None THEN made ELSE [made EXCEPT ![p] = approver[a].seed]
  /\ approved' = approved \cup {p}
  /\ approver' = [approver EXCEPT ![a] = ApproverIdle]

\* Mutant: nothing is watched.
ApproveCommitBlind(a) ==
  /\ approver[a].pc = "commit"
  /\ Approve(a)
  /\ UNCHANGED <<index, filmLock, saver, job, started>>

\* Mutant: only a changed spec sends it back to WATCH; else EXEC is tried again as it is.
ApproveCommitStale(a) ==
  /\ approver[a].pc = "commit"
  /\ IF Unchanged(a) /\ approved = approver[a].seen
     THEN Approve(a)
     ELSE /\ approver' = IF Unchanged(a) THEN approver ELSE [approver EXCEPT ![a].pc = "match"]
          /\ UNCHANGED <<pkg, approved, made>>
  /\ UNCHANGED <<index, filmLock, saver, job, started>>

\* EXEC fails if the spec or the approved set, of whatever project, was written since.
ApproveCommit(a) ==
  /\ approver[a].pc = "commit"
  /\ IF Unchanged(a) /\ approved = approver[a].seen
     THEN Approve(a)
     ELSE /\ approver' = [approver EXCEPT ![a].pc = "match"]
          /\ UNCHANGED <<pkg, approved, made>>
  /\ UNCHANGED <<index, filmLock, saver, job, started>>

\* The run of an approved version (RenderRun), seen as one step.
Rendered(p) ==
  /\ p \in approved
  /\ made[p] = None
  /\ made' = [made EXCEPT ![p] = Fingerprint(pkg[p])]
  /\ UNCHANGED <<pkg, index, approved, filmLock, saver, approver, job, started>>

-----------------------------------------------------------------------------
(* create_revision and its job, up to persist_revision. *)

\* The parent is read once; the editor had loaded this very version (base_hash).
ReviseStart(j, p) ==
  /\ job[j].pc = "idle"
  /\ p \in index
  /\ started < MaxRevisions
  /\ started' = started + 1
  /\ job' = [job EXCEPT ![j] = [JobIdle EXCEPT !.pc = "plan", !.parent = p, !.base = pkg[p]]]
  /\ UNCHANGED <<store, filmLock, saver, approver>>

\* run_revision and the validator; the takes of what is carried over stay.
RevisePlan(j, c) ==
  /\ job[j].pc = "plan"
  /\ c \in ValidContents
  /\ job' = [job EXCEPT ![j].pc = "wait", ![j].content = c]
  /\ UNCHANGED <<store, filmLock, saver, approver, started>>

\* Mutant: no lock per film.
ReviseAcquireFreely(j) ==
  /\ job[j].pc = "wait"
  /\ filmLock' = j
  /\ job' = [job EXCEPT ![j].pc = "check"]
  /\ UNCHANGED <<store, saver, approver, started>>

ReviseAcquire(j) ==
  /\ job[j].pc = "wait"
  /\ filmLock = None
  /\ filmLock' = j
  /\ job' = [job EXCEPT ![j].pc = "check"]
  /\ UNCHANGED <<store, saver, approver, started>>

\* Mutant: every revision is a new version.
ReviseCheckSkipped(j) ==
  /\ job[j].pc = "check"
  /\ job' = [job EXCEPT ![j].pc = "number"]
  /\ UNCHANGED <<store, filmLock, saver, approver, started>>

ReviseCheck(j) ==
  /\ job[j].pc = "check"
  /\ job' = [job EXCEPT ![j].pc = IF job[j].parent \in approved THEN "number" ELSE "replace"]
  /\ UNCHANGED <<store, filmLock, saver, approver, started>>

\* The result under the parent's identity: its lineage is the one read at the start.
Draft(j) == [job[j].base EXCEPT !.content = job[j].content]

\* Mutant: the set of approved projects is not looked at again.
ReviseReplaceBlind(j) ==
  /\ job[j].pc = "replace"
  /\ pkg' = [pkg EXCEPT ![job[j].parent] = Draft(j)]
  /\ job' = [job EXCEPT ![j] = JobIdle]
  /\ filmLock' = None
  /\ UNCHANGED <<index, approved, made, saver, approver, started>>

\* Mutant: the early return leaves the lock taken.
ReviseReplaceKeepsLock(j) ==
  /\ job[j].pc = "replace"
  /\ IF job[j].parent \in approved
     THEN /\ job' = [job EXCEPT ![j].pc = "number"]
          /\ UNCHANGED pkg
     ELSE /\ pkg' = [pkg EXCEPT ![job[j].parent] = Draft(j)]
          /\ job' = [job EXCEPT ![j] = JobIdle]
  /\ UNCHANGED <<index, approved, made, filmLock, saver, approver, started>>

\* replace_package_if_unapproved: WATCH makes the check and the SET one step.
ReviseReplace(j) ==
  /\ job[j].pc = "replace"
  /\ IF job[j].parent \in approved
     THEN /\ job' = [job EXCEPT ![j].pc = "number"]
          /\ UNCHANGED <<pkg, filmLock>>
     ELSE /\ pkg' = [pkg EXCEPT ![job[j].parent] = Draft(j)]
          /\ job' = [job EXCEPT ![j] = JobIdle]
          /\ filmLock' = None
  /\ UNCHANGED <<index, approved, made, saver, approver, started>>

\* _next_version: one more than the highest version of the film the user has.
ReviseNumber(j) ==
  /\ job[j].pc = "number"
  /\ \E highest \in {pkg[p].version : p \in index} :
       /\ \A p \in index : pkg[p].version <= highest
       /\ job' = [job EXCEPT ![j].pc = "save", ![j].version = highest + 1]
  /\ UNCHANGED <<store, filmLock, saver, approver, started>>

\* save_package under a fresh id: the spec first ...
ReviseSave(j, p) ==
  /\ job[j].pc = "save"
  /\ pkg[p] = None
  /\ pkg' = [pkg EXCEPT ![p] = [content |-> job[j].content, take |-> job[j].base.take,
                                version |-> job[j].version, parent |-> job[j].parent]]
  /\ job' = [job EXCEPT ![j].pc = "index", ![j].project = p]
  /\ UNCHANGED <<index, approved, made, filmLock, saver, approver, started>>

\* ... then the user's set, which is what makes the version visible.
ReviseIndex(j) ==
  /\ job[j].pc = "index"
  /\ index' = index \cup {job[j].project}
  /\ job' = [job EXCEPT ![j] = JobIdle]
  /\ filmLock' = None
  /\ UNCHANGED <<pkg, approved, made, saver, approver, started>>

\* The model, the validator or Redis fails, or the planning process stops: the job is
\* gone, its lock free, and a spec it has saved but not indexed stays behind.
ReviseFails(j) ==
  /\ job[j].pc # "idle"
  /\ job' = [job EXCEPT ![j] = JobIdle]
  /\ filmLock' = IF filmLock = j THEN None ELSE filmLock
  /\ UNCHANGED <<store, saver, approver, started>>

-----------------------------------------------------------------------------
SaverStep(s) ==
  \/ \E p \in Projects, c \in Contents : SaveStart(s, p, c)
  \/ SaveRead(s) \/ SaveWrite(s)

ApproverStep(a) ==
  \/ \E p \in Projects, rerender \in BOOLEAN : ApproveStart(a, p, rerender)
  \/ ApproveRead(a) \/ ApproveMatch(a) \/ ApproveCommit(a)

JobRuns(j) ==
  \/ \E c \in Contents : RevisePlan(j, c)
  \/ ReviseAcquire(j) \/ ReviseCheck(j) \/ ReviseReplace(j) \/ ReviseNumber(j)
  \/ \E p \in Projects : ReviseSave(j, p)
  \/ ReviseIndex(j)

JobStep(j) == (\E p \in Projects : ReviseStart(j, p)) \/ JobRuns(j) \/ ReviseFails(j)

Next ==
  \/ \E s \in Savers : SaverStep(s)
  \/ \E a \in Approvers : ApproverStep(a)
  \/ \E j \in Jobs : JobStep(j)
  \/ \E p \in Projects : Rendered(p)

Spec == Init /\ [][Next]_vars

\* A request once accepted and a job once started run on; an asyncio lock wakes its
\* waiters in the order they came, so a job is not passed over for ever.  No job fails
\* to let another one pass.
Fairness ==
  /\ \A s \in Savers : WF_vars(saver[s].pc # "idle" /\ SaverStep(s))
  /\ \A a \in Approvers : WF_vars(approver[a].pc # "idle" /\ ApproverStep(a))
  /\ \A j \in Jobs : SF_vars(JobRuns(j))

FairSpec == Spec /\ Fairness

-----------------------------------------------------------------------------
(* Properties. *)

SaverType ==
  [pc : {"idle", "read", "write"}, project : Projects \cup {None},
   package : Packages \cup {None}]
ApproverType ==
  [pc : {"idle", "read", "match", "commit"}, project : Projects \cup {None},
   rerender : BOOLEAN, raw : Packages \cup {None}, seen : SUBSET Projects,
   seed : Fingerprints \cup {None}]
JobType ==
  [pc : {"idle", "plan", "wait", "check", "replace", "number", "save", "index"},
   parent : Projects \cup {None}, base : Packages \cup {None},
   content : Contents \cup {None}, version : Nat, project : Projects \cup {None}]

\* Every variable keeps the shape of the Redis key or the local it stands for, and what
\* is indexed, approved or worked on exists.
TypeOK ==
  /\ pkg \in [Projects -> Packages \cup {None}]
  /\ index \in SUBSET Projects
  /\ \A p \in index : pkg[p] \in Packages
  /\ approved \in SUBSET index
  /\ made \in [Projects -> Fingerprints \cup {None}]
  /\ filmLock \in Jobs \cup {None}
  /\ saver \in [Savers -> SaverType]
  /\ \A s \in Savers : saver[s].pc # "idle" =>
       saver[s].project \in index /\ saver[s].package \in Packages
  /\ approver \in [Approvers -> ApproverType]
  /\ \A a \in Approvers :
       /\ approver[a].pc # "idle" => approver[a].project \in index
       /\ approver[a].pc \in {"match", "commit"} => approver[a].raw \in Packages
  /\ job \in [Jobs -> JobType]
  /\ \A j \in Jobs :
       /\ job[j].pc # "idle" => job[j].parent \in index /\ job[j].base \in Packages
       /\ job[j].pc \notin {"idle", "plan"} => job[j].content \in Contents
       /\ job[j].pc = "index" => job[j].project \in Projects /\ pkg[job[j].project] \in Packages
  /\ started \in Nat

\* planning/main.py:273: version numbers are allocated under a per-film lock.  No two
\* versions a user sees have the same number, whichever revisions ran at once, failed
\* half way or turned from an update of a draft into a new version.
VersionsUnique ==
  \A p, q \in index : p # q => pkg[p].version # pkg[q].version

\* persist_revision: an unapproved draft is updated in place, only an approved version
\* gets a successor, and the successor's number is higher than its parent's.
SuccessorsOfApproved ==
  \A p \in index \ {Film} :
    /\ pkg[p].parent \in approved
    /\ pkg[pkg[p].parent].version < pkg[p].version

\* The lineage is the server's: whatever a PUT carries and however stale the parent a
\* revision goes back to, the version and the parent of a package never change.
LineageIsStable ==
  [][\A p \in Projects : pkg[p] # None =>
       pkg'[p].version = pkg[p].version /\ pkg'[p].parent = pkg[p].parent]_vars

\* Only a spec the validator accepts is ever rendered, although POST /packages stores
\* any and approve lets other requests write between its check and its commit.
ApprovedIsValid ==
  \A p \in approved : pkg[p].content \in ValidContents

\* store.py:302 and main.py:234: an approved spec is immutable.  Checked without
\* concurrent PUTs; with one it fails (scheduler/main.py:236 calls the check a PUT makes
\* race-free).
ApprovedIsImmutable ==
  [][\A p \in approved : pkg'[p] = pkg[p]]_vars

\* What the nodes of an approved version show is what its spec says, whether rendered
\* or seeded from another version, whose assets are found by that version's spec.
AssetsMatchSpec ==
  \A p \in Projects : made[p] # None => made[p] = Fingerprint(pkg[p])

\* An approve is answered: a revision or an approval of the same version ends its loop, an
\* approval of another one sends it round again, and not for ever.  Checked without concurrent
\* PUTs: a draft saved back and forth without end could prolong the loop as long.
ApproveAnswers ==
  \A a \in Approvers : approver[a].pc # "idle" ~> approver[a].pc = "idle"

\* A revision lands: the lock of the film is always passed on.
RevisionLands ==
  \A j \in Jobs : job[j].pc # "idle" ~> job[j].pc = "idle"
=============================================================================
