-------------------------- MODULE Checkpoint_proofs --------------------------
(***************************************************************************)
(* Theorems about Checkpoint, for any number of versions, callers, jobs    *)
(* and contents.                                                           *)
(***************************************************************************)
EXTENDS Checkpoint, TLAPS

USE DEF store

-----------------------------------------------------------------------------
(* Type correctness. *)

\* Who has nothing to do is well typed.
LEMMA IdleTypes ==
  /\ ApproverIdle \in ApproverType /\ ApproverIdle.pc = "idle"
  /\ JobIdle \in JobType /\ JobIdle.pc = "idle"
  BY DEF ApproverIdle, ApproverType, JobIdle, JobType

\* What an approval reads and finds keeps its own type.
LEMMA ReadTypes ==
  ASSUME NEW x \in ApproverType, NEW raw \in Packages
  PROVE  LET r == [x EXCEPT !.pc = "match", !.raw = raw] IN
         r \in ApproverType /\ r.project = x.project /\ r.raw = raw
  BY DEF ApproverType

\* The same of what it matches.
LEMMA MatchTypes ==
  ASSUME NEW x \in ApproverType, NEW seen \in SUBSET Projects,
         NEW seed \in Fingerprints \cup {None}
  PROVE  LET r == [x EXCEPT !.pc = "commit", !.seen = seen, !.seed = seed] IN
         r \in ApproverType /\ r.project = x.project /\ r.raw = x.raw
  BY DEF ApproverType

\* So do the number and the id of a new version.
LEMMA NumberTypes ==
  ASSUME NEW x \in JobType
  PROVE  /\ \A n \in Nat : [x EXCEPT !.pc = "save", !.version = n] \in JobType
         /\ \A p \in Projects : [x EXCEPT !.pc = "index", !.project = p] \in JobType
<1>1. ASSUME NEW n \in Nat PROVE [x EXCEPT !.pc = "save", !.version = n] \in JobType
  BY DEF JobType
<1>2. ASSUME NEW p \in Projects PROVE [x EXCEPT !.pc = "index", !.project = p] \in JobType
  BY DEF JobType
<1> QED
  BY <1>1, <1>2

\* An approval that only moves on keeps the types.
LEMMA ApproverMoves ==
  ASSUME TypeOK, NEW a \in Approvers, NEW r \in ApproverType,
         approver' = [approver EXCEPT ![a] = r],
         r.pc # "idle" => r.project \in index,
         r.pc \in {"match", "commit"} => r.raw \in Packages,
         UNCHANGED <<store, filmLock, saver, job, started>>
  PROVE  TypeOK'
  BY DEF TypeOK

\* A revision that only moves on, taking or freeing the lock, keeps the types.
LEMMA JobMoves ==
  ASSUME TypeOK, NEW j \in Jobs, NEW r \in JobType,
         job' = [job EXCEPT ![j] = r],
         r.pc # "idle" => r.parent \in index /\ r.base \in Packages,
         r.pc \notin {"idle", "plan"} => r.content \in Contents,
         r.pc # "index",
         filmLock' \in Jobs \cup {None}, started' \in Nat,
         UNCHANGED <<store, saver, approver>>
  PROVE  TypeOK'
  BY DEF TypeOK

\* A film begins well typed.
LEMMA TypeInit == Init => TypeOK
<1> SUFFICES ASSUME Init PROVE TypeOK
  OBVIOUS
<1>1. pkg \in [Projects -> Packages \cup {None}] /\ pkg[Film] \in Packages
  BY CheckpointAssumption DEF Init, Packages
<1>2. /\ saver \in [Savers -> SaverType] /\ approver \in [Approvers -> ApproverType]
      /\ job \in [Jobs -> JobType]
  BY DEF Init, SaverIdle, SaverType, ApproverIdle, ApproverType, JobIdle, JobType
<1>3. /\ \A s \in Savers : saver[s].pc = "idle"
      /\ \A a \in Approvers : approver[a].pc = "idle"
      /\ \A j \in Jobs : job[j].pc = "idle"
  BY DEF Init, SaverIdle, ApproverIdle, JobIdle
<1> QED
  BY <1>1, <1>2, <1>3, CheckpointAssumption DEF Init, TypeOK

\* A PUT keeps the types.
LEMMA TypeSaver == ASSUME TypeOK, NEW s \in Savers, SaverStep(s) PROVE TypeOK'
<1> USE CheckpointAssumption DEF TypeOK
<1>1. ASSUME NEW p \in Projects, NEW c \in Contents, SaveStart(s, p, c) PROVE TypeOK'
  <2>1. [pkg[p] EXCEPT !.content = c] \in Packages
    BY <1>1 DEF SaveStart, Packages
  <2> QED
    BY <1>1, <2>1 DEF SaveStart, SaverType
<1>2. CASE SaveRead(s)
  <2>1. saver[s].package \in Packages /\ pkg[saver[s].project] \in Packages
    BY <1>2 DEF SaveRead
  <2>2. BodyWithLineage(s) \in Packages
    BY <2>1 DEF BodyWithLineage, Packages
  <2> QED
    BY <1>2, <2>2 DEF SaveRead, SaverIdle, SaverType
<1>3. CASE SaveWrite(s)
  <2>1. saver[s].package \in Packages /\ saver[s].project \in index
    BY <1>3 DEF SaveWrite
  <2>2. \A p \in Projects : pkg'[p] \in {pkg[p], saver[s].package}
    BY <1>3 DEF SaveWrite
  <2>3. saver' \in [Savers -> SaverType] /\ \A t \in Savers : t # s => saver'[t] = saver[t]
    BY <1>3 DEF SaveWrite, SaverIdle, SaverType
  <2>4. saver'[s].pc = "idle"
    BY <1>3 DEF SaveWrite, SaverIdle
  <2> QED
    BY <1>3, <2>1, <2>2, <2>3, <2>4 DEF SaveWrite
<1> QED
  BY <1>1, <1>2, <1>3 DEF SaverStep

\* An approval keeps the types.
LEMMA TypeApprover == ASSUME TypeOK, NEW a \in Approvers, ApproverStep(a) PROVE TypeOK'
<1> USE CheckpointAssumption DEF TypeOK
<1>1. ASSUME NEW p \in Projects, NEW rerender \in BOOLEAN, ApproveStart(a, p, rerender)
      PROVE  TypeOK'
  BY <1>1 DEF ApproveStart, ApproverIdle, ApproverType
<1>2. CASE ApproveRead(a)
  <2>1. CASE approver' = [approver EXCEPT ![a] = ApproverIdle]
    BY <1>2, <2>1, IdleTypes, ApproverMoves DEF ApproveRead
  <2>2. CASE approver' = [approver EXCEPT ![a].pc = "match", ![a].raw = pkg[approver[a].project]]
    <3> DEFINE r == [approver[a] EXCEPT !.pc = "match", !.raw = pkg[approver[a].project]]
    <3>1. approver[a].project \in index /\ pkg[approver[a].project] \in Packages
      BY <1>2 DEF ApproveRead
    <3>2. r \in ApproverType /\ r.project = approver[a].project /\ r.raw \in Packages
      BY <3>1, ReadTypes
    <3>3. approver' = [approver EXCEPT ![a] = r]
      BY <2>2
    <3> HIDE DEF r
    <3> QED
      BY <1>2, <3>1, <3>2, <3>3, ApproverMoves DEF ApproveRead
  <2> QED
    BY <1>2, <2>1, <2>2 DEF ApproveRead
<1>3. CASE ApproveMatch(a)
  <2>1. CASE Unchanged(a)
    <3>1. PICK seed \in Fingerprints \cup {None} :
            approver' = [approver EXCEPT ![a].pc = "commit", ![a].seen = approved,
                                         ![a].seed = seed]
      BY <1>3, <2>1 DEF ApproveMatch, Sources
    <3> DEFINE r == [approver[a] EXCEPT !.pc = "commit", !.seen = approved, !.seed = seed]
    <3>2. approver[a].project \in index /\ approver[a].raw \in Packages
      BY <1>3 DEF ApproveMatch
    <3>3. r \in ApproverType /\ r.project = approver[a].project /\ r.raw = approver[a].raw
      <4>1. approver[a] \in ApproverType /\ approved \in SUBSET Projects
        OBVIOUS
      <4> HIDE DEF TypeOK
      <4> QED
        BY <4>1, MatchTypes
    <3>4. approver' = [approver EXCEPT ![a] = r]
      BY <3>1
    <3> HIDE DEF r
    <3> QED
      BY <1>3, <3>2, <3>3, <3>4, ApproverMoves DEF ApproveMatch
  <2>2. CASE ~Unchanged(a)
    BY <1>3, <2>2, IdleTypes, ApproverMoves DEF ApproveMatch
  <2> QED
    BY <2>1, <2>2
<1>4. CASE ApproveCommit(a)
  <2>1. CASE Approve(a)
    <3>1. approver[a].project \in index /\ approver[a].raw \in Packages
      BY <1>4 DEF ApproveCommit
    <3>2. Retaken(a) \in Packages
      BY <3>1 DEF Retaken, Packages
    <3>3. /\ pkg' \in [Projects -> Packages \cup {None}]
          /\ \A p \in Projects : pkg[p] \in Packages => pkg'[p] \in Packages
      BY <2>1, <3>1, <3>2 DEF Approve
    <3>4. approver[a].seed \in Fingerprints \cup {None}
      BY DEF ApproverType
    <3>5. made' \in [Projects -> Fingerprints \cup {None}]
      BY <2>1, <3>4 DEF Approve
    <3>6. approved' \in SUBSET index
      BY <2>1, <3>1 DEF Approve
    <3>7. approver' \in [Approvers -> ApproverType]
      BY <2>1 DEF Approve, ApproverIdle, ApproverType
    <3>8. \A b \in Approvers : approver'[b] = approver[b] \/ approver'[b].pc = "idle"
      BY <2>1 DEF Approve, ApproverIdle
    <3> QED
      BY <1>4, <3>3, <3>5, <3>6, <3>7, <3>8 DEF ApproveCommit
  <2>2. CASE approver' = [approver EXCEPT ![a].pc = "match"] /\ UNCHANGED <<pkg, approved, made>>
    <3> DEFINE r == [approver[a] EXCEPT !.pc = "match"]
    <3>1. approver[a].project \in index /\ approver[a].raw \in Packages
      BY <1>4 DEF ApproveCommit
    <3>2. r \in ApproverType /\ r.project = approver[a].project /\ r.raw = approver[a].raw
      BY DEF ApproverType
    <3>3. approver' = [approver EXCEPT ![a] = r]
      BY <2>2
    <3> HIDE DEF r
    <3> QED
      BY <1>4, <2>2, <3>1, <3>2, <3>3, ApproverMoves DEF ApproveCommit
  <2> QED
    BY <1>4, <2>1, <2>2 DEF ApproveCommit
<1> QED
  BY <1>1, <1>2, <1>3, <1>4 DEF ApproverStep

\* A revision keeps the types.
LEMMA TypeJob == ASSUME TypeOK, NEW j \in Jobs, JobStep(j) PROVE TypeOK'
<1> USE CheckpointAssumption DEF TypeOK
<1>1. ASSUME NEW p \in Projects, ReviseStart(j, p) PROVE TypeOK'
  <2>1. [JobIdle EXCEPT !.pc = "plan", !.parent = p, !.base = pkg[p]] \in JobType
    BY <1>1 DEF ReviseStart, JobIdle, JobType
  <2>2. /\ job' \in [Jobs -> JobType] /\ job'[j].pc = "plan"
        /\ job'[j].parent \in index /\ job'[j].base \in Packages
        /\ \A k \in Jobs : k # j => job'[k] = job[k]
    BY <1>1, <2>1 DEF ReviseStart, JobIdle
  <2> QED
    BY <1>1, <2>2 DEF ReviseStart
<1>2. ASSUME NEW c \in Contents, RevisePlan(j, c) PROVE TypeOK'
  <2> DEFINE r == [job[j] EXCEPT !.pc = "wait", !.content = c]
  <2>1. job[j].parent \in index /\ job[j].base \in Packages /\ job[j] \in JobType
    BY <1>2 DEF RevisePlan
  <2>2. r \in JobType
    BY <2>1 DEF JobType
  <2>3. /\ r.parent = job[j].parent /\ r.base = job[j].base /\ r.content = c
        /\ r.pc = "wait"
    BY <2>1 DEF JobType
  <2>4. job' = [job EXCEPT ![j] = r]
    BY <1>2 DEF RevisePlan
  <2> HIDE DEF r
  <2> QED
    BY <1>2, <2>1, <2>2, <2>3, <2>4, JobMoves DEF RevisePlan
<1>3. CASE ReviseAcquire(j) \/ ReviseCheck(j)
  BY <1>3 DEF ReviseAcquire, ReviseCheck, JobType
<1>4. CASE ReviseReplace(j)
  <2>1. CASE job[j].parent \in approved
    BY <1>4, <2>1 DEF ReviseReplace, JobType
  <2>2. CASE job[j].parent \notin approved
    <3>1. Draft(j) \in Packages
      BY <1>4 DEF ReviseReplace, Draft, Packages
    <3>2. /\ pkg' \in [Projects -> Packages \cup {None}]
          /\ \A p \in Projects : pkg[p] \in Packages => pkg'[p] \in Packages
      BY <1>4, <2>2, <3>1 DEF ReviseReplace
    <3>3. job' \in [Jobs -> JobType]
      BY <1>4, <2>2 DEF ReviseReplace, JobIdle, JobType
    <3>4. \A k \in Jobs : job'[k] = job[k] \/ job'[k].pc = "idle"
      BY <1>4, <2>2 DEF ReviseReplace, JobIdle
    <3> QED
      BY <1>4, <2>2, <3>2, <3>3, <3>4 DEF ReviseReplace
  <2> QED
    BY <2>1, <2>2
<1>5. CASE ReviseNumber(j)
  <2>1. PICK highest \in Nat : job' = [job EXCEPT ![j].pc = "save", ![j].version = highest + 1]
    <3>1. PICK p \in index :
            job' = [job EXCEPT ![j].pc = "save", ![j].version = pkg[p].version + 1]
      BY <1>5 DEF ReviseNumber
    <3>2. pkg[p].version \in Nat
      BY DEF Packages
    <3> QED
      BY <3>1, <3>2
  <2> DEFINE r == [job[j] EXCEPT !.pc = "save", !.version = highest + 1]
  <2>2. /\ job[j].parent \in index /\ job[j].base \in Packages /\ job[j] \in JobType
        /\ job[j].content \in Contents
    BY <1>5 DEF ReviseNumber
  <2>3. r \in JobType
    <3>1. highest + 1 \in Nat
      OBVIOUS
    <3> DEFINE n == highest + 1
    <3> HIDE DEF n
    <3>2. [job[j] EXCEPT !.pc = "save", !.version = n] \in JobType
      BY <3>1, <2>2, NumberTypes DEF n
    <3> QED
      BY <3>2 DEF n
  <2>4. /\ r.parent = job[j].parent /\ r.base = job[j].base /\ r.content = job[j].content
        /\ r.pc = "save"
    BY <2>2 DEF JobType
  <2>5. job' = [job EXCEPT ![j] = r]
    BY <2>1
  <2> HIDE DEF r
  <2> QED
    BY <1>5, <2>2, <2>3, <2>4, <2>5, JobMoves DEF ReviseNumber
<1>6. ASSUME NEW p \in Projects, ReviseSave(j, p) PROVE TypeOK'
  <2>1. [content |-> job[j].content, take |-> job[j].base.take,
         version |-> job[j].version, parent |-> job[j].parent] \in Packages
    BY <1>6 DEF ReviseSave, Packages, JobType
  <2>2. /\ pkg' \in [Projects -> Packages \cup {None}] /\ pkg'[p] \in Packages
        /\ \A q \in Projects : pkg[q] \in Packages => pkg'[q] \in Packages
    BY <1>6, <2>1 DEF ReviseSave
  <2>3. job' = [job EXCEPT ![j].pc = "index", ![j].project = p]
    BY <1>6 DEF ReviseSave
  <2>4. job' \in [Jobs -> JobType]
    <3>1. job' = [job EXCEPT ![j] = [job[j] EXCEPT !.pc = "index", !.project = p]]
      BY <2>3
    <3>2. [job[j] EXCEPT !.pc = "index", !.project = p] \in JobType
      BY NumberTypes
    <3> QED
      BY <3>1, <3>2
  <2>5. /\ job'[j].pc = "index" /\ job'[j].project = p /\ job'[j].content = job[j].content
        /\ job'[j].parent = job[j].parent /\ job'[j].base = job[j].base
        /\ \A k \in Jobs : k # j => job'[k] = job[k]
    BY <2>3 DEF JobType
  <2>6. pkg[p] \notin Packages /\ index' = index /\ approved' = approved
    BY <1>6 DEF ReviseSave
  <2>7. \A k \in Jobs : job'[k].pc = "index" =>
          job'[k].project \in Projects /\ pkg'[job'[k].project] \in Packages
    BY <2>2, <2>5
  <2> QED
    BY <1>6, <2>2, <2>4, <2>5, <2>6, <2>7 DEF ReviseSave
<1>7. CASE ReviseIndex(j)
  BY <1>7 DEF ReviseIndex, JobIdle, JobType
<1>8. CASE ReviseFails(j)
  BY <1>8 DEF ReviseFails, JobIdle, JobType
<1> QED
  BY <1>1, <1>2, <1>3, <1>4, <1>5, <1>6, <1>7, <1>8 DEF JobStep, JobRuns

\* Every step keeps the types.
LEMMA TypeStep == ASSUME TypeOK, [Next]_vars PROVE TypeOK'
<1>1. ASSUME NEW p \in Projects, Rendered(p) PROVE TypeOK'
  <2>1. Fingerprint(pkg[p]) \in Fingerprints
    BY <1>1 DEF Rendered, TypeOK, Fingerprint, Fingerprints, Packages
  <2> QED
    BY <1>1, <2>1 DEF Rendered, TypeOK
<1>2. CASE UNCHANGED vars
  BY <1>2 DEF vars, TypeOK
<1> QED
  BY <1>1, <1>2, TypeSaver, TypeApprover, TypeJob DEF Next

\* Every reachable state of a film's versions is well typed.
THEOREM TypeCorrect == Spec => []TypeOK
  BY TypeInit, TypeStep, PTL DEF Spec

-----------------------------------------------------------------------------
(* The versions of a film: an invariant that is inductive together with     *)
(* TypeOK, and the properties it carries.                                   *)

SameLineage(x, y) == x.version = y.version /\ x.parent = y.parent

\* What a PUT is about to write is valid and has the stored lineage.
SaverSound(s) ==
  saver[s].pc = "write" =>
    /\ saver[s].package.content \in ValidContents
    /\ SameLineage(saver[s].package, pkg[saver[s].project])

\* What an approval has read is valid.
ApproverSound(a) ==
  approver[a].pc \in {"match", "commit"} => approver[a].raw.content \in ValidContents

\* What a job knows of its parent stays true, and what it knows of the other versions
\* stays true because it holds the lock of the film.
JobSound(j) ==
  /\ job[j].pc # "idle" => SameLineage(job[j].base, pkg[job[j].parent])
  /\ job[j].pc \notin {"idle", "plan"} => job[j].content \in ValidContents
  /\ job[j].pc \notin {"idle", "plan", "wait"} => filmLock = j
  /\ job[j].pc \in {"number", "save", "index"} => job[j].parent \in approved
  /\ job[j].pc \in {"save", "index"} => \A p \in index : pkg[p].version < job[j].version
  /\ job[j].pc = "index" =>
       /\ job[j].project \notin index
       /\ SameLineage(pkg[job[j].project], job[j])

VersionsInv ==
  /\ TypeOK
  /\ Film \in index
  /\ \A s \in Savers : SaverSound(s)
  /\ \A a \in Approvers : ApproverSound(a)
  /\ \A j \in Jobs : JobSound(j)
  /\ VersionsUnique
  /\ SuccessorsOfApproved
  /\ ApprovedIsValid

\* A film begins so.
LEMMA VersionsInit == Init => VersionsInv
<1> SUFFICES ASSUME Init PROVE VersionsInv
  OBVIOUS
<1>1. /\ \A s \in Savers : saver[s].pc = "idle"
      /\ \A a \in Approvers : approver[a].pc = "idle"
      /\ \A j \in Jobs : job[j].pc = "idle"
  BY DEF Init, SaverIdle, ApproverIdle, JobIdle
<1>2. index = {Film} /\ approved = {}
  BY DEF Init
<1> QED
  BY <1>1, <1>2, TypeInit DEF VersionsInv, SaverSound, ApproverSound, JobSound, VersionsUnique,
     SuccessorsOfApproved, ApprovedIsValid

\* Whatever a step writes has the lineage of what was there.
LEMMA LineageKept ==
  ASSUME VersionsInv, [Next]_vars, NEW p \in Projects, pkg[p] # None
  PROVE  SameLineage(pkg'[p], pkg[p])
<1> USE CheckpointAssumption DEF VersionsInv, TypeOK, SameLineage
<1>1. ASSUME NEW s \in Savers, SaveWrite(s) PROVE SameLineage(pkg'[p], pkg[p])
  BY <1>1 DEF SaveWrite, SaverSound
<1>2. ASSUME NEW a \in Approvers, ApproveCommit(a) PROVE SameLineage(pkg'[p], pkg[p])
  <2>1. CASE Approve(a) /\ Unchanged(a)
    <3>1. approver[a].raw \in Packages /\ approver[a].raw = pkg[approver[a].project]
      BY <1>2, <2>1 DEF ApproveCommit, Unchanged
    <3>2. SameLineage(Retaken(a), approver[a].raw)
      BY <3>1 DEF Retaken, Packages
    <3> QED
      BY <2>1, <3>1, <3>2 DEF Approve
  <2> QED
    BY <1>2, <2>1 DEF ApproveCommit
<1>3. ASSUME NEW j \in Jobs, ReviseReplace(j) PROVE SameLineage(pkg'[p], pkg[p])
  <2>1. job[j].base \in Packages /\ SameLineage(job[j].base, pkg[job[j].parent])
    BY <1>3 DEF ReviseReplace, JobSound
  <2>2. SameLineage(Draft(j), job[j].base)
    BY <2>1 DEF Draft, Packages
  <2> QED
    BY <1>3, <2>1, <2>2 DEF ReviseReplace
<1>4. ASSUME NEW j \in Jobs, NEW q \in Projects, ReviseSave(j, q)
      PROVE  SameLineage(pkg'[p], pkg[p])
  BY <1>4 DEF ReviseSave
<1>5. CASE UNCHANGED pkg
  BY <1>5
<1> QED
  BY <1>1, <1>2, <1>3, <1>4, <1>5 DEF Next, SaverStep, SaveStart, SaveRead, ApproverStep,
     ApproveStart, ApproveRead, ApproveMatch, JobStep, JobRuns, ReviseStart, RevisePlan,
     ReviseAcquire, ReviseCheck, ReviseNumber, ReviseIndex, ReviseFails, Rendered, vars

\* Nothing is forgotten: packages, versions and approvals stay.
LEMMA NothingForgotten ==
  ASSUME VersionsInv, [Next]_vars
  PROVE  /\ approved \subseteq approved' /\ index \subseteq index'
         /\ \A p \in Projects : pkg[p] # None => pkg'[p] # None
<1>1. approved \subseteq approved' /\ index \subseteq index'
  BY DEF Next, SaverStep, SaveStart, SaveRead, SaveWrite, ApproverStep, Approve, ApproveCommit,
     ApproveStart, ApproveRead, ApproveMatch, JobStep, JobRuns, ReviseStart, RevisePlan,
     ReviseAcquire, ReviseCheck, ReviseReplace, ReviseNumber, ReviseSave, ReviseIndex,
     ReviseFails, Rendered, vars
<1> USE CheckpointAssumption DEF VersionsInv, TypeOK
<1>2. ASSUME NEW p \in Projects, pkg[p] # None PROVE pkg'[p] # None
  <2>1. ASSUME NEW s \in Savers, SaveWrite(s) PROVE pkg'[p] # None
    BY <1>2, <2>1 DEF SaveWrite
  <2>2. ASSUME NEW a \in Approvers, ApproveCommit(a) PROVE pkg'[p] # None
    <3>1. CASE Approve(a)
      <4>1. Retaken(a) \in Packages
        BY <2>2 DEF ApproveCommit, Retaken, Packages
      <4> QED
        BY <1>2, <3>1, <4>1 DEF Approve
    <3> QED
      BY <1>2, <2>2, <3>1 DEF ApproveCommit
  <2>3. ASSUME NEW j \in Jobs, ReviseReplace(j) PROVE pkg'[p] # None
    <3>1. Draft(j) \in Packages
      BY <2>3 DEF ReviseReplace, Draft, Packages
    <3> QED
      BY <1>2, <2>3, <3>1 DEF ReviseReplace
  <2>4. ASSUME NEW j \in Jobs, NEW q \in Projects, ReviseSave(j, q) PROVE pkg'[p] # None
    BY <1>2, <2>4 DEF ReviseSave
  <2>5. CASE UNCHANGED pkg
    BY <1>2, <2>5
  <2> QED
    BY <2>1, <2>2, <2>3, <2>4, <2>5 DEF Next, SaverStep, SaveStart, SaveRead, ApproverStep,
       ApproveStart, ApproveRead, ApproveMatch, JobStep, JobRuns, ReviseStart, RevisePlan,
       ReviseAcquire, ReviseCheck, ReviseNumber, ReviseIndex, ReviseFails, Rendered, vars
<1> QED
  BY <1>1, <1>2

\* A step is one caller's, one job's or nobody's.
LEMMA OneMoves ==
  ASSUME [Next]_vars
  PROVE  \/ \E s \in Savers : SaverStep(s) /\ UNCHANGED <<approver, job>>
         \/ \E a \in Approvers : ApproverStep(a) /\ UNCHANGED <<saver, job>>
         \/ \E j \in Jobs : JobStep(j) /\ UNCHANGED <<saver, approver>>
         \/ UNCHANGED <<saver, approver, job>>
<1>1. ASSUME NEW s \in Savers, SaverStep(s) PROVE UNCHANGED <<approver, job>>
  BY <1>1 DEF SaverStep, SaveStart, SaveRead, SaveWrite
<1>2. ASSUME NEW a \in Approvers, ApproverStep(a) PROVE UNCHANGED <<saver, job>>
  BY <1>2 DEF ApproverStep, ApproveStart, ApproveRead, ApproveMatch, ApproveCommit
<1>3. ASSUME NEW j \in Jobs, JobStep(j) PROVE UNCHANGED <<saver, approver>>
  BY <1>3 DEF JobStep, JobRuns, ReviseStart, RevisePlan, ReviseAcquire, ReviseCheck,
     ReviseReplace, ReviseNumber, ReviseSave, ReviseIndex, ReviseFails
<1> QED
  BY <1>1, <1>2, <1>3 DEF Next, Rendered, vars

\* What a PUT is about to write stays sound.
LEMMA SaverSoundStep ==
  ASSUME VersionsInv, [Next]_vars, NEW s \in Savers
  PROVE  SaverSound(s)'
<1> USE CheckpointAssumption DEF VersionsInv, TypeOK, SameLineage
<1>1. CASE saver'[s] = saver[s]
  <2>1. CASE saver[s].pc = "write"
    <3>1. pkg[saver[s].project] # None /\ saver[s].project \in Projects
      BY <2>1
    <3>2. SameLineage(pkg'[saver[s].project], pkg[saver[s].project])
      BY <3>1, LineageKept
    <3> QED
      BY <1>1, <2>1, <3>2 DEF SaverSound
  <2> QED
    BY <1>1, <2>1 DEF SaverSound
<1>2. CASE SaveRead(s)
  <2>1. saver[s].package \in Packages /\ pkg[saver[s].project] \in Packages
    BY <1>2 DEF SaveRead
  <2>2. /\ SameLineage(BodyWithLineage(s), pkg[saver[s].project])
        /\ BodyWithLineage(s).content = saver[s].package.content
    BY <2>1 DEF BodyWithLineage, Packages
  <2> QED
    BY <1>2, <2>2 DEF SaveRead, SaverSound, SaverIdle
<1>3. ASSUME NEW p \in Projects, NEW c \in Contents, SaveStart(s, p, c) PROVE SaverSound(s)'
  BY <1>3 DEF SaveStart, SaverSound
<1>4. CASE SaveWrite(s)
  BY <1>4 DEF SaveWrite, SaverSound, SaverIdle
<1>5. ASSUME NEW t \in Savers, t # s, SaverStep(t) PROVE saver'[s] = saver[s]
  BY <1>5 DEF SaverStep, SaveStart, SaveRead, SaveWrite
<1>6. CASE UNCHANGED saver
  BY <1>1, <1>6
<1> QED
  <2>1. CASE SaverStep(s)
    BY <2>1, <1>2, <1>3, <1>4 DEF SaverStep
  <2> QED
    BY <2>1, <1>1, <1>5, <1>6, OneMoves

\* What an approval has read stays valid.
LEMMA ApproverSoundStep ==
  ASSUME VersionsInv, [Next]_vars, NEW a \in Approvers
  PROVE  ApproverSound(a)'
<1> USE CheckpointAssumption DEF VersionsInv, TypeOK
<1>1. CASE approver'[a] = approver[a]
  BY <1>1 DEF ApproverSound
<1>2. ASSUME NEW p \in Projects, NEW rerender \in BOOLEAN, ApproveStart(a, p, rerender)
      PROVE  ApproverSound(a)'
  BY <1>2 DEF ApproveStart, ApproverIdle, ApproverSound
<1>3. CASE ApproveRead(a)
  BY <1>3 DEF ApproveRead, ApproverIdle, ApproverSound, ApproverType
<1>4. CASE ApproveMatch(a)
  <2>1. \/ approver'[a].pc = "idle"
        \/ approver'[a].raw = approver[a].raw
    BY <1>4 DEF ApproveMatch, ApproverIdle, ApproverType
  <2> QED
    BY <1>4, <2>1 DEF ApproveMatch, ApproverSound
<1>5. CASE ApproveCommit(a)
  <2>1. \/ approver'[a].pc = "idle"
        \/ approver'[a].raw = approver[a].raw
    BY <1>5 DEF ApproveCommit, Approve, ApproverIdle, ApproverType
  <2> QED
    BY <1>5, <2>1 DEF ApproveCommit, ApproverSound
<1>6. ASSUME NEW b \in Approvers, b # a, ApproverStep(b) PROVE approver'[a] = approver[a]
  BY <1>6 DEF ApproverStep, ApproveStart, ApproveRead, ApproveMatch, ApproveCommit, Approve
<1>7. CASE UNCHANGED approver
  BY <1>1, <1>7
<1> QED
  <2>1. CASE ApproverStep(a)
    BY <2>1, <1>2, <1>3, <1>4, <1>5 DEF ApproverStep
  <2> QED
    BY <2>1, <1>1, <1>6, <1>7, OneMoves

\* What another job knows outlives a step, for it either has no lock or keeps it.
LEMMA JobSoundStays ==
  ASSUME VersionsInv, [Next]_vars, NEW j \in Jobs, job'[j] = job[j],
         filmLock = j => filmLock' = j /\ index' = index
  PROVE  JobSound(j)'
<1> USE CheckpointAssumption DEF VersionsInv, TypeOK
<1>1. JobSound(j)
  OBVIOUS
<1>2. job[j].pc # "idle" => SameLineage(pkg'[job[j].parent], pkg[job[j].parent])
  BY LineageKept
<1>3. \A p \in index : pkg[p] # None /\ SameLineage(pkg'[p], pkg[p])
  BY LineageKept
<1>4. job[j].pc = "index" =>
        SameLineage(pkg'[job[j].project], pkg[job[j].project])
  BY LineageKept
<1>5. approved \subseteq approved'
  BY NothingForgotten
<1> HIDE DEF VersionsInv, TypeOK
<1> QED
  BY <1>1, <1>2, <1>3, <1>4, <1>5 DEF JobSound, SameLineage

\* A job that moves on leaves the others what they know.
LEMMA JobSoundOthers ==
  ASSUME VersionsInv, NEW j \in Jobs, JobStep(j), NEW k \in Jobs, k # j
  PROVE  job'[k] = job[k] /\ (filmLock = k => filmLock' = k /\ index' = index)
<1> USE CheckpointAssumption DEF VersionsInv, TypeOK
<1>1. job'[k] = job[k]
  BY DEF JobStep, JobRuns, ReviseStart, RevisePlan, ReviseAcquire, ReviseCheck, ReviseReplace,
     ReviseNumber, ReviseSave, ReviseIndex, ReviseFails
<1>2. ASSUME filmLock = k PROVE filmLock' = k /\ index' = index
  <2>1. job[j].pc \in {"idle", "plan", "wait"}
    BY <1>2 DEF JobSound
  <2> QED
    BY <1>2, <2>1 DEF JobStep, JobRuns, ReviseStart, RevisePlan, ReviseAcquire, ReviseCheck,
       ReviseReplace, ReviseNumber, ReviseSave, ReviseIndex, ReviseFails
<1> QED
  BY <1>1, <1>2

\* What a job knows holds after its own step.
LEMMA JobSoundOwn ==
  ASSUME VersionsInv, NEW j \in Jobs, JobStep(j)
  PROVE  JobSound(j)'
<1> USE CheckpointAssumption DEF VersionsInv, TypeOK
<1>1. CASE job'[j].pc = "idle"
  BY <1>1 DEF JobSound
<1>2. ASSUME NEW p \in Projects, ReviseStart(j, p) PROVE JobSound(j)'
  <2>1. job'[j].pc = "plan" /\ job'[j].parent = p /\ job'[j].base = pkg[p]
    BY <1>2 DEF ReviseStart, JobIdle
  <2> QED
    BY <1>2, <2>1 DEF ReviseStart, JobSound, SameLineage
<1>3. ASSUME NEW c \in Contents, RevisePlan(j, c) PROVE JobSound(j)'
  <2>1. /\ job'[j].pc = "wait" /\ job'[j].content = c
        /\ job'[j].parent = job[j].parent /\ job'[j].base = job[j].base
    BY <1>3 DEF RevisePlan, JobType
  <2> QED
    BY <1>3, <2>1 DEF RevisePlan, JobSound, SameLineage
<1>4. CASE ReviseAcquire(j) \/ ReviseCheck(j)
  <2>1. /\ job'[j].content = job[j].content
        /\ job'[j].parent = job[j].parent /\ job'[j].base = job[j].base
        /\ job'[j].pc \in {"check", "number", "replace"}
        /\ job'[j].pc = "number" => job[j].parent \in approved
    BY <1>4 DEF ReviseAcquire, ReviseCheck, JobType
  <2>2. filmLock' = j /\ UNCHANGED store
    BY <1>4 DEF ReviseAcquire, ReviseCheck, JobSound
  <2>3. job[j].pc \notin {"idle", "plan"}
    BY <1>4 DEF ReviseAcquire, ReviseCheck
  <2> QED
    BY <2>1, <2>2, <2>3 DEF JobSound, SameLineage
<1>5. CASE ReviseReplace(j)
  <2>1. CASE job[j].parent \in approved
    <3>1. /\ job'[j].content = job[j].content /\ job'[j].pc = "number"
          /\ job'[j].parent = job[j].parent /\ job'[j].base = job[j].base
      BY <1>5, <2>1 DEF ReviseReplace, JobType
    <3> QED
      BY <1>5, <2>1, <3>1 DEF ReviseReplace, JobSound, SameLineage
  <2>2. CASE job[j].parent \notin approved
    BY <1>5, <2>2, <1>1 DEF ReviseReplace, JobIdle
  <2> QED
    BY <2>1, <2>2
<1>6. CASE ReviseNumber(j)
  <2>1. PICK highest \in Nat :
          /\ \A p \in index : pkg[p].version <= highest
          /\ job' = [job EXCEPT ![j].pc = "save", ![j].version = highest + 1]
    <3>1. \A p \in index : pkg[p].version \in Nat
      BY DEF Packages
    <3>2. PICK n \in {pkg[q].version : q \in index} :
            /\ \A p \in index : pkg[p].version <= n
            /\ job' = [job EXCEPT ![j].pc = "save", ![j].version = n + 1]
      BY <1>6 DEF ReviseNumber
    <3>3. PICK q \in index : n = pkg[q].version
      OBVIOUS
    <3>4. n \in Nat
      BY <3>1, <3>3
    <3> QED
      BY <3>2, <3>4
  <2>2. /\ job'[j].content = job[j].content /\ job'[j].pc = "save"
        /\ job'[j].parent = job[j].parent /\ job'[j].base = job[j].base
        /\ job'[j].version = highest + 1
    BY <2>1 DEF JobType
  <2>3. \A p \in index : pkg[p].version < job'[j].version
    <3>1. \A p \in index : pkg[p].version \in Nat
      BY DEF Packages
    <3> QED
      BY <2>1, <2>2, <3>1
  <2> QED
    BY <1>6, <2>2, <2>3 DEF ReviseNumber, JobSound, SameLineage
<1>7. ASSUME NEW p \in Projects, ReviseSave(j, p) PROVE JobSound(j)'
  <2>1. /\ job'[j].content = job[j].content /\ job'[j].pc = "index" /\ job'[j].project = p
        /\ job'[j].parent = job[j].parent /\ job'[j].base = job[j].base
        /\ job'[j].version = job[j].version
    BY <1>7 DEF ReviseSave, JobType
  <2>2. p \notin index
    BY <1>7 DEF ReviseSave
  <2>3. pkg'[p].version = job[j].version /\ pkg'[p].parent = job[j].parent
    BY <1>7 DEF ReviseSave
  <2>4. \A q \in index : pkg'[q] = pkg[q]
    BY <1>7, <2>2 DEF ReviseSave
  <2>5. JobSound(j) /\ job[j].pc = "save" /\ job[j].parent \in index
    BY <1>7 DEF ReviseSave
  <2>6. UNCHANGED <<index, approved, filmLock>>
    BY <1>7 DEF ReviseSave
  <2> HIDE DEF VersionsInv, TypeOK
  <2> QED
    BY <2>1, <2>2, <2>3, <2>4, <2>5, <2>6 DEF JobSound, SameLineage
<1>8. CASE ReviseIndex(j) \/ ReviseFails(j)
  BY <1>8, <1>1 DEF ReviseIndex, ReviseFails, JobIdle
<1> QED
  BY <1>2, <1>3, <1>4, <1>5, <1>6, <1>7, <1>8 DEF JobStep, JobRuns

\* What a job knows holds after every step.
LEMMA JobSoundStep ==
  ASSUME VersionsInv, [Next]_vars, NEW j \in Jobs
  PROVE  JobSound(j)'
<1>1. ASSUME NEW k \in Jobs, JobStep(k) PROVE JobSound(j)'
  BY <1>1, JobSoundOwn, JobSoundOthers, JobSoundStays
<1>2. CASE \A k \in Jobs : ~JobStep(k)
  <2>1. UNCHANGED <<filmLock, index, job>>
    BY <1>2 DEF Next, SaverStep, SaveStart, SaveRead, SaveWrite, ApproverStep, ApproveStart,
       ApproveRead, ApproveMatch, ApproveCommit, Rendered, vars
  <2> QED
    BY <2>1, JobSoundStays
<1> QED
  BY <1>1, <1>2

\* What the user's set gains is a new version of an approved one, numbered above all.
LEMMA IndexMoves ==
  ASSUME VersionsInv, [Next]_vars
  PROVE  \/ index' = index
         \/ \E p \in Projects \ index :
              /\ index' = index \cup {p} /\ UNCHANGED <<pkg, approved>>
              /\ pkg[p].parent \in approved
              /\ \A q \in index : pkg[q].version < pkg[p].version
<1> USE CheckpointAssumption DEF VersionsInv, TypeOK
<1>1. ASSUME NEW j \in Jobs, ReviseIndex(j)
      PROVE  \E p \in Projects \ index :
               /\ index' = index \cup {p} /\ UNCHANGED <<pkg, approved>>
               /\ pkg[p].parent \in approved
               /\ \A q \in index : pkg[q].version < pkg[p].version
  <2>1. job[j].pc = "index"
    BY <1>1 DEF ReviseIndex
  <2>2. JobSound(j) /\ job[j].project \in Projects
    BY <2>1
  <2>3. job[j].project \in Projects \ index
    BY <2>1, <2>2 DEF JobSound
  <2>4. /\ pkg[job[j].project].parent \in approved
        /\ \A q \in index : pkg[q].version < pkg[job[j].project].version
    BY <2>1, <2>2 DEF JobSound, SameLineage
  <2> QED
    BY <1>1, <2>3, <2>4 DEF ReviseIndex
<1> QED
  BY <1>1 DEF Next, SaverStep, SaveStart, SaveRead, SaveWrite, ApproverStep, ApproveStart,
     ApproveRead, ApproveMatch, ApproveCommit, JobStep, JobRuns, ReviseStart, RevisePlan,
     ReviseAcquire, ReviseCheck, ReviseReplace, ReviseNumber, ReviseSave, ReviseFails,
     Rendered, vars

\* Version numbers stay unique, and successors stay successors of approved versions.
LEMMA VersionsStep ==
  ASSUME VersionsInv, [Next]_vars
  PROVE  VersionsUnique' /\ SuccessorsOfApproved'
<1>1. \A p \in index : pkg[p] \in Packages /\ SameLineage(pkg'[p], pkg[p])
  BY LineageKept, CheckpointAssumption DEF VersionsInv, TypeOK
<1>2. approved \subseteq approved' /\ approved \subseteq index
  BY NothingForgotten DEF VersionsInv, TypeOK
<1>3. VersionsUnique /\ SuccessorsOfApproved /\ Film \in index
  BY DEF VersionsInv
<1>4. CASE index' = index
  BY <1>1, <1>2, <1>3, <1>4 DEF VersionsUnique, SuccessorsOfApproved, SameLineage
<1>5. ASSUME NEW p \in Projects \ index,
             index' = index \cup {p}, UNCHANGED <<pkg, approved>>,
             pkg[p].parent \in approved,
             \A q \in index : pkg[q].version < pkg[p].version
      PROVE  VersionsUnique' /\ SuccessorsOfApproved'
  <2>1. \A q \in index : pkg[q].version \in Nat
    BY <1>1 DEF Packages
  <2>2. \A q \in index : pkg[q].version # pkg[p].version
    BY <1>5, <2>1
  <2>3. VersionsUnique'
    BY <1>3, <1>5, <2>2 DEF VersionsUnique
  <2>4. SuccessorsOfApproved'
    BY <1>2, <1>3, <1>5 DEF SuccessorsOfApproved
  <2> QED
    BY <2>3, <2>4
<1> QED
  BY <1>4, <1>5, IndexMoves

\* What is approved was found valid, and is overwritten by valid specs only.
LEMMA ApprovedValidStep ==
  ASSUME VersionsInv, [Next]_vars
  PROVE  ApprovedIsValid'
<1> USE CheckpointAssumption DEF VersionsInv, TypeOK
<1>1. ASSUME NEW s \in Savers, SaveWrite(s) PROVE ApprovedIsValid'
  BY <1>1 DEF SaveWrite, SaverSound, ApprovedIsValid
<1>2. ASSUME NEW a \in Approvers, ApproveCommit(a) PROVE ApprovedIsValid'
  <2>1. CASE Approve(a) /\ Unchanged(a)
    <3>1. /\ approver[a].raw \in Packages /\ approver[a].raw.content \in ValidContents
          /\ approver[a].raw = pkg[approver[a].project]
      BY <1>2, <2>1 DEF ApproveCommit, Unchanged, ApproverSound
    <3>2. Retaken(a).content = approver[a].raw.content
      BY <3>1 DEF Retaken, Packages
    <3> QED
      BY <2>1, <3>1, <3>2 DEF Approve, ApprovedIsValid
  <2> QED
    BY <1>2, <2>1 DEF ApproveCommit, ApprovedIsValid
<1>3. ASSUME NEW j \in Jobs, ReviseReplace(j) PROVE ApprovedIsValid'
  BY <1>3 DEF ReviseReplace, ApprovedIsValid
<1>4. ASSUME NEW j \in Jobs, NEW q \in Projects, ReviseSave(j, q) PROVE ApprovedIsValid'
  <2>1. q \notin approved
    BY <1>4 DEF ReviseSave
  <2> QED
    BY <1>4, <2>1 DEF ReviseSave, ApprovedIsValid
<1>5. CASE UNCHANGED <<pkg, approved>>
  BY <1>5 DEF ApprovedIsValid
<1> QED
  BY <1>1, <1>2, <1>3, <1>4, <1>5 DEF Next, SaverStep, SaveStart, SaveRead, ApproverStep,
     ApproveStart, ApproveRead, ApproveMatch, JobStep, JobRuns, ReviseStart, RevisePlan,
     ReviseAcquire, ReviseCheck, ReviseNumber, ReviseIndex, ReviseFails, Rendered, vars

\* The invariant is inductive.
LEMMA VersionsInvStep ==
  ASSUME VersionsInv, [Next]_vars
  PROVE  VersionsInv'
<1>1. TypeOK' /\ Film \in index'
  BY TypeStep, NothingForgotten DEF VersionsInv
<1> QED
  BY <1>1, SaverSoundStep, ApproverSoundStep, JobSoundStep, VersionsStep, ApprovedValidStep
     DEF VersionsInv

\* It holds in every reachable state.
THEOREM VersionsAreSound == Spec => []VersionsInv
  BY VersionsInit, VersionsInvStep, PTL DEF Spec

\* VersionsUnique: no two versions of a film have the same number.
THEOREM NumbersAreUnique == Spec => []VersionsUnique
<1>1. VersionsInv => VersionsUnique
  BY DEF VersionsInv
<1> QED
  BY <1>1, VersionsAreSound, PTL

\* SuccessorsOfApproved: what has a successor is approved, and has a lower number.
THEOREM ParentsAreApproved == Spec => []SuccessorsOfApproved
<1>1. VersionsInv => SuccessorsOfApproved
  BY DEF VersionsInv
<1> QED
  BY <1>1, VersionsAreSound, PTL

\* ApprovedIsValid: what is approved satisfies the validator.
THEOREM OnlyValidApproved == Spec => []ApprovedIsValid
<1>1. VersionsInv => ApprovedIsValid
  BY DEF VersionsInv
<1> QED
  BY <1>1, VersionsAreSound, PTL

\* LineageIsStable: version and parent of a package never change.
THEOREM LineageStays == Spec => LineageIsStable
<1>1. ASSUME VersionsInv, [Next]_vars
      PROVE  [\A p \in Projects : pkg[p] # None =>
                pkg'[p].version = pkg[p].version /\ pkg'[p].parent = pkg[p].parent]_vars
  BY <1>1, LineageKept DEF SameLineage
<1> QED
  BY <1>1, VersionsAreSound, PTL DEF Spec, LineageIsStable

-----------------------------------------------------------------------------
(* Without concurrent PUTs: what is approved stays, and so do its assets.  *)

\* The spec of an approved version is written by nobody but a PUT.
LEMMA ApprovedKept ==
  ASSUME Savers = {}, TypeOK, [Next]_vars, NEW p \in approved
  PROVE  pkg'[p] = pkg[p]
<1> USE CheckpointAssumption DEF TypeOK
<1>1. ASSUME NEW a \in Approvers, ApproveCommit(a) PROVE pkg'[p] = pkg[p]
  BY <1>1 DEF ApproveCommit, Approve, Unchanged
<1>2. ASSUME NEW j \in Jobs, ReviseReplace(j) PROVE pkg'[p] = pkg[p]
  BY <1>2 DEF ReviseReplace
<1>3. ASSUME NEW j \in Jobs, NEW q \in Projects, ReviseSave(j, q) PROVE pkg'[p] = pkg[p]
  BY <1>3 DEF ReviseSave
<1>4. ASSUME NEW s \in Savers PROVE FALSE
  BY <1>4, Savers = {}
<1>5. CASE UNCHANGED pkg
  BY <1>5
<1> QED
  BY <1>1, <1>2, <1>3, <1>4, <1>5 DEF Next, ApproverStep, ApproveStart, ApproveRead,
     ApproveMatch, JobStep, JobRuns, ReviseStart, RevisePlan, ReviseAcquire, ReviseCheck,
     ReviseNumber, ReviseIndex, ReviseFails, Rendered, vars

\* ApprovedIsImmutable, for approvals and revisions in any number.
THEOREM ApprovedStays ==
  ASSUME Savers = {}
  PROVE  Spec => ApprovedIsImmutable
<1>1. TypeOK /\ [Next]_vars => [\A p \in approved : pkg'[p] = pkg[p]]_vars
  BY ApprovedKept
<1> QED
  BY <1>1, TypeCorrect, PTL DEF Spec, ApprovedIsImmutable

\* Assets belong to approved versions and are of their specs; so is what an approval
\* has found to reuse.
AssetsInv ==
  /\ TypeOK
  /\ \A p \in Projects : made[p] # None => p \in approved /\ made[p] = Fingerprint(pkg[p])
  /\ \A a \in Approvers :
       approver[a].pc = "commit" =>
         approver[a].seed \in {None, Fingerprint(Retaken(a))}

\* A commit puts what it found on the spec it was found for.
LEMMA AssetsCommit ==
  ASSUME AssetsInv, NEW a \in Approvers, ApproveCommit(a), NEW p \in Projects
  PROVE  made'[p] # None => p \in approved' /\ made'[p] = Fingerprint(pkg'[p])
<1> USE CheckpointAssumption DEF AssetsInv, TypeOK
<1>1. CASE Approve(a) /\ Unchanged(a)
  <2>1. approver[a].project \in Projects /\ pkg[approver[a].project] = approver[a].raw
    BY <1>1 DEF ApproveCommit, Unchanged
  <2>2. pkg'[approver[a].project] = Retaken(a)
    BY <1>1, <2>1 DEF Approve, Retaken
  <2>3. made[approver[a].project] = None
    BY <1>1, <2>1 DEF Unchanged
  <2>4. CASE p = approver[a].project
    BY <1>1, <2>1, <2>2, <2>3, <2>4 DEF ApproveCommit, Approve
  <2>5. CASE p # approver[a].project
    <3>1. pkg'[p] = pkg[p] /\ made'[p] = made[p]
      BY <1>1, <2>5 DEF Approve
    <3> QED
      BY <1>1, <3>1 DEF Approve, Fingerprint
  <2> QED
    BY <2>4, <2>5
<1>2. CASE UNCHANGED <<pkg, approved, made>>
  BY <1>2 DEF Fingerprint
<1> QED
  BY <1>1, <1>2 DEF ApproveCommit

\* Assets stay what they are said to be.
LEMMA AssetsOfSpecStep ==
  ASSUME Savers = {}, AssetsInv, [Next]_vars, NEW p \in Projects
  PROVE  made'[p] # None => p \in approved' /\ made'[p] = Fingerprint(pkg'[p])
<1> USE CheckpointAssumption DEF AssetsInv
<1>1. ASSUME NEW a \in Approvers, ApproveCommit(a)
      PROVE  made'[p] # None => p \in approved' /\ made'[p] = Fingerprint(pkg'[p])
  BY <1>1, AssetsCommit
<1>2. ASSUME NEW q \in Projects, Rendered(q)
      PROVE  made'[p] # None => p \in approved' /\ made'[p] = Fingerprint(pkg'[p])
  BY <1>2 DEF Rendered, TypeOK, Fingerprint
<1>3. CASE UNCHANGED <<made, approved>>
  <2>1. p \in approved => pkg'[p] = pkg[p]
    BY ApprovedKept
  <2> QED
    BY <1>3, <2>1 DEF Fingerprint
<1>4. ASSUME NEW s \in Savers PROVE FALSE
  BY <1>4, Savers = {}
<1> QED
  BY <1>1, <1>2, <1>3, <1>4 DEF Next, ApproverStep, ApproveStart, ApproveRead, ApproveMatch,
     JobStep, JobRuns, ReviseStart, RevisePlan, ReviseAcquire, ReviseCheck, ReviseReplace,
     ReviseNumber, ReviseSave, ReviseIndex, ReviseFails, vars

\* What an approval has found to reuse was made from the very spec it approves.
LEMMA SeedsOfSpecStep ==
  ASSUME AssetsInv, [Next]_vars, NEW a \in Approvers, approver'[a].pc = "commit"
  PROVE  approver'[a].seed \in {None, Fingerprint(Retaken(a)')}
<1> USE CheckpointAssumption DEF AssetsInv, TypeOK
<1>1. CASE approver'[a] = approver[a]
  BY <1>1 DEF Retaken
<1>2. CASE ApproveMatch(a)
  <2>1. PICK seed \in {None} \cup {made[q] : q \in Sources(approver[a].project, Retaken(a))} :
          approver' = [approver EXCEPT ![a].pc = "commit", ![a].seen = approved,
                                       ![a].seed = seed]
    <3>1. CASE Unchanged(a)
      BY <1>2, <3>1 DEF ApproveMatch
    <3>2. CASE ~Unchanged(a)
      BY <1>2, <3>2 DEF ApproveMatch, ApproverIdle
    <3> QED
      BY <3>1, <3>2
  <2>2. /\ approver'[a].seed = seed /\ approver'[a].raw = approver[a].raw
        /\ approver'[a].project = approver[a].project
        /\ approver'[a].rerender = approver[a].rerender
    BY <2>1 DEF ApproverType
  <2>3. Retaken(a)' = Retaken(a)
    BY <2>2 DEF Retaken
  <2>4. seed \in {None, Fingerprint(Retaken(a))}
    BY DEF Sources
  <2> QED
    BY <2>2, <2>3, <2>4
<1>3. ASSUME NEW p \in Projects, NEW rerender \in BOOLEAN, ApproveStart(a, p, rerender)
      PROVE  FALSE
  BY <1>3 DEF ApproveStart, ApproverIdle
<1>4. CASE ApproveRead(a) \/ ApproveCommit(a)
  BY <1>4 DEF ApproveRead, ApproveCommit, Approve, ApproverIdle, ApproverType
<1>5. ASSUME NEW b \in Approvers, b # a, ApproverStep(b) PROVE approver'[a] = approver[a]
  BY <1>5 DEF ApproverStep, ApproveStart, ApproveRead, ApproveMatch, ApproveCommit, Approve
<1>6. CASE ApproverStep(a)
  BY <1>2, <1>3, <1>4, <1>6 DEF ApproverStep
<1> QED
  BY <1>1, <1>5, <1>6, OneMoves

\* AssetsMatchSpec: what is rendered or reused for a version is what its spec says.
THEOREM AssetsAreOfSpec ==
  ASSUME Savers = {}
  PROVE  Spec => []AssetsMatchSpec
<1>1. Init => AssetsInv
  <2>1. ASSUME Init PROVE \A a \in Approvers : approver[a].pc = "idle"
    BY <2>1 DEF Init, ApproverIdle
  <2> QED
    BY <2>1, TypeInit DEF Init, AssetsInv
<1>2. AssetsInv /\ [Next]_vars => AssetsInv'
  <2> SUFFICES ASSUME AssetsInv, [Next]_vars PROVE AssetsInv'
    OBVIOUS
  <2>1. TypeOK'
    BY TypeStep DEF AssetsInv
  <2>2. \A p \in Projects :
          made'[p] # None => p \in approved' /\ made'[p] = Fingerprint(pkg'[p])
    BY AssetsOfSpecStep
  <2>3. \A a \in Approvers : approver'[a].pc = "commit" =>
          approver'[a].seed \in {None, Fingerprint(Retaken(a)')}
    BY SeedsOfSpecStep
  <2> QED
    BY <2>1, <2>2, <2>3 DEF AssetsInv, Fingerprint
<1>3. AssetsInv => AssetsMatchSpec
  BY DEF AssetsInv, AssetsMatchSpec
<1> QED
  BY <1>1, <1>2, <1>3, PTL DEF Spec

=============================================================================
