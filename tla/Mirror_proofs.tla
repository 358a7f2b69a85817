---------------------------- MODULE Mirror_proofs ----------------------------
(***************************************************************************)
(* What Mirror promises for any number of requests, contents, commits and  *)
(* outages: the mirror converges, heals, and the History list holds.       *)
(***************************************************************************)
EXTENDS Mirror, TLAPS

\* A commit whose mirror has not been attempted yet.
Pending(w) == writer[w].pc \in {"owner", "list", "reread", "mirror"}

\* What a request carries: a spec once it has one, the owner if it submits.
CarryInv ==
  /\ \A w \in Writers :
       /\ ~At(w, "idle") => writer[w].spec # None
       /\ writer[w].seq <= commits
       /\ writer[w].pc \in {"owner", "list"} => writer[w].owner = Owner
       /\ At(w, "reread") => writer[w].owner = None
  /\ newest <= commits

\* The latest commit is what Redis holds, and its mirror has landed or is on its way.
LatestInv ==
  redis.spec # None =>
    /\ \A w \in Writers : Pending(w) /\ writer[w].seq = commits => writer[w].spec = redis.spec
    /\ ~missed => newest = commits \/ \E w \in Writers : Pending(w) /\ writer[w].seq = commits
    /\ ~crossed /\ newest = commits => row # None /\ row.spec = redis.spec

\* So are the owner and the approval.
StickyInv ==
  ~missed =>
    /\ redis.owner # None =>
         \/ row # None /\ row.owner = Owner
         \/ \E w \in Writers : writer[w].pc \in {"list", "mirror"} /\ writer[w].owner = Owner
    /\ redis.approved =>
         \/ row # None /\ row.approved
         \/ \E w \in Writers : At(w, "mirror") /\ writer[w].approved = TRUE

\* A request that runs alone mirrors the latest commit.
AloneInv ==
  \A w \in Writers : writer[w].alone =>
    /\ \A u \in Writers \ {w} : At(u, "idle")
    /\ Pending(w) => writer[w].seq = commits

\* Nothing is listed before it has an owner, unless the flush came between, and the row
\* names an owner only when the list has the film, unless it was flushed.
ListInv ==
  /\ ~torn /\ (redis.listed \/ \E w \in Writers : At(w, "list")) => redis.owner = Owner
  /\ torn => flushed
  /\ ~flushed =>
       /\ \A w \in Writers : Pending(w) => redis.spec # None
       /\ row # None => redis.spec # None
       /\ \A w \in Writers : At(w, "mirror") /\ writer[w].owner = Owner => redis.listed
       /\ row # None /\ row.owner = Owner => redis.listed

MirrorInv == TypeOK /\ CarryInv /\ LatestInv /\ StickyInv /\ AloneInv /\ ListInv

-----------------------------------------------------------------------------
(* What the actions do, field by field. *)

\* The records the actions are built from have their types.
LEMMA RecordTypes ==
  /\ Empty \in KeysType /\ Free \in RequestType
  /\ \A n \in Nat : 0 \in 0..n
BY MirrorAssumption DEF Empty, Free, KeysType, RequestType, OrNone

\* None is neither a content, nor a flag, nor a row, nor the owner.
LEMMA NoneIsApart ==
  None \notin Contents /\ None # TRUE /\ None # FALSE /\ None \notin RowType /\ Owner # None
<1>1. \A S, T, U : None \notin S \cup T \cup U => None \notin S /\ None \notin T /\ None \notin U
  OBVIOUS
<1>2. None \notin Contents /\ None \notin BOOLEAN /\ None \notin RowType
  BY <1>1, MirrorAssumption
<1> QED
  BY <1>2, MirrorAssumption

\* A request starts; those under way are no longer alone.
LEMMA BeginsEffect ==
  ASSUME TypeOK, NEW w \in Writers, NEW r \in RequestType, Begins(w, r)
  PROVE  /\ writer' \in [Writers -> RequestType]
         /\ writer[w].pc = "idle"
         /\ writer'[w].pc = r.pc /\ writer'[w].spec = r.spec /\ writer'[w].approved = r.approved
         /\ writer'[w].owner = r.owner /\ writer'[w].seq = r.seq
         /\ writer'[w].alone => \A u \in Writers \ {w} : At(u, "idle")
         /\ \A v \in Writers \ {w} :
              /\ writer'[v].pc = writer[v].pc /\ writer'[v].spec = writer[v].spec
              /\ writer'[v].approved = writer[v].approved /\ writer'[v].owner = writer[v].owner
              /\ writer'[v].seq = writer[v].seq /\ writer'[v].alone = FALSE
<1> DEFINE p == \A u \in Writers \ {w} : At(u, "idle")
           r1 == [r EXCEPT !.alone = p]
           v1(v) == [writer[v] EXCEPT !.alone = FALSE]
<1>1. r1 \in RequestType /\ r1.pc = r.pc /\ r1.spec = r.spec /\ r1.approved = r.approved
      /\ r1.owner = r.owner /\ r1.seq = r.seq /\ (r1.alone <=> p)
  <2>1. p \in BOOLEAN
    OBVIOUS
  <2> HIDE DEF p
  <2> QED
    BY <2>1 DEF RequestType
<1>2. ASSUME NEW v \in Writers
      PROVE  /\ v1(v) \in RequestType /\ v1(v).pc = writer[v].pc /\ v1(v).spec = writer[v].spec
             /\ v1(v).approved = writer[v].approved /\ v1(v).owner = writer[v].owner
             /\ v1(v).seq = writer[v].seq /\ v1(v).alone = FALSE
  BY DEF TypeOK, RequestType
<1>3. writer' = [v \in Writers |-> IF v = w THEN r1 ELSE v1(v)] /\ writer[w].pc = "idle"
  BY DEF Begins, At
<1> HIDE DEF r1, v1
<1>4. writer' \in [Writers -> RequestType]
  BY <1>1, <1>2, <1>3
<1>5. writer'[w] = r1 /\ \A v \in Writers \ {w} : writer'[v] = v1(v)
  BY <1>3
<1> QED
  BY <1>1, <1>2, <1>3, <1>4, <1>5

\* What a request that mirrors carries.
LEMMA ToMirrorEffect ==
  ASSUME TypeOK, NEW c \in Contents, NEW a \in {TRUE, None}, NEW o \in {Owner, None}, commits < MaxWrites
  PROVE  /\ ToMirror(c, a, o) \in RequestType
         /\ ToMirror(c, a, o).pc = "mirror" /\ ToMirror(c, a, o).spec = c
         /\ ToMirror(c, a, o).approved = a /\ ToMirror(c, a, o).owner = o
         /\ ToMirror(c, a, o).seq = commits + 1
<1>1. commits + 1 \in 0..MaxWrites
  BY MirrorAssumption DEF TypeOK
<1> QED
  BY <1>1 DEF ToMirror, RequestType, OrNone

\* A request that is somewhere else.
LEMMA ElsewhereEffect ==
  ASSUME NEW r \in RequestType, NEW p \in {"owner", "reread"}
  PROVE  /\ [r EXCEPT !.pc = p] \in RequestType
         /\ [r EXCEPT !.pc = p].pc = p /\ [r EXCEPT !.pc = p].spec = r.spec
         /\ [r EXCEPT !.pc = p].approved = r.approved /\ [r EXCEPT !.pc = p].owner = r.owner
         /\ [r EXCEPT !.pc = p].seq = r.seq
BY DEF RequestType

\* What a commit leaves in Redis.
LEMMA CommitsEffect ==
  ASSUME TypeOK, NEW c \in Contents, Commits(c)
  PROVE  /\ commits' = commits + 1 /\ commits < MaxWrites /\ redis' \in KeysType
         /\ redis'.spec = c /\ redis'.owner = redis.owner /\ redis'.listed = redis.listed
         /\ redis'.approved = redis.approved
BY DEF Commits, TypeOK, KeysType, OrNone

\* A commit by any of the five requests.
Committing(w, c) ==
  /\ writer' \in [Writers -> RequestType] /\ redis' \in KeysType /\ commits' \in 0..MaxWrites
  /\ commits' = commits + 1 /\ redis'.spec = c
  /\ redis'.owner = redis.owner /\ redis'.listed = redis.listed
  /\ redis'.approved = redis.approved \/ (At(w, "mirror")' /\ writer'[w].approved = TRUE)
  /\ writer[w].pc \in {"idle", "save"} /\ writer'[w].pc \in {"owner", "reread", "mirror"}
  /\ writer'[w].spec = c /\ writer'[w].seq = commits + 1
  /\ writer'[w].owner = IF At(w, "owner")' THEN Owner ELSE None
  /\ writer'[w].alone => \A u \in Writers \ {w} : At(u, "idle")
  /\ \A v \in Writers \ {w} :
       /\ writer'[v].pc = writer[v].pc /\ writer'[v].spec = writer[v].spec
       /\ writer'[v].approved = writer[v].approved /\ writer'[v].owner = writer[v].owner
       /\ writer'[v].seq = writer[v].seq /\ writer'[v].alone = FALSE
  /\ PackageStep

\* Each of them is such a commit.
LEMMA CommitEffect ==
  ASSUME TypeOK, CarryInv, AloneInv, NEW w \in Writers, NEW c \in Contents,
         Submit(w, c) \/ Replace(w, c) \/ Approve(w, c) \/ Edit(w, c)
  PROVE  Committing(w, c)
<1>1. commits < MaxWrites => commits + 1 \in 0..MaxWrites
  BY MirrorAssumption DEF TypeOK
<1>2. CASE Submit(w, c)
  <2>1. Commits(c) /\ PackageStep
    BY <1>2 DEF Submit
  <2> DEFINE m == ToMirror(c, None, Owner)
             r == [m EXCEPT !.pc = "owner"]
  <2>0. m \in RequestType /\ m.spec = c /\ m.owner = Owner /\ m.seq = commits + 1
    BY <2>1, CommitsEffect, ToMirrorEffect
  <2>2. r \in RequestType /\ r.pc = "owner" /\ r.spec = c /\ r.owner = Owner /\ r.seq = commits + 1
    <3> HIDE DEF m
    <3> QED
      BY <2>0, ElsewhereEffect
  <2>3. Begins(w, r)
    BY <1>2 DEF Submit
  <2> HIDE DEF r
  <2> QED
    BY <1>1, <2>1, <2>2, <2>3, CommitsEffect, BeginsEffect DEF Committing, At
<1>3. CASE Replace(w, c)
  <2>1. Commits(c) /\ PackageStep
    BY <1>3 DEF Replace
  <2> DEFINE r == ToMirror(c, None, None)
  <2>2. r \in RequestType /\ r.pc = "mirror" /\ r.spec = c /\ r.owner = None /\ r.seq = commits + 1
    BY <2>1, CommitsEffect, ToMirrorEffect
  <2>3. Begins(w, r)
    BY <1>3 DEF Replace
  <2> HIDE DEF r
  <2> QED
    BY <1>1, <2>1, <2>2, <2>3, CommitsEffect, BeginsEffect DEF Committing, At
<1>4. CASE Approve(w, c)
  <2>1. /\ commits < MaxWrites /\ commits' = commits + 1 /\ PackageStep
        /\ redis' = [redis EXCEPT !.spec = c, !.approved = TRUE]
    BY <1>4 DEF Approve
  <2>2. /\ redis' \in KeysType /\ redis'.spec = c /\ redis'.owner = redis.owner
        /\ redis'.listed = redis.listed
    BY <2>1 DEF TypeOK, KeysType, OrNone
  <2> DEFINE r == ToMirror(c, TRUE, None)
  <2>3. /\ r \in RequestType /\ r.pc = "mirror" /\ r.spec = c /\ r.owner = None /\ r.seq = commits + 1
        /\ r.approved = TRUE
    BY <2>1, ToMirrorEffect
  <2>4. Begins(w, r)
    BY <1>4 DEF Approve
  <2> HIDE DEF r
  <2> QED
    BY <1>1, <2>1, <2>2, <2>3, <2>4, BeginsEffect DEF Committing, At
<1>5. CASE Edit(w, c)
  <2>1. Commits(c) /\ PackageStep
    BY <1>5 DEF Edit
  <2> DEFINE m == ToMirror(c, None, None)
             r == [m EXCEPT !.pc = "reread"]
  <2>0. m \in RequestType /\ m.spec = c /\ m.owner = None /\ m.seq = commits + 1
    BY <2>1, CommitsEffect, ToMirrorEffect
  <2>2. r \in RequestType /\ r.pc = "reread" /\ r.spec = c /\ r.owner = None /\ r.seq = commits + 1
    <3> HIDE DEF m
    <3> QED
      BY <2>0, ElsewhereEffect
  <2>3. Begins(w, r)
    BY <1>5 DEF Edit
  <2> HIDE DEF r
  <2> QED
    BY <1>1, <2>1, <2>2, <2>3, CommitsEffect, BeginsEffect DEF Committing, At
<1> QED
  BY <1>2, <1>3, <1>4, <1>5

\* The set of update_package is one too.
LEMMA SaveEffect ==
  ASSUME TypeOK, CarryInv, AloneInv, NEW w \in Writers, SaveSet(w)
  PROVE  writer[w].spec \in Contents /\ Committing(w, writer[w].spec)
<1> DEFINE c == writer[w].spec
           a == writer[w].alone
           r == ToMirror(c, None, None)
<1>1. c \in Contents /\ a \in BOOLEAN /\ writer[w].pc = "save"
  BY DEF SaveSet, At, CarryInv, TypeOK, RequestType, OrNone
<1>2. Commits(c) /\ PackageStep /\ writer' = [writer EXCEPT ![w] = [r EXCEPT !.alone = a]]
  BY DEF SaveSet
<1>3. r \in RequestType /\ r.pc = "mirror" /\ r.spec = c /\ r.owner = None /\ r.seq = commits + 1
  BY <1>1, <1>2, CommitsEffect, ToMirrorEffect
<1>4. \A v \in Writers \ {w} : writer[v].alone = FALSE
  BY <1>1 DEF AloneInv, At, TypeOK, RequestType
<1>5. a => \A u \in Writers \ {w} : At(u, "idle")
  BY DEF AloneInv
<1>6. commits < MaxWrites => commits + 1 \in 0..MaxWrites
  BY MirrorAssumption DEF TypeOK
<1> HIDE DEF r, c, a
<1>7. writer' \in [Writers -> RequestType]
  BY <1>1, <1>2, <1>3 DEF TypeOK, RequestType
<1>8. /\ writer'[w].pc = "mirror" /\ writer'[w].spec = c /\ writer'[w].owner = None
      /\ writer'[w].seq = commits + 1 /\ writer'[w].alone = a
      /\ \A v \in Writers \ {w} : writer'[v] = writer[v]
  BY <1>1, <1>2, <1>3 DEF TypeOK, RequestType
<1> QED
  BY <1>1, <1>2, <1>4, <1>5, <1>6, <1>7, <1>8, CommitsEffect DEF Committing, At, c

\* A request takes the package it was given to save.
LEMMA StartEffect ==
  ASSUME TypeOK, NEW w \in Writers, NEW c \in Contents, SaveStart(w, c)
  PROVE  /\ writer' \in [Writers -> RequestType]
         /\ writer[w].pc = "idle" /\ writer'[w].pc = "save" /\ writer'[w].spec = c
         /\ writer'[w].owner = None /\ writer'[w].seq = 0
         /\ writer'[w].alone => \A u \in Writers \ {w} : At(u, "idle")
         /\ \A v \in Writers \ {w} :
              /\ writer'[v].pc = writer[v].pc /\ writer'[v].spec = writer[v].spec
              /\ writer'[v].approved = writer[v].approved /\ writer'[v].owner = writer[v].owner
              /\ writer'[v].seq = writer[v].seq /\ writer'[v].alone = FALSE
         /\ UNCHANGED <<redis, commits>> /\ PackageStep
<1> DEFINE r == [Free EXCEPT !.pc = "save", !.spec = c]
<1>1. r \in RequestType /\ r.pc = "save" /\ r.spec = c /\ r.owner = None /\ r.seq = 0
  BY RecordTypes DEF Free, RequestType, OrNone
<1>2. Begins(w, r) /\ UNCHANGED <<redis, commits>> /\ PackageStep
  BY DEF SaveStart
<1> HIDE DEF r
<1> QED
  BY <1>1, <1>2, BeginsEffect

\* The two index writes of a submit.
LEMMA IndexEffect ==
  ASSUME TypeOK, NEW w \in Writers, SubmitIndex(w)
  PROVE  /\ writer' \in [Writers -> RequestType] /\ redis' \in KeysType
         /\ redis'.spec = redis.spec /\ redis'.approved = redis.approved
         /\ \/ /\ writer[w].pc = "owner" /\ writer'[w].pc = "list"
               /\ redis'.owner = Owner /\ redis'.listed = redis.listed
            \/ /\ writer[w].pc = "list" /\ writer'[w].pc = "mirror"
               /\ redis'.owner = redis.owner /\ redis'.listed = TRUE
         /\ writer'[w].spec = writer[w].spec /\ writer'[w].approved = writer[w].approved
         /\ writer'[w].owner = writer[w].owner /\ writer'[w].seq = writer[w].seq
         /\ writer'[w].alone = writer[w].alone
         /\ \A v \in Writers \ {w} : writer'[v] = writer[v]
         /\ UNCHANGED commits /\ PackageStep
<1>1. CASE /\ At(w, "owner") /\ redis' = [redis EXCEPT !.owner = Owner]
           /\ writer' = [writer EXCEPT ![w].pc = "list"]
  BY <1>1 DEF SubmitIndex, At, TypeOK, KeysType, RequestType
<1>2. CASE /\ At(w, "list") /\ redis' = [redis EXCEPT !.listed = TRUE]
           /\ writer' = [writer EXCEPT ![w].pc = "mirror"]
  BY <1>2 DEF SubmitIndex, At, TypeOK, KeysType, RequestType
<1> QED
  BY <1>1, <1>2 DEF SubmitIndex

\* An edit reads the spec again, or raises.
LEMMA RereadEffect ==
  ASSUME TypeOK, NEW w \in Writers, EditReread(w)
  PROVE  /\ writer' \in [Writers -> RequestType] /\ writer[w].pc = "reread"
         /\ redis.spec = None => /\ missed' = TRUE /\ writer'[w] = Free
         /\ redis.spec # None => /\ missed' = missed
                                 /\ writer'[w].pc = "mirror" /\ writer'[w].spec = redis.spec
                                 /\ writer'[w].seq = commits /\ writer'[w].owner = writer[w].owner
                                 /\ writer'[w].approved = writer[w].approved
                                 /\ writer'[w].alone = writer[w].alone
         /\ \A v \in Writers \ {w} : writer'[v] = writer[v]
         /\ UNCHANGED <<redis, row, commits, newest, up, outages, flushed, torn, crossed>>
<1> DEFINE s == redis.spec
           m == [writer[w] EXCEPT !.pc = "mirror", !.spec = s, !.seq = commits]
<1>1. /\ m \in RequestType /\ m.pc = "mirror" /\ m.spec = s /\ m.seq = commits
      /\ m.owner = writer[w].owner /\ m.approved = writer[w].approved /\ m.alone = writer[w].alone
  BY DEF TypeOK, KeysType, RequestType
<1>2. writer' = [writer EXCEPT ![w] = IF s = None THEN Free ELSE m]
  BY DEF EditReread
<1>3. missed \in BOOLEAN /\ missed' = (missed \/ s = None)
  BY DEF EditReread, TypeOK
<1> HIDE DEF m
<1>4. writer' \in [Writers -> RequestType] /\ \A v \in Writers \ {w} : writer'[v] = writer[v]
  BY <1>1, <1>2, RecordTypes DEF TypeOK
<1>5. writer'[w] = IF s = None THEN Free ELSE m
  BY <1>2 DEF TypeOK
<1>6. (s = None => missed' = TRUE) /\ (s # None => missed' = missed)
  BY <1>3
<1> QED
  BY <1>1, <1>4, <1>5, <1>6 DEF EditReread, At, weather

\* The row after an upsert.
LEMMA UpsertEffect ==
  ASSUME TypeOK, NEW m \in RequestType, m.spec # None
  PROVE  /\ Upsert(m) \in RowType /\ Upsert(m) # None /\ Upsert(m).spec = m.spec
         /\ m.owner = Owner => Upsert(m).owner = Owner
         /\ row # None /\ row.owner = Owner => Upsert(m).owner = Owner
         /\ Upsert(m).owner = Owner => m.owner = Owner \/ (row # None /\ row.owner = Owner)
         /\ m.approved = TRUE => Upsert(m).approved
         /\ row # None /\ row.approved => Upsert(m).approved
<1> DEFINE o == OrElse(m.owner, row.owner)
           a == OrElse(m.approved, row.approved)
           b == OrElse(m.approved, FALSE)
<1>1. m.spec \in Contents /\ m.owner \in {Owner, None} /\ b \in BOOLEAN /\ (m.approved = TRUE => b = TRUE)
  BY NoneIsApart DEF RequestType, OrNone, OrElse
<1>2. ASSUME row # None
      PROVE  /\ o \in {Owner, None} /\ (m.owner = Owner => o = Owner)
             /\ (row.owner = Owner => o = Owner) /\ (o = Owner => m.owner = Owner \/ row.owner = Owner)
             /\ a \in BOOLEAN /\ (m.approved = TRUE => a = TRUE) /\ (row.approved = TRUE => a = TRUE)
             /\ row.approved \in BOOLEAN
  BY <1>2, NoneIsApart DEF TypeOK, RowType, RequestType, OrNone, OrElse
<1>3. Upsert(m) = IF row = None THEN [spec |-> m.spec, owner |-> m.owner, approved |-> b]
                  ELSE [spec |-> m.spec, owner |-> o, approved |-> a]
  BY DEF Upsert
<1> HIDE DEF o, a, b
<1>4. CASE row = None
  <2>1. Upsert(m) = [spec |-> m.spec, owner |-> m.owner, approved |-> b]
    BY <1>3, <1>4
  <2>2. /\ Upsert(m) \in RowType /\ Upsert(m).spec = m.spec /\ Upsert(m).owner = m.owner
        /\ Upsert(m).approved = b
    BY <1>1, <2>1 DEF RowType
  <2> QED
    BY <1>1, <1>4, <2>2, NoneIsApart
<1>5. CASE row # None
  <2>1. Upsert(m) = [spec |-> m.spec, owner |-> o, approved |-> a]
    BY <1>3, <1>5
  <2>2. /\ Upsert(m) \in RowType /\ Upsert(m).spec = m.spec /\ Upsert(m).owner = o
        /\ Upsert(m).approved = a
    BY <1>1, <1>2, <1>5, <2>1 DEF RowType
  <2> QED
    BY <1>2, <1>5, <2>2, NoneIsApart
<1> QED
  BY <1>4, <1>5

\* A mirror lands, or is lost.
LEMMA MirrorEffect ==
  ASSUME TypeOK, CarryInv, NEW w \in Writers, MirrorPackage(w)
  PROVE  /\ writer' = [writer EXCEPT ![w] = Free] /\ writer[w].pc = "mirror" /\ writer[w].spec # None
         /\ UNCHANGED <<redis, commits, up, outages, flushed, torn>>
         /\ up => /\ row' = Upsert(writer[w]) /\ missed' = missed
                  /\ writer[w].seq > newest => newest' = writer[w].seq
                  /\ writer[w].seq <= newest => newest' = newest
                  /\ crossed' \in BOOLEAN
                  /\ crossed' <=> crossed \/ writer[w].seq < newest
         /\ ~up => missed' = TRUE /\ UNCHANGED <<row, newest, crossed>>
<1>1. writer[w].seq \in Nat /\ newest \in Nat
  <2>1. writer[w] \in RequestType /\ newest \in 0..MaxWrites
    BY DEF TypeOK
  <2>2. writer[w].seq \in 0..MaxWrites
    BY <2>1 DEF RequestType
  <2> QED
    BY <2>1, <2>2
<1>2. /\ writer' = [writer EXCEPT ![w] = Free] /\ writer[w].pc = "mirror"
      /\ UNCHANGED <<redis, commits, up, outages, flushed, torn>>
      /\ ~up => missed' = TRUE /\ UNCHANGED <<row, newest, crossed>>
  BY DEF MirrorPackage, At, weather
<1>3. writer[w].spec # None
  BY <1>2 DEF CarryInv, At
<1>4. up => /\ row' = Upsert(writer[w]) /\ missed' = missed
            /\ newest' = IF writer[w].seq > newest THEN writer[w].seq ELSE newest
  BY DEF MirrorPackage
<1>5. ASSUME up PROVE crossed' \in BOOLEAN /\ (crossed' <=> crossed \/ writer[w].seq < newest)
  BY <1>5 DEF MirrorPackage
<1>6. up => /\ writer[w].seq > newest => newest' = writer[w].seq
            /\ writer[w].seq <= newest => newest' = newest
  BY <1>1, <1>4
<1> QED
  BY <1>2, <1>3, <1>4, <1>5, <1>6

\* A request that is over carries nothing.
LEMMA FreeEffect ==
  ASSUME TypeOK, NEW w \in Writers, writer' = [writer EXCEPT ![w] = Free]
  PROVE  /\ writer' \in [Writers -> RequestType]
         /\ writer'[w].pc = "idle" /\ writer'[w].alone = FALSE /\ writer'[w].seq = 0
         /\ \A v \in Writers \ {w} : writer'[v] = writer[v]
BY RecordTypes DEF TypeOK, Free

\* The numbers are numbers.
LEMMA Numbers ==
  ASSUME TypeOK
  PROVE  /\ commits \in Nat /\ newest \in Nat /\ \A w \in Writers : writer[w].seq \in Nat
         /\ commits \in 0..MaxWrites /\ MaxWrites \in Nat
<1>1. \A w \in Writers : writer[w] \in RequestType
  BY DEF TypeOK
<1>2. \A r \in RequestType : r.seq \in 0..MaxWrites
  BY DEF RequestType
<1> QED
  BY <1>1, <1>2, MirrorAssumption DEF TypeOK

-----------------------------------------------------------------------------
(* The steps of the invariant. *)

\* A commit is the latest, and its mirror is on its way.
LEMMA CommitKeeps ==
  ASSUME MirrorInv, NEW w \in Writers, NEW c \in Contents, Committing(w, c)
  PROVE  MirrorInv'
<1> USE DEF MirrorInv
<1>0. UNCHANGED <<row, newest, up, outages, flushed, torn, missed, crossed>>
  BY DEF Committing, PackageStep, weather
<1>1. TypeOK'
  BY <1>0 DEF TypeOK, Committing
<1>2. c # None /\ Owner # None
  BY NoneIsApart
<1>3. CarryInv'
  BY <1>0, <1>2, Numbers DEF CarryInv, Committing, At
<1>4. LatestInv'
  <2>1. ASSUME NEW v \in Writers, Pending(v)', writer'[v].seq = commits' PROVE v = w
    BY <2>1, Numbers DEF CarryInv, Committing
  <2>2. Pending(w)' /\ writer'[w].seq = commits' /\ writer'[w].spec = redis'.spec
    BY DEF Committing, Pending
  <2>3. newest' # commits'
    BY <1>0, Numbers DEF CarryInv, Committing
  <2> QED
    BY <2>1, <2>2, <2>3 DEF LatestInv
<1>5. StickyInv'
  <2>1. \A v \in Writers : writer[v].pc \in {"list", "mirror"} => v # w /\ writer'[v].pc = writer[v].pc
          /\ writer'[v].owner = writer[v].owner /\ writer'[v].approved = writer[v].approved
    BY DEF Committing
  <2> QED
    BY <1>0, <2>1 DEF StickyInv, Committing, At
<1>6. AloneInv'
  BY DEF AloneInv, Committing, At, Pending
<1>7. ListInv'
  <2>1. \A v \in Writers : At(v, "list")' => At(v, "list")
    BY DEF Committing, At
  <2>2. \A v \in Writers : At(v, "mirror")' /\ writer'[v].owner = Owner => At(v, "mirror") /\ writer[v].owner = Owner
    BY <1>2 DEF Committing, At
  <2>3. redis'.spec # None /\ redis'.owner = redis.owner /\ redis'.listed = redis.listed
    BY <1>2 DEF Committing
  <2> QED
    BY <1>0, <2>1, <2>2, <2>3 DEF ListInv
<1> QED
  BY <1>1, <1>3, <1>4, <1>5, <1>6, <1>7

\* So does the start of a save.
LEMMA StartKeeps ==
  ASSUME MirrorInv, NEW w \in Writers, NEW c \in Contents, SaveStart(w, c)
  PROVE  MirrorInv'
<1> USE DEF MirrorInv
<1>0. UNCHANGED <<redis, commits, row, newest, up, outages, flushed, torn, missed, crossed>>
  BY StartEffect DEF PackageStep, weather
<1>1. TypeOK'
  BY <1>0, StartEffect DEF TypeOK
<1>2. \A v \in Writers : Pending(v)' => v # w /\ Pending(v) /\ writer'[v].seq = writer[v].seq
        /\ writer'[v].spec = writer[v].spec /\ writer'[v].pc = writer[v].pc
        /\ writer'[v].owner = writer[v].owner /\ writer'[v].approved = writer[v].approved
  BY StartEffect DEF Pending
<1>3. \A v \in Writers : Pending(v) => v # w /\ Pending(v)' /\ writer'[v].seq = writer[v].seq
        /\ writer'[v].pc = writer[v].pc
        /\ writer'[v].owner = writer[v].owner /\ writer'[v].approved = writer[v].approved
  BY StartEffect DEF Pending
<1>4. CarryInv'
  <2>1. /\ writer'[w].pc = "save" /\ writer'[w].spec = c /\ writer'[w].seq = 0
        /\ \A v \in Writers \ {w} :
             /\ writer'[v].pc = writer[v].pc /\ writer'[v].spec = writer[v].spec
             /\ writer'[v].owner = writer[v].owner /\ writer'[v].seq = writer[v].seq
    BY StartEffect
  <2>2. c # None /\ 0 <= commits
    BY NoneIsApart, Numbers
  <2> QED
    BY <1>0, <2>1, <2>2 DEF CarryInv, At
<1>5. LatestInv'
  BY <1>0, <1>2, <1>3 DEF LatestInv
<1>6. StickyInv'
  BY <1>0, <1>3 DEF StickyInv, At, Pending
<1>7. AloneInv'
  <2>1. /\ writer'[w].pc = "save"
        /\ writer'[w].alone => \A u \in Writers \ {w} : At(u, "idle")
        /\ \A v \in Writers \ {w} : writer'[v].pc = writer[v].pc /\ writer'[v].alone = FALSE
    BY StartEffect
  <2> QED
    BY <2>1 DEF AloneInv, At, Pending
<1>8. ListInv'
  BY <1>0, <1>2 DEF ListInv, At, Pending
<1> QED
  BY <1>1, <1>4, <1>5, <1>6, <1>7, <1>8

\* The owner's key and the user's set come before the mirror of a submit.
LEMMA IndexKeeps ==
  ASSUME MirrorInv, NEW w \in Writers, SubmitIndex(w)
  PROVE  MirrorInv'
<1> USE DEF MirrorInv
<1>0. UNCHANGED <<commits, row, newest, up, outages, flushed, torn, missed, crossed>>
  BY IndexEffect DEF PackageStep, weather
<1>1. TypeOK'
  BY <1>0, IndexEffect DEF TypeOK
<1>2. \A v \in Writers : /\ Pending(v)' <=> Pending(v)
                         /\ writer'[v].seq = writer[v].seq /\ writer'[v].spec = writer[v].spec
                         /\ writer'[v].owner = writer[v].owner
                         /\ writer'[v].approved = writer[v].approved
                         /\ writer'[v].alone = writer[v].alone
                         /\ At(v, "idle")' <=> At(v, "idle")
                         /\ At(v, "mirror") => At(v, "mirror")'
                         /\ v # w => writer'[v].pc = writer[v].pc
  BY IndexEffect DEF Pending, At
<1>3. redis'.spec = redis.spec /\ redis'.approved = redis.approved /\ writer[w].owner = Owner
  BY IndexEffect DEF CarryInv
<1>4. CarryInv'
  <2>1. /\ writer[w].pc \in {"owner", "list"} /\ writer'[w].pc \in {"list", "mirror"}
    BY IndexEffect
  <2> QED
    BY <1>0, <1>2, <1>3, <2>1 DEF CarryInv, At
<1>5. LatestInv'
  BY <1>0, <1>2, <1>3 DEF LatestInv
<1>6. StickyInv'
  <2>1. writer'[w].pc \in {"list", "mirror"} /\ writer'[w].owner = Owner
    BY <1>2, <1>3, IndexEffect
  <2> QED
    BY <1>0, <1>2, <1>3, <2>1 DEF StickyInv
<1>7. AloneInv'
  BY <1>0, <1>2 DEF AloneInv
<1>8. ListInv'
  <2>1. CASE writer[w].pc = "owner"
    <3>1. redis'.owner = Owner /\ redis'.listed = redis.listed /\ writer'[w].pc = "list"
      BY <2>1, IndexEffect
    <3>2. \A v \in Writers : At(v, "mirror")' => At(v, "mirror")
      BY <1>2, <3>1 DEF At
    <3> QED
      BY <1>0, <1>2, <1>3, <3>1, <3>2 DEF ListInv
  <2>2. CASE writer[w].pc = "list"
    <3>1. redis'.owner = redis.owner /\ redis'.listed = TRUE /\ writer'[w].pc = "mirror" /\ At(w, "list")
      BY <2>2, IndexEffect DEF At
    <3> QED
      BY <1>0, <1>2, <1>3, <3>1 DEF ListInv
  <2> QED
    BY <2>1, <2>2, IndexEffect
<1> QED
  BY <1>1, <1>4, <1>5, <1>6, <1>7, <1>8

\* An edit's second read finds the latest commit, or nothing to mirror.
LEMMA RereadKeeps ==
  ASSUME MirrorInv, NEW w \in Writers, EditReread(w)
  PROVE  MirrorInv'
<1> USE DEF MirrorInv
<1>0. UNCHANGED <<redis, row, commits, newest, up, outages, flushed, torn, crossed>>
      /\ \A v \in Writers \ {w} : writer'[v] = writer[v]
  BY RereadEffect
<1>1. missed' \in BOOLEAN /\ (missed => missed')
  BY RereadEffect DEF TypeOK
<1>2. TypeOK'
  BY <1>0, <1>1, RereadEffect DEF TypeOK
<1>3. CASE redis.spec = None
  <2>0. missed' = TRUE /\ writer'[w] = Free
    BY <1>3, RereadEffect
  <2>1. /\ missed' = TRUE /\ writer'[w].pc = "idle" /\ writer'[w].seq = 0 /\ writer'[w].alone = FALSE
        /\ 0 <= commits
    BY <2>0, Numbers DEF Free
  <2>2. CarryInv' /\ LatestInv' /\ StickyInv'
    BY <1>0, <1>3, <2>1 DEF CarryInv, LatestInv, StickyInv, At
  <2>3. AloneInv' /\ ListInv'
    BY <1>0, <2>1 DEF AloneInv, ListInv, At, Pending
  <2> QED
    BY <1>2, <2>2, <2>3
<1>4. CASE redis.spec # None
  <2>1. /\ missed' = missed /\ writer[w].pc = "reread" /\ writer'[w].pc = "mirror"
        /\ writer'[w].spec = redis.spec /\ writer'[w].seq = commits
        /\ writer'[w].alone = writer[w].alone /\ writer'[w].owner = writer[w].owner
        /\ writer'[w].approved = writer[w].approved
    BY <1>4, RereadEffect
  <2>2. CarryInv'
    BY <1>0, <1>4, <2>1, Numbers DEF CarryInv, At
  <2>3. LatestInv'
    BY <1>0, <2>1 DEF LatestInv, Pending
  <2>4. StickyInv'
    BY <1>0, <2>1 DEF StickyInv, At
  <2>5. AloneInv'
    BY <1>0, <2>1 DEF AloneInv, At, Pending
  <2>6. ListInv'
    <3>1. \A v \in Writers : At(v, "list")' => At(v, "list")
      BY <1>0, <2>1 DEF At
    <3>2. \A v \in Writers : At(v, "mirror")' /\ writer'[v].owner = Owner => v # w
      BY <2>1, NoneIsApart DEF CarryInv, At
    <3> QED
      BY <1>0, <1>4, <2>1, <3>1, <3>2 DEF ListInv, At
  <2> QED
    BY <1>2, <2>2, <2>3, <2>4, <2>5, <2>6
<1> QED
  BY <1>3, <1>4

\* A mirror that lands is the latest, or crossed; one that is lost is remembered.
LEMMA MirrorKeeps ==
  ASSUME MirrorInv, NEW w \in Writers, MirrorPackage(w)
  PROVE  MirrorInv'
<1> USE DEF MirrorInv
<1>1. /\ writer' = [writer EXCEPT ![w] = Free] /\ writer[w].pc = "mirror" /\ writer[w].spec # None
      /\ UNCHANGED <<redis, commits, up, outages, flushed, torn>>
  BY MirrorEffect
<1>2. /\ writer' \in [Writers -> RequestType]
      /\ writer'[w].pc = "idle" /\ writer'[w].alone = FALSE /\ writer'[w].seq = 0
      /\ \A v \in Writers \ {w} : writer'[v] = writer[v]
  BY <1>1, FreeEffect
<1>3. AloneInv'
  BY <1>1, <1>2 DEF AloneInv, At, Pending
<1>4. \A v \in Writers : Pending(v)' => v # w /\ writer'[v] = writer[v]
  BY <1>2 DEF Pending
<1>5. CASE ~up
  <2>1. missed' = TRUE /\ UNCHANGED <<row, newest, crossed>>
    BY <1>5, MirrorEffect
  <2>2. TypeOK'
    BY <1>1, <1>2, <2>1 DEF TypeOK
  <2>3. CarryInv'
    BY <1>1, <1>2, <2>1, Numbers DEF CarryInv, At
  <2>4. LatestInv'
    BY <1>1, <1>2, <1>4, <2>1 DEF LatestInv, Pending
  <2>5. StickyInv'
    BY <2>1 DEF StickyInv
  <2>6. ListInv'
    BY <1>1, <1>2, <2>1 DEF ListInv, At, Pending
  <2> QED
    BY <1>3, <2>2, <2>3, <2>4, <2>5, <2>6
<1>6. CASE up
  <2> DEFINE m == writer[w]
  <2>1. /\ row' = Upsert(m) /\ missed' = missed
        /\ m.seq > newest => newest' = m.seq
        /\ m.seq <= newest => newest' = newest
        /\ crossed' \in BOOLEAN /\ (crossed' <=> crossed \/ m.seq < newest)
    BY <1>6, MirrorEffect
  <2>2. m \in RequestType /\ m.spec # None
    BY <1>1 DEF TypeOK
  <2>3. /\ row' \in RowType /\ row' # None /\ row'.spec = m.spec
        /\ m.owner = Owner => row'.owner = Owner
        /\ row # None /\ row.owner = Owner => row'.owner = Owner
        /\ row'.owner = Owner => m.owner = Owner \/ (row # None /\ row.owner = Owner)
        /\ m.approved = TRUE => row'.approved
        /\ row # None /\ row.approved => row'.approved
    BY <2>1, <2>2, UpsertEffect
  <2>4. m.seq \in Nat /\ newest \in Nat /\ commits \in Nat /\ m.seq <= commits /\ newest <= commits
    BY Numbers DEF CarryInv
  <2>5. newest' \in 0..MaxWrites /\ newest' <= commits /\ (newest' = m.seq \/ newest' = newest)
    BY <2>1, <2>4, Numbers
  <2>6. TypeOK'
    BY <1>1, <1>2, <2>1, <2>3, <2>5 DEF TypeOK, OrNone
  <2>7. CarryInv'
    BY <1>1, <1>2, <2>4, <2>5 DEF CarryInv, At
  <2>8. LatestInv'
    <3>1. ASSUME redis.spec # None, ~crossed', newest' = commits PROVE row'.spec = redis.spec
      <4>1. m.seq = commits
        BY <2>1, <2>4, <3>1
      <4>2. Pending(w)
        BY <1>1 DEF Pending
      <4> QED
        BY <2>3, <3>1, <4>1, <4>2 DEF LatestInv
    <3>2. ASSUME redis.spec # None, ~missed
          PROVE  newest' = commits \/ \E v \in Writers : Pending(v)' /\ writer'[v].seq = commits
      <4>1. CASE m.seq = commits \/ newest = commits
        BY <2>1, <2>4, <4>1
      <4>2. CASE m.seq # commits /\ newest # commits
        <5>1. PICK v \in Writers : Pending(v) /\ writer[v].seq = commits
          BY <3>2, <4>2 DEF LatestInv
        <5>2. v # w /\ writer'[v] = writer[v]
          BY <1>2, <4>2, <5>1
        <5> QED
          BY <5>1, <5>2 DEF Pending
      <4> QED
        BY <4>1, <4>2
    <3> QED
      BY <1>1, <1>4, <2>1, <2>3, <3>1, <3>2 DEF LatestInv, Pending
  <2>9. StickyInv'
    BY <1>1, <1>2, <2>1, <2>3 DEF StickyInv, At
  <2>10. ListInv'
    BY <1>1, <1>2, <1>4, <2>3 DEF ListInv, At, Pending
  <2> QED
    BY <1>3, <2>6, <2>7, <2>8, <2>9, <2>10
<1> QED
  BY <1>5, <1>6

\* A crash loses the mirror, a flush what Redis held.
LEMMA FaultKeeps ==
  ASSUME MirrorInv,
         (\E w \in Writers : WriterCrash(w)) \/ PostgresDown \/ PostgresUp \/ Flush \/ UNCHANGED vars
  PROVE  MirrorInv'
<1> USE DEF MirrorInv
<1>1. ASSUME NEW w \in Writers, WriterCrash(w) PROVE MirrorInv'
  <2>1. /\ writer' = [writer EXCEPT ![w] = Free] /\ missed' = TRUE
        /\ UNCHANGED <<redis, row, commits, newest, up, outages, flushed, torn, crossed>>
    BY <1>1 DEF WriterCrash, weather
  <2>2. /\ writer' \in [Writers -> RequestType]
        /\ writer'[w].pc = "idle" /\ writer'[w].alone = FALSE /\ writer'[w].seq = 0
        /\ \A v \in Writers \ {w} : writer'[v] = writer[v]
    BY <2>1, FreeEffect
  <2>3. TypeOK'
    BY <2>1, <2>2 DEF TypeOK
  <2>4. CarryInv'
    BY <2>1, <2>2, Numbers DEF CarryInv, At
  <2>5. LatestInv' /\ StickyInv'
    BY <2>1, <2>2 DEF LatestInv, StickyInv, Pending
  <2>6. AloneInv' /\ ListInv'
    BY <2>1, <2>2 DEF AloneInv, ListInv, At, Pending
  <2> QED
    BY <2>3, <2>4, <2>5, <2>6
<1>2. CASE Flush
  <2>1. /\ ~flushed /\ flushed' = TRUE /\ redis' = Empty
        /\ torn' = \E w \in Writers : At(w, "list")
        /\ UNCHANGED <<row, writer, commits, newest, up, outages, missed, crossed>>
    BY <1>2 DEF Flush
  <2>2. /\ redis' \in KeysType /\ redis'.spec = None /\ redis'.owner = None
        /\ redis'.listed = FALSE /\ redis'.approved = FALSE
    BY <2>1, RecordTypes DEF Empty
  <2>3. torn' \in BOOLEAN /\ (~torn' => ~ \E w \in Writers : At(w, "list"))
    BY <2>1
  <2>4. TypeOK'
    BY <2>1, <2>2, <2>3 DEF TypeOK
  <2>5. CarryInv' /\ LatestInv' /\ StickyInv' /\ AloneInv'
    BY <2>1, <2>2 DEF CarryInv, LatestInv, StickyInv, AloneInv, At, Pending
  <2>6. ListInv'
    BY <2>1, <2>2, <2>3 DEF ListInv, At
  <2> QED
    BY <2>4, <2>5, <2>6
<1>3. CASE PostgresDown \/ PostgresUp
  <2>1. /\ UNCHANGED <<redis, row, writer, commits, newest, flushed, torn, missed, crossed>>
        /\ up' \in BOOLEAN
    BY <1>3 DEF PostgresDown, PostgresUp, packages
  <2>2. outages' \in 0..MaxOutages
    BY <1>3, MirrorAssumption DEF PostgresDown, PostgresUp, TypeOK
  <2>3. TypeOK'
    BY <2>1, <2>2 DEF TypeOK
  <2> QED
    BY <2>1, <2>3 DEF CarryInv, LatestInv, StickyInv, AloneInv, ListInv, At, Pending
<1>4. CASE UNCHANGED vars
  BY <1>4 DEF vars, packages, weather, TypeOK, CarryInv, LatestInv, StickyInv, AloneInv, ListInv, At, Pending
<1> QED
  BY <1>1, <1>2, <1>3, <1>4

-----------------------------------------------------------------------------
(* The theorems. *)

\* The first state.
LEMMA InitMirror == Init => MirrorInv
<1> SUFFICES ASSUME Init PROVE MirrorInv
  OBVIOUS
<1>1. \A w \in Writers : writer[w] = Free
  BY DEF Init
<1>2. \A w \in Writers : writer[w].pc = "idle" /\ writer[w].seq = 0 /\ writer[w].alone = FALSE
  BY <1>1 DEF Free
<1>3. /\ redis.spec = None /\ redis.owner = None /\ redis.listed = FALSE /\ redis.approved = FALSE
      /\ redis \in KeysType /\ writer \in [Writers -> RequestType]
  BY RecordTypes DEF Init, Empty
<1>4. TypeOK
  <2>1. commits \in 0..MaxWrites /\ newest \in 0..MaxWrites /\ outages \in 0..MaxOutages
    BY MirrorAssumption DEF Init
  <2>2. up \in BOOLEAN /\ flushed \in BOOLEAN /\ torn \in BOOLEAN /\ missed \in BOOLEAN /\ crossed \in BOOLEAN
    BY DEF Init
  <2> QED
    BY <1>3, <2>1, <2>2 DEF TypeOK, OrNone, Init
<1>5. CarryInv /\ LatestInv
  BY <1>2, <1>3 DEF CarryInv, LatestInv, At, Init
<1>6. StickyInv /\ AloneInv /\ ListInv
  BY <1>2, <1>3 DEF StickyInv, AloneInv, ListInv, At, Pending, Init
<1> QED
  BY <1>4, <1>5, <1>6 DEF MirrorInv

\* Every step.
LEMMA NextMirror == ASSUME MirrorInv, [Next]_vars PROVE MirrorInv'
<1>1. ASSUME NEW w \in Writers, NEW c \in Contents,
             Submit(w, c) \/ SaveStart(w, c) \/ Replace(w, c) \/ Approve(w, c) \/ Edit(w, c)
      PROVE  MirrorInv'
  <2>1. CASE SaveStart(w, c)
    BY <2>1, StartKeeps
  <2>2. CASE Submit(w, c) \/ Replace(w, c) \/ Approve(w, c) \/ Edit(w, c)
    <3>1. Committing(w, c)
      BY <2>2, CommitEffect DEF MirrorInv
    <3> QED
      BY <3>1, CommitKeeps
  <2> QED
    BY <1>1, <2>1, <2>2
<1>2. ASSUME NEW w \in Writers, SubmitIndex(w) \/ SaveSet(w) \/ EditReread(w) \/ MirrorPackage(w)
      PROVE  MirrorInv'
  <2>1. CASE SaveSet(w)
    <3>1. writer[w].spec \in Contents /\ Committing(w, writer[w].spec)
      BY <2>1, SaveEffect DEF MirrorInv
    <3> QED
      BY <3>1, CommitKeeps
  <2> QED
    BY <1>2, <2>1, IndexKeeps, RereadKeeps, MirrorKeeps
<1> QED
  BY <1>1, <1>2, FaultKeeps DEF Next, PackageWrite

\* In every reachable state what was committed last is in Redis, and what Postgres lacks of
\* it is on its way or was lost (save_package, approve_and_seed, update_asset_content).
THEOREM MirrorIsConsistent == Spec => []MirrorInv
BY InitMirror, NextMirror, PTL DEF Spec

\* The variables keep their types (the keys of store.py and the row of pg.py).
THEOREM MirrorTypeCorrect == Spec => []TypeOK
<1>1. MirrorInv => TypeOK
  BY DEF MirrorInv
<1> QED
  BY <1>1, MirrorIsConsistent, PTL

\* Once every request is over Postgres has what Redis has, for any number of requests and
\* commits, unless a mirror was lost or overtaken (the _mirror calls of store.py).
THEOREM MirrorConverges == Spec => []MirrorsConverge
<1>1. ASSUME MirrorInv PROVE MirrorsConverge
  <2> SUFFICES ASSUME Quiet, redis.spec # None, ~missed, ~crossed
               PROVE  /\ row # None /\ row.spec = redis.spec
                      /\ redis.owner # None => row.owner = redis.owner
                      /\ redis.approved => row.approved
    BY DEF MirrorsConverge
  <2>1. \A w \in Writers : ~Pending(w) /\ ~At(w, "mirror") /\ writer[w].pc \notin {"list", "mirror"}
    BY DEF Quiet, At, Pending
  <2>2. row # None /\ row.spec = redis.spec
    BY <1>1, <2>1 DEF MirrorInv, LatestInv
  <2>3. redis.owner # None => redis.owner = Owner /\ row.owner = Owner
    BY <1>1, <2>1 DEF MirrorInv, StickyInv, TypeOK, KeysType
  <2>4. redis.approved => row.approved
    BY <1>1, <2>1 DEF MirrorInv, StickyInv
  <2> QED
    BY <2>2, <2>3, <2>4
<1> QED
  BY <1>1, MirrorIsConsistent, PTL

\* Whatever was lost or overtaken before, one request that runs alone brings the mirror up
\* to date (_UPSERT_PACKAGE after the commit).
THEOREM MirrorIsHealed == Spec => MirrorHeals
<1> DEFINE A == \A w \in Writers :
                  MirrorPackage(w) /\ writer[w].alone /\ up /\ redis.spec # None => row'.spec = redis.spec
<1>1. ASSUME MirrorInv, [Next]_vars PROVE [A]_vars
  <2> SUFFICES ASSUME NEW w \in Writers, MirrorPackage(w), writer[w].alone, up, redis.spec # None
               PROVE  row'.spec = redis.spec
    OBVIOUS
  <2>1. TypeOK /\ CarryInv /\ AloneInv /\ LatestInv
    BY <1>1 DEF MirrorInv
  <2>2. row' = Upsert(writer[w]) /\ writer[w].pc = "mirror" /\ writer[w].spec # None
    BY <2>1, MirrorEffect
  <2>3. writer[w] \in RequestType
    BY <2>1 DEF TypeOK
  <2>4. row'.spec = writer[w].spec
    BY <2>1, <2>2, <2>3, UpsertEffect
  <2>5. Pending(w) /\ writer[w].seq = commits
    BY <2>1, <2>2 DEF AloneInv, Pending
  <2> QED
    BY <2>1, <2>4, <2>5 DEF LatestInv
<1> QED
  BY <1>1, MirrorIsConsistent, PTL DEF Spec, MirrorHeals

\* What the History list shows can be opened and what has an owner stays listed, but for a
\* submit cut in two by a flush, or a flush and an outage together (_user_project_ids,
\* get_package and get_project_owner).
THEOREM HistoryIsHeld == Spec => []HistoryHolds
<1>1. ASSUME MirrorInv PROVE HistoryHolds
  <2>1. TypeOK /\ ListInv
    BY <1>1 DEF MirrorInv
  <2>2. /\ redis.owner \in {Owner, None} /\ redis.listed \in BOOLEAN
        /\ row # None => row.spec \in Contents /\ row.owner \in {Owner, None}
    BY <2>1 DEF TypeOK, KeysType, RowType, OrNone
  <2>3. ASSUME InHistory, up \/ ~torn PROVE Owned /\ GetPackage # None
    <3>1. CASE up
      BY <2>2, <2>3, <3>1 DEF InHistory, Owned, GetProjectOwner
    <3>2. CASE ~up
      <4>1. redis.listed
        BY <2>3, <3>2 DEF InHistory
      <4>2. redis.owner = Owner
        BY <2>1, <2>3, <3>2, <4>1 DEF ListInv
      <4> QED
        BY <2>3, <4>2, NoneIsApart DEF InHistory, Owned, GetProjectOwner
    <3> QED
      BY <3>1, <3>2
  <2>4. ASSUME row # None, row.owner = Owner, up \/ ~flushed PROVE InHistory
    <3>1. CASE up
      BY <2>2, <2>4, <3>1, NoneIsApart DEF InHistory, GetPackage
    <3>2. CASE ~up
      <4>1. redis.listed /\ redis.spec # None
        BY <2>1, <2>4, <3>2 DEF ListInv
      <4> QED
        BY <3>2, <4>1 DEF InHistory, GetPackage
    <3> QED
      BY <3>1, <3>2
  <2> QED
    BY <2>3, <2>4 DEF HistoryHolds
<1> QED
  BY <1>1, MirrorIsConsistent, PTL
=============================================================================
