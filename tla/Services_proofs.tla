--------------------------- MODULE Services_proofs ---------------------------
(***************************************************************************)
(* What the services around a run promise, each for every value of its     *)
(* constants: the history of a node agrees with its hash (NodeHistory), a  *)
(* session that was destroyed is refused and one that lives is indexed     *)
(* (Sessions), every bill of a render is recorded (RenderAttempt), and no  *)
(* bucket gives more than its rate (TokenBucket).                          *)
(* They share no variable; each has a specification of its own here.       *)
(***************************************************************************)
EXTENDS Integers, NodeHistory, Sessions, RenderAttempt, TokenBucket, TLAPS

-----------------------------------------------------------------------------
(* NodeHistory: the invariant. *)

HistorySpec == HistoryInit /\ [][HistoryNext]_historyVars

\* A write of a is committed and its mirror is still to come.
Owes(a) == unmirrored[a] # Written

NodeStates == {"pending", "dispatched", "succeeded", "failed"}

HashType == [status : NodeStates, error : BOOLEAN]
RecordType == [status : NodeStates \cup {"none"}, error : BOOLEAN]
WriteType ==
  [status : NodeStates \cup {"none"}, error : BOOLEAN, seq : Nat, reset : BOOLEAN]

HistoryTypes ==
  /\ hash \in HashType
  /\ record \in RecordType
  /\ unmirrored \in [Actors -> WriteType]
  /\ committed \in Nat /\ landed \in Nat /\ upset \in BOOLEAN

\* Each commit is mirrored once: it is owed by one actor, has landed, or is lost.
OwedInv ==
  /\ landed <= committed
  /\ hash.status # "pending" => committed > 0
  /\ \A a \in Actors : Owes(a) =>
       /\ unmirrored[a].seq \in 1..committed /\ unmirrored[a].seq # landed
       /\ unmirrored[a].status # "none"
       /\ unmirrored[a].reset => unmirrored[a].seq > 1 /\ ~unmirrored[a].error
       /\ unmirrored[a].seq = committed => unmirrored[a].status = hash.status
  /\ \A a, b \in Actors : Owes(a) /\ Owes(b) /\ a # b => unmirrored[a].seq # unmirrored[b].seq
  /\ ~upset => \A n \in 1..committed : n <= landed \/ \E a \in Actors : Owes(a) /\ unmirrored[a].seq = n

\* No mirror was lost or overtaken, and none will have been if they land in order from here.
InOrder == ~upset /\ \A a \in Actors : Owes(a) => landed < unmirrored[a].seq

\* The error that will be in the row once every mirror owed has landed in order.
ErrorToCome ==
  \/ \E a \in Actors :
       /\ Owes(a) /\ unmirrored[a].error
       /\ \A b \in Actors : Owes(b) /\ unmirrored[b].reset => unmirrored[b].seq < unmirrored[a].seq
  \/ record.error /\ \A b \in Actors : Owes(b) => ~unmirrored[b].reset

\* As long as the mirrors land in order, the row is the hash of an earlier moment.
AgreeInv ==
  InOrder =>
    /\ landed > 0 => record # NoRecord
    /\ landed = committed /\ committed > 0 => record.status = hash.status
    /\ hash.error <=> ErrorToCome

HistoryInv == HistoryTypes /\ OwedInv /\ AgreeInv

-----------------------------------------------------------------------------
(* Sessions: the invariant. *)

SessionSpec == SessionInit /\ [][SessionNext]_sessionVars

Users == Signups \cup {Nobody}

SessionType == [live : BOOLEAN, user : Users, created : Nat, ends : Nat]
TouchType ==
  [pc : {"idle", "read", "stamped", "accepted", "destroy", "delete", "unindex"},
   sid : Sids \cup {Nobody}, user : Users, created : Nat, late : BOOLEAN, age : Int]

SessionTypes ==
  /\ nameOf \in Users
  /\ account \subseteq Signups
  /\ signup \in [Signups -> {"start", "claimed", "taken", "done"}]
  /\ session \in [Sids -> SessionType]
  /\ index \in [sids : SUBSET Sids, ends : Nat]
  /\ mint \in [Sids -> {"none", "hash", "index", "done"}]
  /\ cookie \subseteq Sids
  /\ touch \in [Requests -> TouchType]
  /\ revoked \subseteq Sids
  /\ hours \in Nat

\* The hash of s, if there is one, is what a late HSET made: it names no user.
Hollow(s) == session[s].live => session[s].user = Nobody

\* A session belongs to an account and to a cookie that went out; a destroyed one stays
\* destroyed.
OwnerInv ==
  /\ \A s \in Sids : session[s].user \in account \cup {Nobody} /\ session[s].created <= hours
  /\ \A s \in cookie \cup revoked : mint[s] = "done"
  /\ \A s \in revoked : Hollow(s)

\* What a request has read, and what is left of it at each command.
TouchInv ==
  \A r \in Requests : touch[r].pc # "idle" =>
    /\ touch[r].sid \in Sids /\ mint[touch[r].sid] = "done"
    /\ touch[r].pc = "read" => /\ touch[r].user \in account \cup {Nobody}
                               /\ touch[r].late => touch[r].user = Nobody
    /\ touch[r].pc \in {"stamped", "accepted"} => touch[r].user \in account /\ ~touch[r].late
    /\ touch[r].pc = "stamped" => hours <= touch[r].created + Cap
    /\ touch[r].pc = "accepted" => touch[r].age <= Cap
    /\ touch[r].pc = "unindex" => Hollow(touch[r].sid)

\* The index has a session from before its cookie goes out to the end of its absolute cap.
IndexInv ==
  /\ \A s \in Sids : mint[s] = "index" => s \in index.sids
  /\ \A s \in cookie : session[s].live /\ session[s].user # Nobody =>
       \/ s \in index.sids /\ session[s].created + Cap <= index.ends
       \/ session[s].created + Cap <= hours

SessionInv == SessionTypes /\ OwnerInv /\ TouchInv /\ IndexInv

-----------------------------------------------------------------------------
(* RenderAttempt: the invariant. *)

AttemptSpec == AttemptInit /\ [][AttemptNext]_attemptVars

AttemptTypes ==
  /\ direct \in BOOLEAN /\ slow \in BOOLEAN
  /\ stage \in {"load", "token", "submit", "poll", "record", "refused", "archive", "write"} \cup Outcomes
  /\ tries \in Nat /\ attempts \in Nat /\ jobs \in Nat /\ polls \in Nat
  /\ spent \in Nat /\ billed \in Nat /\ missed \in Nat /\ unheard \in Nat

\* Before a submit is answered each try has counted an attempt, at most one of them made a
\* job, and there is one left to make.
TriesAreAttempts ==
  /\ stage \in {"load", "token", "submit"} => tries <= attempts /\ jobs = unheard
  /\ stage \in {"load", "token"} => tries < MaxTries /\ jobs <= tries
  /\ stage = "submit" => tries <= MaxTries /\ jobs < tries
  /\ jobs <= attempts /\ jobs <= MaxTries
  /\ jobs <= 1 + unheard

\* What is billed, recorded and missed at each stage.
BillAndRecord ==
  /\ stage \in {"load", "token", "submit"} => billed = 0 /\ spent = 0
  /\ stage = "poll" => billed = (IF direct THEN 1 ELSE 0) /\ spent = 0
  /\ stage \in {"record", "refused"} => billed = 1 /\ spent = 0
  /\ stage \in {"archive", "write"} => billed = 1 /\ 1 <= spent
  /\ stage \in Outcomes => billed <= spent + missed
  /\ stage \notin {"failed", "unwritten"} => missed = 0
  /\ spent <= 1 + Resends /\ (billed = 0 => spent = 0)

AttemptInv == AttemptTypes /\ TriesAreAttempts /\ BillAndRecord

-----------------------------------------------------------------------------
(* NodeHistory: the proofs. *)

\* The node is new and nothing was written.
LEMMA InitHistory == HistoryInit => HistoryInv
<1> SUFFICES ASSUME HistoryInit PROVE HistoryInv OBVIOUS
<1>1. \A a \in Actors : ~Owes(a) BY DEF HistoryInit, Owes
<1>2. hash.status = "pending" /\ hash.error = FALSE /\ record.error = FALSE
  BY DEF HistoryInit, NoRecord
<1>3. HistoryTypes
  <2>1. Written \in WriteType BY DEF Written, WriteType, NodeStates
  <2>2. hash \in HashType /\ record \in RecordType
    BY DEF HistoryInit, NoRecord, HashType, RecordType, NodeStates
  <2> QED BY <2>1, <2>2 DEF HistoryInit, HistoryTypes
<1>4. OwedInv BY <1>1, <1>2 DEF HistoryInit, OwedInv
<1>5. AgreeInv BY <1>1, <1>2 DEF HistoryInit, AgreeInv, ErrorToCome
<1> QED BY <1>3, <1>4, <1>5 DEF HistoryInv

\* What a commit does: the newest write is owed by a, whoever owed one still does.
LEMMA CommitEffect ==
  ASSUME HistoryInv, NEW a \in Actors, NEW after \in HashType, NEW given \in BOOLEAN,
         NEW reset \in BOOLEAN, CommitNode(a, after, given, reset)
  PROVE  /\ HistoryTypes'
         /\ committed' = committed + 1 /\ hash' = after
         /\ record' = record /\ landed' = landed /\ (upset' <=> upset)
         /\ unmirrored'[a].status = after.status /\ unmirrored'[a].seq = committed + 1
         /\ (unmirrored'[a].error <=> given) /\ (unmirrored'[a].reset <=> reset)
         /\ ~Owes(a) /\ Owes(a)'
         /\ \A b \in Actors \ {a} : unmirrored'[b] = unmirrored[b] /\ (Owes(b)' <=> Owes(b))
<1> DEFINE w == [status |-> after.status, error |-> given, seq |-> committed + 1, reset |-> reset]
<1>1. unmirrored \in [Actors -> WriteType] /\ committed \in Nat
  BY DEF HistoryInv, HistoryTypes
<1>2. /\ w \in WriteType /\ w.status = after.status /\ w.seq = committed + 1
      /\ w.error = given /\ w.reset = reset /\ w # Written
  BY <1>1 DEF HashType, WriteType, NodeStates, Written
<1>3. unmirrored' = [unmirrored EXCEPT ![a] = w]
  BY DEF CommitNode
<1> HIDE DEF w
<1>4. unmirrored' \in [Actors -> WriteType] /\ unmirrored'[a] = w
      /\ \A b \in Actors \ {a} : unmirrored'[b] = unmirrored[b]
  BY <1>1, <1>2, <1>3
<1>5. HistoryTypes'
  BY <1>1, <1>4 DEF HistoryInv, HistoryTypes, CommitNode
<1> QED BY <1>1, <1>2, <1>4, <1>5 DEF CommitNode, Owes

\* A commit keeps the invariant: its mirror, owed last, will bring the row to the new hash.
LEMMA CommitKeeps ==
  ASSUME HistoryInv, NEW a \in Actors, NEW after \in HashType, NEW given \in BOOLEAN,
         NEW reset \in BOOLEAN, CommitNode(a, after, given, reset),
         reset => ~given /\ committed > 0,
         after.error <=> given \/ (~reset /\ hash.error)
  PROVE  HistoryInv'
<1>1. committed \in Nat /\ landed \in Nat /\ upset \in BOOLEAN /\ record \in RecordType
      /\ hash \in HashType /\ unmirrored \in [Actors -> WriteType]
  BY DEF HistoryInv, HistoryTypes
<1>2. OwedInv'
  <2>1. \A b \in Actors : Owes(b)' =>
          /\ unmirrored'[b].seq \in 1..committed' /\ unmirrored'[b].seq # landed'
          /\ unmirrored'[b].status # "none"
          /\ unmirrored'[b].reset => unmirrored'[b].seq > 1 /\ ~unmirrored'[b].error
          /\ unmirrored'[b].seq = committed' => unmirrored'[b].status = hash'.status
    <3> SUFFICES ASSUME NEW b \in Actors, Owes(b)'
                 PROVE  /\ unmirrored'[b].seq \in 1..committed' /\ unmirrored'[b].seq # landed'
                        /\ unmirrored'[b].status # "none"
                        /\ unmirrored'[b].reset => unmirrored'[b].seq > 1 /\ ~unmirrored'[b].error
                        /\ unmirrored'[b].seq = committed' => unmirrored'[b].status = hash'.status
      OBVIOUS
    <3>1. CASE b = a
      BY <3>1, <1>1, CommitEffect DEF HistoryInv, OwedInv, HashType, NodeStates
    <3>2. CASE b # a
      BY <3>2, <1>1, CommitEffect DEF HistoryInv, OwedInv
    <3> QED BY <3>1, <3>2
  <2>2. \A b, c \in Actors : Owes(b)' /\ Owes(c)' /\ b # c => unmirrored'[b].seq # unmirrored'[c].seq
    <3>1. \A b \in Actors \ {a} : Owes(b) => unmirrored[b].seq <= committed
      BY <1>1 DEF HistoryInv, OwedInv
    <3> QED BY <3>1, <1>1, CommitEffect DEF HistoryInv, OwedInv
  <2>3. ~upset' => \A n \in 1..committed' :
          n <= landed' \/ \E b \in Actors : Owes(b)' /\ unmirrored'[b].seq = n
    <3> SUFFICES ASSUME ~upset', NEW n \in 1..committed', ~(n <= landed')
                 PROVE  \E b \in Actors : Owes(b)' /\ unmirrored'[b].seq = n
      OBVIOUS
    <3>1. CASE n = committed + 1 BY <3>1, CommitEffect
    <3>2. CASE n # committed + 1
      <4>1. n \in 1..committed /\ ~(n <= landed) /\ ~upset BY <3>2, <1>1, CommitEffect
      <4>2. PICK b \in Actors : Owes(b) /\ unmirrored[b].seq = n
        BY <4>1 DEF HistoryInv, OwedInv
      <4>3. b # a BY <4>2, CommitEffect
      <4> QED BY <4>2, <4>3, CommitEffect
    <3> QED BY <3>1, <3>2
  <2> QED BY <2>1, <2>2, <2>3, <1>1, CommitEffect DEF HistoryInv, OwedInv
<1>3. AgreeInv'
  <2> SUFFICES ASSUME InOrder'
               PROVE  /\ landed' > 0 => record' # NoRecord
                      /\ landed' = committed' /\ committed' > 0 => record'.status = hash'.status
                      /\ hash'.error <=> ErrorToCome'
    BY DEF AgreeInv
  <2>1. InOrder
    BY CommitEffect DEF InOrder
  <2>2. (landed > 0 => record # NoRecord) /\ landed < committed + 1 /\ (hash.error <=> ErrorToCome)
    BY <2>1, <1>1 DEF HistoryInv, OwedInv, AgreeInv
  <2>3. \A b \in Actors \ {a} : Owes(b) => unmirrored'[b].seq < unmirrored'[a].seq
    <3>1. \A b \in Actors \ {a} : Owes(b) => unmirrored[b].seq \in 1..committed
      BY DEF HistoryInv, OwedInv
    <3> QED BY <3>1, <1>1, CommitEffect
  <2>4. CASE reset
    <3>1. ~ErrorToCome'
      <4>1. unmirrored'[a].reset /\ ~unmirrored'[a].error /\ Owes(a)' BY <2>4, CommitEffect
      <4>2. \A b \in Actors \ {a} : Owes(b)' => ~(unmirrored'[a].seq < unmirrored'[b].seq)
        BY <2>3, <1>1, CommitEffect DEF HistoryTypes, WriteType
      <4> QED BY <4>1, <4>2 DEF ErrorToCome
    <3>2. ~hash'.error BY <2>4, CommitEffect
    <3> QED BY <3>1, <3>2, <2>2, <1>1, CommitEffect
  <2>5. CASE ~reset /\ given
    <3>1. unmirrored'[a].error /\ Owes(a)' /\ ~unmirrored'[a].reset BY <2>5, CommitEffect
    <3>2. \A b \in Actors : Owes(b)' /\ unmirrored'[b].reset => unmirrored'[b].seq < unmirrored'[a].seq
      BY <3>1, <2>3, CommitEffect
    <3>3. ErrorToCome' BY <3>1, <3>2 DEF ErrorToCome
    <3>4. hash'.error BY <2>5, CommitEffect
    <3> QED BY <3>3, <3>4, <2>2, <1>1, CommitEffect
  <2>6. CASE ~reset /\ ~given
    <3>1. ~unmirrored'[a].error /\ ~unmirrored'[a].reset /\ ~Owes(a) BY <2>6, CommitEffect
    <3>2. ErrorToCome' <=> ErrorToCome
      BY <3>1, CommitEffect DEF ErrorToCome
    <3>3. hash'.error <=> hash.error BY <2>6, CommitEffect
    <3> QED BY <3>2, <3>3, <2>2, <1>1, CommitEffect
  <2> QED BY <2>4, <2>5, <2>6
<1> QED BY <1>2, <1>3, CommitEffect DEF HistoryInv

\* Every commit of the daemon, of the worker and of a retry is such a commit.
LEMMA CommitSteps ==
  ASSUME HistoryInv, MarkDispatched \/ TakeBack \/ ResetHash \/ \E s \in {"succeeded", "failed"} : LandNode(s)
  PROVE  HistoryInv'
<1>1. hash \in HashType /\ committed \in Nat /\ (hash.status # "pending" => committed > 0)
  BY DEF HistoryInv, HistoryTypes, OwedInv
<1>2. ASSUME NEW status \in NodeStates
      PROVE  /\ [hash EXCEPT !.status = status] \in HashType
             /\ [hash EXCEPT !.status = status].error = hash.error
  BY <1>1 DEF HashType, NodeStates
<1>3. CASE MarkDispatched
  <2>1. CommitNode("daemon", [hash EXCEPT !.status = "dispatched"], FALSE, FALSE)
    BY <1>3 DEF MarkDispatched
  <2> QED BY <2>1, <1>2, CommitKeeps DEF Actors, NodeStates
<1>4. CASE TakeBack
  <2>1. CommitNode("daemon", [hash EXCEPT !.status = "pending"], FALSE, FALSE)
    BY <1>4 DEF TakeBack
  <2> QED BY <2>1, <1>2, CommitKeeps DEF Actors, NodeStates
<1>5. CASE ResetHash
  <2> DEFINE after == [status |-> "pending", error |-> FALSE]
  <2>1. CommitNode("retry", after, FALSE, TRUE) /\ committed > 0
    BY <1>5, <1>1 DEF ResetHash
  <2>2. after \in HashType /\ after.error = FALSE BY DEF HashType, NodeStates
  <2> HIDE DEF after
  <2> QED BY <2>1, <2>2, CommitKeeps DEF Actors
<1>6. ASSUME NEW s \in {"succeeded", "failed"}, LandNode(s)
      PROVE  HistoryInv'
  <2> DEFINE given == s = "failed"
             after == [status |-> s, error |-> hash.error \/ given]
  <2>1. CommitNode("worker", after, given, FALSE) BY <1>6 DEF LandNode
  <2>2. after \in HashType /\ (after.error <=> hash.error \/ given) /\ given \in BOOLEAN
    BY DEF HashType, NodeStates
  <2> HIDE DEF after, given
  <2> QED BY <2>1, <2>2, CommitKeeps DEF Actors
<1> QED BY <1>3, <1>4, <1>5, <1>6

\* What the mirror of a's write does, and that it is the next one if mirrors land in order.
LEMMA MirrorEffect ==
  ASSUME HistoryInv, NEW a \in Actors, MirrorNode(a)
  PROVE  /\ HistoryTypes'
         /\ hash' = hash /\ committed' = committed
         /\ landed' = unmirrored[a].seq
         /\ (upset' <=> upset \/ unmirrored[a].seq < landed)
         /\ unmirrored[a].reset /\ record # NoRecord =>
              record'.status = unmirrored[a].status /\ ~record'.error
         /\ ~unmirrored[a].reset =>
              /\ record'.status = unmirrored[a].status
              /\ record'.error <=> unmirrored[a].error \/ record.error
         /\ Owes(a) /\ ~Owes(a)'
         /\ \A b \in Actors \ {a} : unmirrored'[b] = unmirrored[b] /\ (Owes(b)' <=> Owes(b))
<1>1. /\ unmirrored \in [Actors -> WriteType] /\ record \in RecordType /\ upset \in BOOLEAN
      /\ hash \in HashType /\ committed \in Nat /\ landed \in Nat
  BY DEF HistoryInv, HistoryTypes
<1>2. /\ unmirrored[a].status \in NodeStates \cup {"none"} /\ unmirrored[a].error \in BOOLEAN
      /\ unmirrored[a].seq \in Nat /\ unmirrored[a].reset \in BOOLEAN
  BY <1>1 DEF WriteType
<1>3. Written \in WriteType BY DEF Written, WriteType, NodeStates
<1>4. /\ unmirrored' \in [Actors -> WriteType] /\ unmirrored'[a] = Written
      /\ \A b \in Actors \ {a} : unmirrored'[b] = unmirrored[b]
  BY <1>1, <1>3 DEF MirrorNode
<1>5. record' = RowAfter(unmirrored[a]) BY DEF MirrorNode
<1>6. /\ record' \in RecordType
      /\ unmirrored[a].reset /\ record # NoRecord =>
           record'.status = unmirrored[a].status /\ ~record'.error
      /\ ~unmirrored[a].reset =>
           /\ record'.status = unmirrored[a].status
           /\ record'.error <=> unmirrored[a].error \/ record.error
  <2>1. CASE unmirrored[a].reset /\ record = NoRecord
    BY <2>1, <1>5, <1>1, <1>2 DEF RowAfter
  <2>2. CASE unmirrored[a].reset /\ record # NoRecord
    BY <2>2, <1>5, <1>1, <1>2 DEF RowAfter, RecordType
  <2>3. CASE ~unmirrored[a].reset
    <3>1. record' = [status |-> unmirrored[a].status, error |-> unmirrored[a].error \/ record.error]
      BY <2>3, <1>5 DEF RowAfter
    <3>2. record.error \in BOOLEAN BY <1>1 DEF RecordType
    <3> QED BY <2>3, <3>1, <3>2, <1>2 DEF RecordType
  <2> QED BY <2>1, <2>2, <2>3, <1>2
<1>7. upset' \in BOOLEAN /\ (upset' <=> upset \/ unmirrored[a].seq < landed)
  BY <1>1, <1>2 DEF MirrorNode
<1>8. HistoryTypes'
  BY <1>1, <1>2, <1>4, <1>6, <1>7 DEF HistoryTypes, MirrorNode
<1> QED BY <1>4, <1>6, <1>7, <1>8 DEF MirrorNode, Owes

\* A mirror keeps the invariant: if it lands in order it is that of the next write, a reset
\* finds the row there, and what is still owed makes the rest of the difference.
LEMMA MirrorKeeps ==
  ASSUME HistoryInv, NEW a \in Actors, MirrorNode(a)
  PROVE  HistoryInv'
<1>1. /\ unmirrored \in [Actors -> WriteType] /\ record \in RecordType /\ upset \in BOOLEAN
      /\ hash \in HashType /\ committed \in Nat /\ landed \in Nat
  BY DEF HistoryInv, HistoryTypes
<1>2. \A b \in Actors : Owes(b) =>
        /\ unmirrored[b].seq \in 1..committed /\ unmirrored[b].seq # landed
        /\ unmirrored[b].status # "none"
        /\ unmirrored[b].reset => unmirrored[b].seq > 1 /\ ~unmirrored[b].error
        /\ unmirrored[b].seq = committed => unmirrored[b].status = hash.status
  BY DEF HistoryInv, OwedInv
<1>3. \A b \in Actors \ {a} : Owes(b) => unmirrored[b].seq # unmirrored[a].seq
  BY MirrorEffect DEF HistoryInv, OwedInv
<1>4. Owes(a) /\ unmirrored[a].seq \in 1..committed BY <1>2, MirrorEffect
<1>5. OwedInv'
  <2>1. landed' <= committed' /\ (hash'.status # "pending" => committed' > 0)
    BY <1>4, <1>1, MirrorEffect DEF HistoryInv, OwedInv
  <2>2. \A b \in Actors : Owes(b)' =>
          /\ unmirrored'[b].seq \in 1..committed' /\ unmirrored'[b].seq # landed'
          /\ unmirrored'[b].status # "none"
          /\ unmirrored'[b].reset => unmirrored'[b].seq > 1 /\ ~unmirrored'[b].error
          /\ unmirrored'[b].seq = committed' => unmirrored'[b].status = hash'.status
    BY <1>2, <1>3, MirrorEffect
  <2>3. \A b, c \in Actors : Owes(b)' /\ Owes(c)' /\ b # c => unmirrored'[b].seq # unmirrored'[c].seq
    BY MirrorEffect DEF HistoryInv, OwedInv
  <2>4. ~upset' => \A n \in 1..committed' :
          n <= landed' \/ \E b \in Actors : Owes(b)' /\ unmirrored'[b].seq = n
    <3> SUFFICES ASSUME ~upset', NEW n \in 1..committed', ~(n <= landed')
                 PROVE  \E b \in Actors : Owes(b)' /\ unmirrored'[b].seq = n
      OBVIOUS
    <3>1. n \in 1..committed /\ ~upset /\ ~(n <= landed) /\ n # unmirrored[a].seq
      BY <1>1, <1>4, MirrorEffect
    <3>2. PICK b \in Actors : Owes(b) /\ unmirrored[b].seq = n
      BY <3>1 DEF HistoryInv, OwedInv
    <3> QED BY <3>1, <3>2, MirrorEffect
  <2> QED BY <2>1, <2>2, <2>3, <2>4 DEF OwedInv
<1>6. AgreeInv'
  <2> SUFFICES ASSUME InOrder'
               PROVE  /\ landed' > 0 => record' # NoRecord
                      /\ landed' = committed' /\ committed' > 0 => record'.status = hash'.status
                      /\ hash'.error <=> ErrorToCome'
    BY DEF AgreeInv
  <2>1. ~upset /\ landed < unmirrored[a].seq
    BY <1>1, <1>2, <1>4, MirrorEffect DEF InOrder
  <2>2. \A b \in Actors \ {a} : Owes(b) => unmirrored[a].seq < unmirrored[b].seq
    BY MirrorEffect DEF InOrder
  <2>3. InOrder
    BY <2>1, <2>2, <1>1, <1>2, <1>4 DEF InOrder
  <2>4. /\ landed > 0 => record # NoRecord
        /\ hash.error <=> ErrorToCome
    BY <2>3 DEF HistoryInv, AgreeInv
  <2>5. unmirrored[a].seq = landed + 1
    <3>1. landed + 1 \in 1..committed /\ ~(landed + 1 <= landed) BY <2>1, <1>1, <1>4
    <3>2. PICK b \in Actors : Owes(b) /\ unmirrored[b].seq = landed + 1
      BY <3>1, <2>1 DEF HistoryInv, OwedInv
    <3>3. CASE b = a BY <3>2, <3>3
    <3>4. CASE b # a BY <3>2, <3>4, <2>1, <2>2, <1>1, <1>4
    <3> QED BY <3>3, <3>4
  <2>6. unmirrored[a].reset => record # NoRecord /\ ~unmirrored[a].error
    BY <1>2, <1>4, <1>1, <2>4, <2>5
  <2>7. record'.status = unmirrored[a].status /\ unmirrored[a].status # "none"
    BY <2>6, <1>2, <1>4, MirrorEffect
  <2>8. record' # NoRecord BY <2>7 DEF NoRecord
  <2>9. landed' = committed' => record'.status = hash'.status
    BY <2>7, <1>2, <1>4, MirrorEffect
  <2>10. ErrorToCome' <=> ErrorToCome
    <3>1. CASE unmirrored[a].reset
      <4>1. ~record'.error /\ ~unmirrored[a].error BY <3>1, <2>6, MirrorEffect
      <4>2. ErrorToCome => ErrorToCome'
        <5> SUFFICES ASSUME ErrorToCome PROVE ErrorToCome' OBVIOUS
        <5>1. PICK b \in Actors :
                /\ Owes(b) /\ unmirrored[b].error
                /\ \A c \in Actors : Owes(c) /\ unmirrored[c].reset => unmirrored[c].seq < unmirrored[b].seq
          BY <3>1, <1>4 DEF ErrorToCome
        <5>2. b # a BY <5>1, <4>1
        <5> QED BY <5>1, <5>2, MirrorEffect DEF ErrorToCome
      <4>3. ErrorToCome' => ErrorToCome
        <5> SUFFICES ASSUME ErrorToCome' PROVE ErrorToCome OBVIOUS
        <5>1. PICK b \in Actors :
                /\ Owes(b)' /\ unmirrored'[b].error
                /\ \A c \in Actors :
                     Owes(c)' /\ unmirrored'[c].reset => unmirrored'[c].seq < unmirrored'[b].seq
          BY <4>1 DEF ErrorToCome
        <5>2. b # a /\ Owes(b) /\ unmirrored[b].error BY <5>1, MirrorEffect
        <5>3. \A c \in Actors : Owes(c) /\ unmirrored[c].reset => unmirrored[c].seq < unmirrored[b].seq
          BY <5>1, <5>2, <2>2, MirrorEffect
        <5> QED BY <5>2, <5>3 DEF ErrorToCome
      <4> QED BY <4>2, <4>3
    <3>2. CASE ~unmirrored[a].reset
      <4>1. record'.error <=> unmirrored[a].error \/ record.error BY <3>2, MirrorEffect
      <4>2. (\A b \in Actors : Owes(b) => ~unmirrored[b].reset) <=>
            (\A b \in Actors : Owes(b)' => ~unmirrored'[b].reset)
        BY <3>2, MirrorEffect
      <4>3. (/\ unmirrored[a].error
             /\ \A b \in Actors : Owes(b) /\ unmirrored[b].reset => unmirrored[b].seq < unmirrored[a].seq)
            <=> unmirrored[a].error /\ \A b \in Actors : Owes(b) => ~unmirrored[b].reset
        BY <3>2, <2>2, <1>1, <1>2, <1>4
      <4>4. ASSUME NEW b \in Actors \ {a}
            PROVE  (/\ Owes(b) /\ unmirrored[b].error
                    /\ \A c \in Actors : Owes(c) /\ unmirrored[c].reset => unmirrored[c].seq < unmirrored[b].seq)
                   <=>
                   (/\ Owes(b)' /\ unmirrored'[b].error
                    /\ \A c \in Actors :
                         Owes(c)' /\ unmirrored'[c].reset => unmirrored'[c].seq < unmirrored'[b].seq)
        BY <3>2, MirrorEffect
      <4>5. ErrorToCome <=>
              \/ /\ unmirrored[a].error
                 /\ \A b \in Actors : Owes(b) /\ unmirrored[b].reset => unmirrored[b].seq < unmirrored[a].seq
              \/ \E b \in Actors \ {a} :
                   /\ Owes(b) /\ unmirrored[b].error
                   /\ \A c \in Actors : Owes(c) /\ unmirrored[c].reset => unmirrored[c].seq < unmirrored[b].seq
              \/ record.error /\ \A b \in Actors : Owes(b) => ~unmirrored[b].reset
        BY <1>4 DEF ErrorToCome
      <4>6. ErrorToCome' <=>
              \/ \E b \in Actors \ {a} :
                   /\ Owes(b)' /\ unmirrored'[b].error
                   /\ \A c \in Actors :
                        Owes(c)' /\ unmirrored'[c].reset => unmirrored'[c].seq < unmirrored'[b].seq
              \/ record'.error /\ \A b \in Actors : Owes(b)' => ~unmirrored'[b].reset
        BY MirrorEffect DEF ErrorToCome
      <4> QED BY <4>1, <4>2, <4>3, <4>4, <4>5, <4>6
    <3> QED BY <3>1, <3>2
  <2> QED BY <2>4, <2>8, <2>9, <2>10, MirrorEffect
<1> QED BY <1>5, <1>6, MirrorEffect DEF HistoryInv

\* A lost mirror: the row is not said to agree any more.
LEMMA LossKeeps ==
  ASSUME HistoryInv, NEW a \in Actors, MirrorLost(a)
  PROVE  HistoryInv'
<1>1. unmirrored \in [Actors -> WriteType]
  BY DEF HistoryInv, HistoryTypes
<1>2. Written \in WriteType BY DEF Written, WriteType, NodeStates
<1>3. /\ unmirrored' \in [Actors -> WriteType] /\ unmirrored'[a] = Written
      /\ \A b \in Actors \ {a} : unmirrored'[b] = unmirrored[b]
  BY <1>1, <1>2 DEF MirrorLost
<1>4. /\ hash' = hash /\ record' = record /\ committed' = committed /\ landed' = landed
      /\ upset' = TRUE
  BY DEF MirrorLost
<1>5. HistoryTypes' BY <1>3, <1>4 DEF HistoryInv, HistoryTypes
<1>6. ~Owes(a)' /\ \A b \in Actors \ {a} : unmirrored'[b] = unmirrored[b] /\ (Owes(b)' <=> Owes(b))
  BY <1>3 DEF Owes
<1>7. OwedInv' BY <1>4, <1>6 DEF HistoryInv, OwedInv
<1>8. AgreeInv' BY <1>4 DEF AgreeInv, InOrder
<1> QED BY <1>5, <1>7, <1>8 DEF HistoryInv

\* The inductive invariant of a node's history: which writes are owed, and what they will make
\* of the row.
THEOREM HistoryIsSound == HistorySpec => []HistoryInv
<1>1. HistoryInv /\ [HistoryNext]_historyVars => HistoryInv'
  <2> SUFFICES ASSUME HistoryInv, [HistoryNext]_historyVars PROVE HistoryInv' OBVIOUS
  <2>1. CASE HistoryNext
    BY <2>1, CommitSteps, MirrorKeeps, LossKeeps DEF HistoryNext
  <2>2. CASE UNCHANGED historyVars
    BY <2>2 DEF historyVars, HistoryInv, HistoryTypes, OwedInv, Owes, AgreeInv, InOrder, ErrorToCome
  <2> QED BY <2>1, <2>2
<1> QED BY InitHistory, <1>1, PTL DEF HistorySpec

\* Once every mirror is in, and none was lost or overtaken, the history of a node agrees with
\* its hash (set_node_status, reset_node, and pg.reset_node).
THEOREM HistoryIsTrue == HistorySpec => []HistoryAgrees
<1>1. HistoryInv => HistoryAgrees
  <2> SUFFICES ASSUME HistoryInv, \A a \in Actors : unmirrored[a] = Written, committed > 0, ~upset
               PROVE  record = hash
    BY DEF HistoryAgrees
  <2>1. \A a \in Actors : ~Owes(a) BY DEF Owes
  <2>2. committed \in Nat /\ landed \in Nat /\ hash \in HashType /\ record \in RecordType
    BY DEF HistoryInv, HistoryTypes
  <2>3. landed = committed
    <3>1. committed \in 1..committed BY <2>2
    <3>2. committed <= landed BY <3>1, <2>1 DEF HistoryInv, OwedInv
    <3> QED BY <3>2, <2>2 DEF HistoryInv, OwedInv
  <2>4. record.status = hash.status /\ (hash.error <=> record.error)
    BY <2>1, <2>3 DEF HistoryInv, AgreeInv, InOrder, ErrorToCome
  <2>5. hash.error = record.error
    BY <2>4, <2>2 DEF HashType, RecordType
  <2>6. /\ hash = [status |-> hash.status, error |-> hash.error]
        /\ record = [status |-> record.status, error |-> record.error]
    BY <2>2 DEF HashType, RecordType
  <2> QED BY <2>4, <2>5, <2>6
<1> QED BY HistoryIsSound, <1>1, PTL

-----------------------------------------------------------------------------
(* Sessions: the proofs. *)

\* The values a session and a touch start from and return to.
LEMMA BlankTypes ==
  /\ NoSession \in SessionType /\ NoTouch \in TouchType
  /\ ~NoSession.live /\ NoSession.user = Nobody /\ NoSession.created = 0
  /\ NoTouch.pc = "idle"
BY DEF NoSession, NoTouch, SessionType, TouchType, Users

\* Nobody has signed up.
LEMMA InitSession == SessionInit => SessionInv
<1> SUFFICES ASSUME SessionInit PROVE SessionInv OBVIOUS
<1>1. SessionTypes
  BY BlankTypes DEF SessionInit, SessionTypes, Users
<1>2. OwnerInv BY BlankTypes DEF SessionInit, OwnerInv
<1>3. TouchInv BY BlankTypes DEF SessionInit, TouchInv
<1>4. IndexInv BY DEF SessionInit, IndexInv
<1> QED BY <1>1, <1>2, <1>3, <1>4 DEF SessionInv

\* A registration touches no session; an account stays one.
LEMMA SignupSteps ==
  ASSUME SessionInv, NEW u \in Signups, ClaimName(u) \/ CreateAccount(u)
  PROVE  SessionInv'
<1>1. /\ account \subseteq account' /\ account' \subseteq Signups /\ nameOf' \in Users
      /\ signup' \in [Signups -> {"start", "claimed", "taken", "done"}]
      /\ UNCHANGED <<session, index, mint, cookie, touch, revoked, hours>>
  <2>1. CASE ClaimName(u)
    <3> DEFINE to == IF nameOf = Nobody THEN "claimed" ELSE "taken"
    <3>1. signup' = [signup EXCEPT ![u] = to] BY <2>1 DEF ClaimName, Claim
    <3>2. to \in {"claimed", "taken"} OBVIOUS
    <3> HIDE DEF to
    <3>3. signup' \in [Signups -> {"start", "claimed", "taken", "done"}]
      BY <3>1, <3>2 DEF SessionInv, SessionTypes
    <3> QED BY <2>1, <3>3 DEF ClaimName, Claim, SessionInv, SessionTypes, Users
  <2>2. CASE CreateAccount(u)
    BY <2>2 DEF CreateAccount, SessionInv, SessionTypes
  <2> QED BY <2>1, <2>2
<1>2. SessionTypes' BY <1>1 DEF SessionInv, SessionTypes
<1>3. OwnerInv' BY <1>1 DEF SessionInv, OwnerInv, Hollow
<1>4. TouchInv' BY <1>1 DEF SessionInv, TouchInv, Hollow
<1>5. IndexInv' BY <1>1 DEF SessionInv, IndexInv
<1> QED BY <1>2, <1>3, <1>4, <1>5 DEF SessionInv

\* A login makes a session of an account that no cookie names yet.
LEMMA MintKeeps ==
  ASSUME SessionInv, NEW s \in Sids, Mint(s)
  PROVE  SessionInv'
<1> DEFINE new == [live |-> TRUE, user |-> nameOf, created |-> hours, ends |-> hours + Idle]
<1>1. /\ session \in [Sids -> SessionType] /\ hours \in Nat /\ nameOf \in Users /\ nameOf \in account
      /\ mint \in [Sids -> {"none", "hash", "index", "done"}] /\ mint[s] = "none"
  BY DEF SessionInv, SessionTypes, Mint, MintStep
<1>2. new \in SessionType /\ new.user = nameOf /\ new.created = hours
  BY <1>1, SessionAssumption DEF SessionType
<1>3. /\ session' = [session EXCEPT ![s] = new] /\ mint' = [mint EXCEPT ![s] = "hash"]
      /\ UNCHANGED <<nameOf, account, signup, index, cookie, touch, revoked, hours>>
  BY DEF Mint, MintStep
<1> HIDE DEF new
<1>4. /\ session' \in [Sids -> SessionType] /\ mint' \in [Sids -> {"none", "hash", "index", "done"}]
      /\ session'[s].user = nameOf /\ session'[s].created = hours /\ mint'[s] = "hash"
      /\ \A t \in Sids \ {s} : session'[t] = session[t] /\ mint'[t] = mint[t]
  BY <1>1, <1>2, <1>3
<1>5. SessionTypes' BY <1>3, <1>4 DEF SessionInv, SessionTypes
<1>6. s \notin cookie \cup revoked BY <1>1 DEF SessionInv, OwnerInv
<1>7. cookie \subseteq Sids /\ revoked \subseteq Sids BY DEF SessionInv, SessionTypes
<1>8. OwnerInv'
  <2>1. \A t \in Sids : session'[t].user \in account' \cup {Nobody} /\ session'[t].created <= hours'
    BY <1>1, <1>3, <1>4 DEF SessionInv, OwnerInv
  <2>2. \A t \in cookie' \cup revoked' : mint'[t] = "done"
    BY <1>3, <1>4, <1>6, <1>7 DEF SessionInv, OwnerInv
  <2>3. \A t \in revoked' : Hollow(t)'
    BY <1>3, <1>4, <1>6, <1>7 DEF SessionInv, OwnerInv, Hollow
  <2> QED BY <2>1, <2>2, <2>3 DEF OwnerInv
<1>9. TouchInv'
  <2> SUFFICES ASSUME NEW r \in Requests, touch[r].pc # "idle"
               PROVE  mint'[touch[r].sid] = "done" /\ (Hollow(touch[r].sid) => Hollow(touch[r].sid)')
    BY <1>3 DEF SessionInv, TouchInv
  <2>1. touch[r].sid \in Sids \ {s} BY <1>1 DEF SessionInv, TouchInv
  <2> QED BY <2>1, <1>3, <1>4 DEF SessionInv, TouchInv, Hollow
<1>10. IndexInv'
  BY <1>3, <1>4, <1>6, <1>7 DEF SessionInv, IndexInv
<1> QED BY <1>5, <1>8, <1>9, <1>10 DEF SessionInv

\* The session is in the index before the index's time to live is set and the cookie goes out.
LEMMA MintIndexKeeps ==
  ASSUME SessionInv, NEW s \in Sids, MintIndex(s) \/ MintDone(s)
  PROVE  SessionInv'
<1>1. /\ session \in [Sids -> SessionType] /\ hours \in Nat /\ cookie \subseteq Sids
      /\ index \in [sids : SUBSET Sids, ends : Nat]
      /\ mint \in [Sids -> {"none", "hash", "index", "done"}]
      /\ index.sids \subseteq Sids /\ index.ends \in Nat
  BY DEF SessionInv, SessionTypes
<1>2. UNCHANGED <<nameOf, account, signup, session, touch, revoked, hours>>
  BY DEF MintIndex, MintDone, MintStep
<1>3. \A t \in Sids : session[t].created \in Nat /\ session[t].created <= hours
  BY <1>1 DEF SessionType, SessionInv, OwnerInv
<1>4. CASE MintIndex(s)
  <2> DEFINE until == IF index.sids = {} THEN Never ELSE index.ends
  <2>1. until \in Nat BY <1>1, SessionAssumption DEF Never
  <2>2. /\ index' = [sids |-> index.sids \cup {s}, ends |-> until] /\ cookie' = cookie
        /\ mint[s] = "hash" /\ mint' = [mint EXCEPT ![s] = "index"]
    BY <1>4 DEF MintIndex, MintStep
  <2>3. index.sids # {} => until = index.ends OBVIOUS
  <2> HIDE DEF until
  <2>4. /\ index' \in [sids : SUBSET Sids, ends : Nat]
        /\ index'.sids = index.sids \cup {s} /\ index'.ends = until
        /\ mint' \in [Sids -> {"none", "hash", "index", "done"}]
        /\ mint'[s] = "index" /\ \A t \in Sids \ {s} : mint'[t] = mint[t]
    BY <1>1, <2>1, <2>2
  <2>5. SessionTypes' BY <1>2, <2>2, <2>4 DEF SessionInv, SessionTypes
  <2>6. OwnerInv'
    <3>1. \A t \in cookie \cup revoked : t \in Sids \ {s}
      BY <2>2 DEF SessionInv, SessionTypes, OwnerInv
    <3> QED BY <3>1, <1>2, <2>2, <2>4 DEF SessionInv, OwnerInv, Hollow
  <2>7. TouchInv'
    <3> SUFFICES ASSUME NEW r \in Requests, touch[r].pc # "idle"
                 PROVE  mint'[touch[r].sid] = "done"
      BY <1>2 DEF SessionInv, TouchInv, Hollow
    <3> QED BY <2>2, <2>4 DEF SessionInv, TouchInv
  <2>8. IndexInv'
    BY <1>2, <2>2, <2>3, <2>4 DEF SessionInv, IndexInv
  <2> QED BY <2>5, <2>6, <2>7, <2>8 DEF SessionInv
<1>5. CASE MintDone(s)
  <2>1. /\ index' = [index EXCEPT !.ends = hours + Cap] /\ cookie' = cookie \cup {s}
        /\ mint[s] = "index" /\ mint' = [mint EXCEPT ![s] = "done"]
    BY <1>5 DEF MintDone, MintStep
  <2>2. hours + Cap \in Nat BY <1>1, SessionAssumption
  <2>3. /\ index' \in [sids : SUBSET Sids, ends : Nat]
        /\ index'.sids = index.sids /\ index'.ends = hours + Cap
        /\ mint' \in [Sids -> {"none", "hash", "index", "done"}]
        /\ mint'[s] = "done" /\ \A t \in Sids \ {s} : mint'[t] = mint[t]
    BY <1>1, <2>1, <2>2
  <2>4. SessionTypes' BY <1>1, <1>2, <2>1, <2>3 DEF SessionInv, SessionTypes
  <2>5. OwnerInv'
    <3>1. \A t \in cookie \cup revoked : t \in Sids
      BY DEF SessionInv, SessionTypes
    <3> QED BY <3>1, <1>2, <2>1, <2>3 DEF SessionInv, OwnerInv, Hollow
  <2>6. TouchInv' BY <1>2, <2>3 DEF SessionInv, TouchInv, Hollow
  <2>7. IndexInv'
    <3>1. \A t \in Sids : mint'[t] = "index" => t \in index'.sids
      BY <2>3 DEF SessionInv, IndexInv
    <3>2. \A t \in Sids : session[t].created + Cap <= hours + Cap
      BY <1>1, <1>3, SessionAssumption
    <3>3. \A t \in cookie' : session'[t].live /\ session'[t].user # Nobody =>
            \/ t \in index'.sids /\ session'[t].created + Cap <= index'.ends
            \/ session'[t].created + Cap <= hours'
      BY <3>2, <1>1, <1>2, <2>1, <2>3 DEF SessionInv, IndexInv
    <3> QED BY <3>1, <3>3 DEF IndexInv
  <2> QED BY <2>4, <2>5, <2>6, <2>7 DEF SessionInv
<1> QED BY <1>4, <1>5

\* What each field of a touch is.
LEMMA TouchFields ==
  ASSUME SessionInv, NEW r \in Requests
  PROVE  /\ touch[r] \in TouchType
         /\ touch[r].pc \in {"idle", "read", "stamped", "accepted", "destroy", "delete", "unindex"}
         /\ touch[r].sid \in Sids \cup {Nobody} /\ touch[r].user \in Users
         /\ touch[r].created \in Nat /\ touch[r].late \in BOOLEAN /\ touch[r].age \in Int
<1>1. touch[r] \in TouchType BY DEF SessionInv, SessionTypes
<1> QED BY <1>1 DEF TouchType

\* A request may go to t if what t remembers is right; a hash never gains a user meanwhile.
LEMMA TouchKeeps ==
  ASSUME SessionInv, NEW r \in Requests, NEW t \in TouchType, touch' = [touch EXCEPT ![r] = t],
         UNCHANGED <<account, mint, hours>>,
         \A s \in Sids : Hollow(s) => Hollow(s)',
         t.pc # "idle" =>
           /\ t.sid \in Sids /\ mint[t.sid] = "done"
           /\ t.pc = "read" => t.user \in account \cup {Nobody} /\ (t.late => t.user = Nobody)
           /\ t.pc \in {"stamped", "accepted"} => t.user \in account /\ ~t.late
           /\ t.pc = "stamped" => hours <= t.created + Cap
           /\ t.pc = "accepted" => t.age <= Cap
           /\ t.pc = "unindex" => (session'[t.sid].live => session'[t.sid].user = Nobody)
  PROVE  touch' \in [Requests -> TouchType] /\ TouchInv'
<1>1. touch \in [Requests -> TouchType] BY DEF SessionInv, SessionTypes
<1>2. touch' \in [Requests -> TouchType] BY <1>1
<1>3. TouchInv'
  <2> SUFFICES ASSUME NEW q \in Requests, touch'[q].pc # "idle"
               PROVE  /\ touch'[q].sid \in Sids /\ mint[touch'[q].sid] = "done"
                      /\ touch'[q].pc = "read" =>
                           /\ touch'[q].user \in account \cup {Nobody}
                           /\ touch'[q].late => touch'[q].user = Nobody
                      /\ touch'[q].pc \in {"stamped", "accepted"} =>
                           touch'[q].user \in account /\ ~touch'[q].late
                      /\ touch'[q].pc = "stamped" => hours <= touch'[q].created + Cap
                      /\ touch'[q].pc = "accepted" => touch'[q].age <= Cap
                      /\ touch'[q].pc = "unindex" =>
                           (session'[touch'[q].sid].live => session'[touch'[q].sid].user = Nobody)
    BY DEF TouchInv, Hollow
  <2>1. CASE q = r
    <3>1. touch'[q] = t BY <2>1, <1>1
    <3> QED BY <3>1
  <2>2. CASE q # r
    <3>1. touch'[q] = touch[q] BY <2>2, <1>1
    <3> QED BY <3>1 DEF SessionInv, TouchInv, Hollow
  <2> QED BY <2>1, <2>2
<1> QED BY <1>2, <1>3

\* A step of a request that writes neither the session nor the index.
LEMMA ReadKeeps ==
  ASSUME SessionInv, NEW r \in Requests, NEW t \in TouchType, NEW from, TouchStep(r, from, t),
         UNCHANGED <<session, index>>,
         t.pc # "idle" =>
           /\ t.sid \in Sids /\ mint[t.sid] = "done"
           /\ t.pc = "read" => t.user \in account \cup {Nobody} /\ (t.late => t.user = Nobody)
           /\ t.pc = "accepted" => FALSE
           /\ t.pc = "stamped" => FALSE
           /\ t.pc = "unindex" => FALSE
  PROVE  SessionInv'
<1>1. /\ touch' = [touch EXCEPT ![r] = t]
      /\ UNCHANGED <<nameOf, account, signup, mint, cookie, revoked, hours, session, index>>
  BY DEF TouchStep
<1>2. \A s \in Sids : Hollow(s) => Hollow(s)' BY <1>1 DEF Hollow
<1>3. touch' \in [Requests -> TouchType] /\ TouchInv'
  BY <1>1, <1>2, TouchKeeps
<1>4. SessionTypes' BY <1>1, <1>3 DEF SessionInv, SessionTypes
<1>5. OwnerInv' BY <1>1 DEF SessionInv, OwnerInv, Hollow
<1>6. IndexInv' BY <1>1 DEF SessionInv, IndexInv
<1> QED BY <1>3, <1>4, <1>5, <1>6 DEF SessionInv

\* A request reads a session, is refused, is handled, or turns to destroying its session.
LEMMA ReadSteps ==
  ASSUME SessionInv, NEW r \in Requests,
         \/ \E s \in Sids : TouchRead(r, s)
         \/ TouchRefuse(r) \/ Handled(r) \/ Logout(r) \/ DestroyRead(r)
  PROVE  SessionInv'
<1>1. ASSUME NEW s \in Sids, TouchRead(r, s) PROVE SessionInv'
  <2>1. session[s].user \in Users /\ session[s].created \in Nat
    BY DEF SessionInv, SessionTypes, SessionType
  <2>2. s \in cookie /\ mint[s] = "done" BY <1>1 DEF TouchRead, SessionInv, OwnerInv
  <2>3. session[s].user \in account \cup {Nobody} BY DEF SessionInv, OwnerInv
  <2>4. s \in revoked /\ session[s].live => session[s].user = Nobody
    BY DEF SessionInv, OwnerInv, Hollow
  <2> DEFINE late == s \in revoked
             read == [pc |-> "read", sid |-> s, user |-> session[s].user, created |-> session[s].created,
                      late |-> late, age |-> 0]
  <2>5. late \in BOOLEAN /\ (late => s \in revoked) OBVIOUS
  <2> HIDE DEF late
  <2>6. /\ read \in TouchType /\ read.pc = "read" /\ read.sid = s
        /\ read.user = session[s].user /\ read.late = late
    BY <2>1, <2>5 DEF TouchType
  <2>7. UNCHANGED <<session, index>> BY <1>1 DEF TouchRead
  <2>8. CASE session[s].live
    <3>1. TouchStep(r, "idle", read) BY <1>1, <2>8 DEF TouchRead, late
    <3> HIDE DEF read
    <3> QED BY <3>1, <2>2, <2>3, <2>4, <2>6, <2>7, <2>8, <2>5, ReadKeeps
  <2>9. CASE ~session[s].live
    <3>1. TouchStep(r, "idle", NoTouch) BY <1>1, <2>9 DEF TouchRead
    <3> QED BY <3>1, <2>7, BlankTypes, ReadKeeps
  <2> QED BY <2>8, <2>9
<1>2. CASE TouchRefuse(r)
  <2> DEFINE t == [touch[r] EXCEPT !.pc = "destroy"]
  <2>1. TouchStep(r, "read", t) /\ touch[r].pc = "read" /\ UNCHANGED <<session, index>>
    BY <1>2 DEF TouchRefuse, TouchStep
  <2>2. t \in TouchType /\ t.pc = "destroy" /\ t.sid = touch[r].sid BY TouchFields DEF TouchType
  <2>3. touch[r].sid \in Sids /\ mint[touch[r].sid] = "done" BY <2>1 DEF SessionInv, TouchInv
  <2> HIDE DEF t
  <2> QED BY <2>1, <2>2, <2>3, ReadKeeps
<1>3. CASE Handled(r)
  <2>1. TouchStep(r, "accepted", NoTouch) /\ UNCHANGED <<session, index>> BY <1>3 DEF Handled
  <2> QED BY <2>1, BlankTypes, ReadKeeps
<1>4. CASE Logout(r)
  <2> DEFINE t == [touch[r] EXCEPT !.pc = "destroy"]
  <2>1. TouchStep(r, "accepted", t) /\ touch[r].pc = "accepted" /\ UNCHANGED <<session, index>>
    BY <1>4 DEF Logout, TouchStep
  <2>2. t \in TouchType /\ t.pc = "destroy" /\ t.sid = touch[r].sid BY TouchFields DEF TouchType
  <2>3. touch[r].sid \in Sids /\ mint[touch[r].sid] = "done" BY <2>1 DEF SessionInv, TouchInv
  <2> HIDE DEF t
  <2> QED BY <2>1, <2>2, <2>3, ReadKeeps
<1>5. CASE DestroyRead(r)
  <2> DEFINE u == session[touch[r].sid].user
             t == [touch[r] EXCEPT !.pc = "delete", !.user = u]
  <2>1. TouchStep(r, "destroy", t) /\ touch[r].pc = "destroy" /\ UNCHANGED <<session, index>>
    BY <1>5 DEF DestroyRead, TouchStep
  <2>2. touch[r].sid \in Sids /\ mint[touch[r].sid] = "done" BY <2>1 DEF SessionInv, TouchInv
  <2>3. u \in Users BY <2>2 DEF SessionInv, SessionTypes, SessionType
  <2> HIDE DEF u
  <2>4. t \in TouchType /\ t.pc = "delete" /\ t.sid = touch[r].sid
    BY <2>3, TouchFields DEF TouchType
  <2> HIDE DEF t
  <2> QED BY <2>1, <2>2, <2>4, ReadKeeps
<1> QED BY <1>1, <1>2, <1>3, <1>4, <1>5

\* A request that writes its session: a deleted hash may come back, but names no user.
LEMMA WriteKeeps ==
  ASSUME SessionInv, NEW r \in Requests, NEW t \in TouchType, NEW from, TouchStep(r, from, t),
         NEW s \in Sids, NEW new \in SessionType, session' = [session EXCEPT ![s] = new],
         index' = index,
         \/ new.live = session[s].live /\ new.user = session[s].user /\ new.created = session[s].created
         \/ (new.live => new.user = Nobody) /\ new.user = Nobody /\ new.created = 0,
         t.sid = s /\ mint[s] = "done" /\ t.pc \in {"stamped", "accepted", "unindex"},
         t.pc \in {"stamped", "accepted"} => t.user \in account /\ ~t.late,
         t.pc = "stamped" => hours <= t.created + Cap,
         t.pc = "accepted" => t.age <= Cap,
         t.pc = "unindex" => new.user = Nobody
  PROVE  SessionInv'
<1>1. /\ touch' = [touch EXCEPT ![r] = t]
      /\ UNCHANGED <<nameOf, account, signup, mint, cookie, revoked, hours, index>>
  BY DEF TouchStep
<1>2. /\ session' \in [Sids -> SessionType] /\ session'[s] = new
      /\ \A q \in Sids \ {s} : session'[q] = session[q]
      /\ cookie \subseteq Sids /\ revoked \subseteq Sids /\ hours \in Nat
  BY DEF SessionInv, SessionTypes
<1>3. \A q \in Sids : Hollow(q) => Hollow(q)' BY <1>2 DEF Hollow
<1>4. touch' \in [Requests -> TouchType] /\ TouchInv'
  BY <1>1, <1>2, <1>3, TouchKeeps
<1>5. SessionTypes' BY <1>1, <1>2, <1>4 DEF SessionInv, SessionTypes
<1>6. OwnerInv'
  <2>1. \A q \in Sids : session'[q].user \in account' \cup {Nobody} /\ session'[q].created <= hours'
    BY <1>1, <1>2 DEF SessionInv, OwnerInv
  <2>2. \A q \in revoked' : Hollow(q)'
    BY <1>1, <1>2, <1>3 DEF SessionInv, OwnerInv
  <2> QED BY <2>1, <2>2, <1>1 DEF SessionInv, OwnerInv
<1>7. IndexInv' BY <1>1, <1>2 DEF SessionInv, IndexInv
<1> QED BY <1>4, <1>5, <1>6, <1>7 DEF SessionInv

\* last_seen, the time to live, and the deletion.
LEMMA WriteSteps ==
  ASSUME SessionInv, NEW r \in Requests, TouchStamp(r) \/ TouchExpire(r) \/ DestroyDelete(r)
  PROVE  SessionInv'
<1> DEFINE s == touch[r].sid
<1>1. touch[r].pc # "idle" BY DEF TouchStamp, TouchExpire, DestroyDelete, TouchStep
<1>2. s \in Sids /\ mint[s] = "done" BY <1>1 DEF SessionInv, TouchInv
<1>3. /\ session[s] \in SessionType /\ session[s].live \in BOOLEAN /\ session[s].user \in Users
      /\ session[s].created \in Nat /\ session[s].ends \in Nat
  BY <1>2 DEF SessionInv, SessionTypes, SessionType
<1>4. hours \in Nat BY DEF SessionInv, SessionTypes
<1>5. CASE TouchStamp(r)
  <2> DEFINE t == [touch[r] EXCEPT !.pc = "stamped"]
             blank == [live |-> TRUE, user |-> Nobody, created |-> 0, ends |-> Never]
             new == IF session[s].live THEN session[s] ELSE blank
  <2>1. /\ TouchStep(r, "read", t) /\ touch[r].pc = "read" /\ ~TooOld(r)
        /\ session' = [session EXCEPT ![s] = new] /\ index' = index
    BY <1>5 DEF TouchStamp, TouchStep
  <2>2. /\ t \in TouchType /\ t.pc = "stamped" /\ t.sid = s /\ t.user = touch[r].user
        /\ t.created = touch[r].created /\ t.late = touch[r].late
    BY TouchFields DEF TouchType
  <2>3. touch[r].user \in account /\ ~touch[r].late /\ hours <= touch[r].created + Cap
    <3>1. touch[r].user # Nobody /\ ~(hours > touch[r].created + Cap) BY <2>1 DEF TooOld
    <3>2. touch[r].user \in account \cup {Nobody} /\ (touch[r].late => touch[r].user = Nobody)
      BY <2>1 DEF SessionInv, TouchInv
    <3> QED BY <3>1, <3>2, <1>4, TouchFields, SessionAssumption
  <2>4. blank \in SessionType /\ blank.user = Nobody /\ blank.created = 0
    BY SessionAssumption DEF SessionType, Users, Never
  <2> HIDE DEF blank
  <2>5. /\ new \in SessionType
        /\ \/ new.live = session[s].live /\ new.user = session[s].user /\ new.created = session[s].created
           \/ (new.live => new.user = Nobody) /\ new.user = Nobody /\ new.created = 0
    BY <2>4, <1>3
  <2> HIDE DEF t, new, s
  <2> QED BY <1>2, <2>1, <2>2, <2>3, <2>5, WriteKeeps
<1>6. CASE TouchExpire(r)
  <2> DEFINE age == hours - touch[r].created
             t == [touch[r] EXCEPT !.pc = "accepted", !.age = age]
             ends == IF session[s].live THEN hours + Idle ELSE session[s].ends
             new == [session[s] EXCEPT !.ends = ends]
  <2>1. touch[r].pc = "stamped" /\ TouchStep(r, "stamped", t) /\ index' = index
    BY <1>6 DEF TouchExpire, TouchStep
  <2>2. age \in Int /\ age <= Cap
    <3>1. hours <= touch[r].created + Cap BY <2>1 DEF SessionInv, TouchInv
    <3> QED BY <3>1, <1>4, TouchFields, SessionAssumption
  <2>3. touch[r].user \in account /\ ~touch[r].late BY <2>1 DEF SessionInv, TouchInv
  <2> HIDE DEF age
  <2>4. /\ t \in TouchType /\ t.pc = "accepted" /\ t.sid = s /\ t.user = touch[r].user
        /\ t.late = touch[r].late /\ t.age = age
    BY <2>2, TouchFields DEF TouchType
  <2>5. ends \in Nat BY <1>3, <1>4, SessionAssumption
  <2>6. session' = [session EXCEPT ![s].ends = ends] BY <1>6 DEF TouchExpire
  <2> HIDE DEF ends
  <2>7. session' = [session EXCEPT ![s] = new] BY <2>6
  <2>8. /\ new \in SessionType /\ new.live = session[s].live /\ new.user = session[s].user
        /\ new.created = session[s].created
    BY <1>3, <2>5 DEF SessionType
  <2> HIDE DEF t, new, s
  <2> QED BY <1>2, <2>1, <2>2, <2>3, <2>4, <2>7, <2>8, WriteKeeps
<1>7. CASE DestroyDelete(r)
  <2> DEFINE t == [touch[r] EXCEPT !.pc = "unindex"]
  <2>1. /\ TouchStep(r, "delete", t) /\ session' = [session EXCEPT ![s] = NoSession] /\ index' = index
    BY <1>7 DEF DestroyDelete
  <2>2. t \in TouchType /\ t.pc = "unindex" /\ t.sid = s BY TouchFields DEF TouchType
  <2> HIDE DEF t, s
  <2> QED BY <1>2, <2>1, <2>2, BlankTypes, WriteKeeps
<1> QED BY <1>5, <1>6, <1>7

\* A session leaves the index only when its hash is gone.
LEMMA UnindexKeeps ==
  ASSUME SessionInv, NEW r \in Requests, DestroyUnindex(r)
  PROVE  SessionInv'
<1> DEFINE s == touch[r].sid
           left == IF touch[r].user = Nobody THEN index.sids ELSE index.sids \ {s}
<1>1. /\ touch[r].pc = "unindex" /\ touch' = [touch EXCEPT ![r] = NoTouch]
      /\ index' = [index EXCEPT !.sids = left] /\ revoked' = revoked \cup {s}
      /\ UNCHANGED <<nameOf, account, signup, session, mint, cookie, hours>>
  BY DEF DestroyUnindex
<1>2. s \in Sids /\ mint[s] = "done" /\ Hollow(s) BY <1>1 DEF SessionInv, TouchInv
<1>3. /\ index \in [sids : SUBSET Sids, ends : Nat] /\ index.sids \subseteq Sids
      /\ revoked \subseteq Sids /\ cookie \subseteq Sids
  BY DEF SessionInv, SessionTypes
<1>4. left \subseteq Sids /\ index.sids \ {s} \subseteq left BY <1>3
<1> HIDE DEF left
<1>5. index' \in [sids : SUBSET Sids, ends : Nat] /\ index'.sids = left /\ index'.ends = index.ends
  BY <1>1, <1>3, <1>4
<1>6. \A q \in Sids : Hollow(q) => Hollow(q)' BY <1>1 DEF Hollow
<1>7. touch' \in [Requests -> TouchType] /\ TouchInv'
  BY <1>1, <1>6, BlankTypes, TouchKeeps
<1> HIDE DEF s
<1>8. SessionTypes' BY <1>1, <1>2, <1>3, <1>5, <1>7 DEF SessionInv, SessionTypes
<1>9. OwnerInv' BY <1>1, <1>2, <1>3, <1>6 DEF SessionInv, OwnerInv
<1>10. IndexInv'
  <2>1. \A q \in Sids : mint'[q] = "index" => q \in index'.sids
    BY <1>1, <1>2, <1>4, <1>5 DEF SessionInv, IndexInv
  <2>2. \A q \in cookie' : session'[q].live /\ session'[q].user # Nobody =>
          \/ q \in index'.sids /\ session'[q].created + Cap <= index'.ends
          \/ session'[q].created + Cap <= hours'
    <3> SUFFICES ASSUME NEW q \in cookie, session[q].live /\ session[q].user # Nobody
                 PROVE  \/ q \in left /\ session[q].created + Cap <= index.ends
                        \/ session[q].created + Cap <= hours
      BY <1>1, <1>5
    <3>1. q # s BY <1>2 DEF Hollow
    <3> QED BY <3>1, <1>3, <1>4 DEF SessionInv, IndexInv
  <2> QED BY <2>1, <2>2 DEF IndexInv
<1> QED BY <1>7, <1>8, <1>9, <1>10 DEF SessionInv

\* An hour passes while no command of a request is under way: what expires, expires whole.
LEMMA HourKeeps ==
  ASSUME SessionInv, Hour
  PROVE  SessionInv'
<1>1. /\ session \in [Sids -> SessionType] /\ hours \in Nat /\ cookie \subseteq Sids
      /\ revoked \subseteq Sids /\ index \in [sids : SUBSET Sids, ends : Nat] /\ index.ends \in Nat
  BY DEF SessionInv, SessionTypes
<1>2. /\ hours' = hours + 1
      /\ session' = [s \in Sids |-> IF session[s].ends <= hours + 1 THEN NoSession ELSE session[s]]
      /\ index' = IF index.ends <= hours + 1 THEN [sids |-> {}, ends |-> 0] ELSE index
      /\ \A r \in Requests : touch[r].pc \in {"idle", "accepted"}
      /\ \A s \in Sids : mint[s] \in {"none", "done"}
      /\ UNCHANGED <<nameOf, account, signup, mint, cookie, touch, revoked>>
  BY DEF Hour
<1>3. \A s \in Sids : session'[s] = session[s] \/ session'[s] = NoSession
  BY <1>2
<1>4. session' \in [Sids -> SessionType] BY <1>1, <1>2, BlankTypes
<1>5. index' \in [sids : SUBSET Sids, ends : Nat] BY <1>1, <1>2
<1>6. \A s \in Sids : Hollow(s) => Hollow(s)' BY <1>3, BlankTypes DEF Hollow
<1>7. SessionTypes' BY <1>1, <1>2, <1>4, <1>5 DEF SessionInv, SessionTypes
<1>8. OwnerInv'
  <2>1. \A s \in Sids : session'[s].user \in account' \cup {Nobody} /\ session'[s].created <= hours'
    <3>1. \A s \in Sids : session[s].created \in Nat /\ session[s].created <= hours
      BY <1>1 DEF SessionType, SessionInv, OwnerInv
    <3> QED BY <3>1, <1>1, <1>2, <1>3, BlankTypes DEF SessionInv, OwnerInv
  <2>2. \A s \in revoked' : Hollow(s)' BY <1>1, <1>2, <1>6 DEF SessionInv, OwnerInv
  <2> QED BY <2>1, <2>2, <1>2 DEF SessionInv, OwnerInv
<1>9. TouchInv' BY <1>2 DEF SessionInv, TouchInv
<1>10. IndexInv'
  <2>1. \A s \in Sids : mint'[s] # "index" BY <1>2
  <2> SUFFICES ASSUME NEW s \in cookie, session'[s].live /\ session'[s].user # Nobody
               PROVE  \/ s \in index'.sids /\ session'[s].created + Cap <= index'.ends
                      \/ session'[s].created + Cap <= hours'
    BY <2>1, <1>2 DEF IndexInv
  <2>2. session'[s] = session[s] BY <1>1, <1>3, BlankTypes
  <2>3. session[s].created \in Nat BY <1>1 DEF SessionType
  <2>4. \/ s \in index.sids /\ session[s].created + Cap <= index.ends
        \/ session[s].created + Cap <= hours
    BY <2>2 DEF SessionInv, IndexInv
  <2>5. CASE index.ends <= hours + 1
    BY <2>2, <2>3, <2>4, <2>5, <1>1, <1>2, SessionAssumption
  <2>6. CASE ~(index.ends <= hours + 1)
    BY <2>2, <2>3, <2>4, <2>6, <1>1, <1>2, SessionAssumption
  <2> QED BY <2>5, <2>6
<1> QED BY <1>7, <1>8, <1>9, <1>10 DEF SessionInv

\* The inductive invariant of the sessions of a username: whom a hash, a request and the index
\* may name.
THEOREM SessionsAreSound == SessionSpec => []SessionInv
<1>1. SessionInv /\ [SessionNext]_sessionVars => SessionInv'
  <2> SUFFICES ASSUME SessionInv, [SessionNext]_sessionVars PROVE SessionInv' OBVIOUS
  <2>1. ASSUME NEW u \in Signups, ClaimName(u) \/ CreateAccount(u) PROVE SessionInv'
    BY <2>1, SignupSteps
  <2>2. ASSUME NEW s \in Sids, Mint(s) \/ MintIndex(s) \/ MintDone(s) PROVE SessionInv'
    BY <2>2, MintKeeps, MintIndexKeeps
  <2>3. ASSUME NEW r \in Requests,
               \/ \E s \in Sids : TouchRead(r, s)
               \/ TouchRefuse(r) \/ TouchStamp(r) \/ TouchExpire(r) \/ Handled(r) \/ Logout(r)
               \/ DestroyRead(r) \/ DestroyDelete(r) \/ DestroyUnindex(r)
        PROVE  SessionInv'
    BY <2>3, ReadSteps, WriteSteps, UnindexKeeps
  <2>4. CASE UNCHANGED sessionVars
    BY <2>4 DEF sessionVars, SessionInv, SessionTypes, OwnerInv, Hollow, TouchInv, IndexInv
  <2> QED BY <2>1, <2>2, <2>3, <2>4, HourKeeps DEF SessionNext
<1> QED BY InitSession, <1>1, PTL DEF SessionSpec

\* A session that was destroyed is refused from then on, although a request under way may
\* write its hash again, and no session is accepted past its cap (touch_session,
\* destroy_session).
THEOREM RevokedStaysOut == SessionSpec => []RevokedIsRefused
<1>1. SessionInv => RevokedIsRefused
  BY DEF SessionInv, TouchInv, RevokedIsRefused
<1> QED BY SessionsAreSound, <1>1, PTL

\* A global logout finds every session that would be accepted (the times to live set by
\* create_session).
THEOREM IndexIsComplete == SessionSpec => []IndexCoversSessions
<1>1. SessionInv => IndexCoversSessions
  <2> SUFFICES ASSUME SessionInv, NEW s \in cookie, session[s].live, session[s].user # Nobody,
                      hours < session[s].created + Cap
               PROVE  s \in index.sids
    BY DEF IndexCoversSessions
  <2>1. session[s].created \in Nat /\ hours \in Nat
    BY DEF SessionInv, SessionTypes, SessionType
  <2> QED BY <2>1, SessionAssumption DEF SessionInv, IndexInv
<1> QED BY SessionsAreSound, <1>1, PTL

-----------------------------------------------------------------------------
(* RenderAttempt: the proofs. *)

\* Nothing has been tried yet.
LEMMA InitAttempt == AttemptInit => AttemptInv
BY AttemptAssumption DEF AttemptInit, AttemptInv, AttemptTypes, TriesAreAttempts, BillAndRecord, Outcomes

\* What happens up to the provider's answer to a submit.
LEMMA SubmitSteps ==
  ASSUME AttemptInv,
         \/ Load \/ TakeToken \/ TokenFails \/ Submitted
         \/ \E e \in Errors : LoadFails(e) \/ SubmitFails(e) \/ SubmitUnheard(e)
  PROVE  AttemptInv'
<1> USE AttemptAssumption
    DEF AttemptInv, AttemptTypes, TriesAreAttempts, BillAndRecord, Outcomes, Goes, Raises
<1>1. CASE Load BY <1>1 DEF Load
<1>2. CASE TakeToken BY <1>2 DEF TakeToken, Counted
<1>3. CASE TokenFails BY <1>3 DEF TokenFails, PerhapsCounted
<1>4. CASE Submitted BY <1>4 DEF Submitted
<1>5. ASSUME NEW e \in Errors, LoadFails(e) PROVE AttemptInv'
  BY <1>5 DEF LoadFails
<1>6. ASSUME NEW e \in Errors, SubmitFails(e) PROVE AttemptInv'
  BY <1>6 DEF SubmitFails, SubmitRaises
<1>7. ASSUME NEW e \in Errors, SubmitUnheard(e) PROVE AttemptInv'
  BY <1>7 DEF SubmitUnheard, SubmitRaises
<1> HIDE DEF AttemptInv
<1> QED BY <1>1, <1>2, <1>3, <1>4, <1>5, <1>6, <1>7

\* What happens between the answer and the job's end.
LEMMA PollSteps ==
  ASSUME AttemptInv,
         \/ PollPending \/ PollDone
         \/ \E e \in Errors : PollLost(e)
         \/ \E bills \in BOOLEAN : PollRefused(bills)
  PROVE  AttemptInv'
<1> USE AttemptAssumption
    DEF AttemptInv, AttemptTypes, TriesAreAttempts, BillAndRecord, Outcomes, Goes, Raises
<1>1. CASE PollPending BY <1>1 DEF PollPending
<1>2. CASE PollDone BY <1>2 DEF PollDone
<1>3. ASSUME NEW e \in Errors, PollLost(e) PROVE AttemptInv'
  BY <1>3 DEF PollLost
<1>4. ASSUME NEW bills \in BOOLEAN, PollRefused(bills) PROVE AttemptInv'
  BY <1>4 DEF PollRefused
<1> HIDE DEF AttemptInv
<1> QED BY <1>1, <1>2, <1>3, <1>4

\* What cost.record leaves behind where it was answered.
LEMMA Recorded ==
  ASSUME Resends \in Nat, NEW s \in Counted(0)
  PROVE  s \in Nat /\ 1 <= s /\ s <= 1 + Resends /\ 1 <= s + 0
BY DEF Counted

\* What it leaves behind where it raised: the bill is in the budget or it is missed.
LEMMA PerhapsRecorded ==
  ASSUME Resends \in Nat, NEW s \in PerhapsCounted(0), NEW m, m = 0 + IF s = 0 THEN 1 ELSE 0
  PROVE  s \in Nat /\ s <= 1 + Resends /\ m \in Nat /\ 1 <= s + m
<1>1. s \in Nat /\ s <= 1 + Resends BY DEF PerhapsCounted
<1>2. (s = 0 /\ m = 1) \/ (s # 0 /\ m = 0) OBVIOUS
<1>3. m \in Nat BY <1>2
<1>4. 1 <= s + m BY <1>1, <1>2
<1> QED BY <1>1, <1>3, <1>4

\* The bill of a job that ended, with an asset or in an error, is recorded: the node goes on,
\* ends as the provider's error says, or is failed because Redis raised.
LEMMA RecordSteps ==
  ASSUME AttemptInv, RecordCost \/ RecordRefused \/ RecordFails
  PROVE  AttemptInv'
<1>1. stage \in {"record", "refused"}
  BY DEF RecordCost, RecordRefused, RecordFails, Goes
<1>2. billed = 1 /\ spent = 0 /\ missed = 0
  BY <1>1 DEF AttemptInv, BillAndRecord
<1>3. UNCHANGED <<direct, tries, attempts, jobs, polls, billed, unheard, slow>>
  BY DEF RecordCost, RecordRefused, RecordFails
<1>4. \/ /\ stage' \in {"archive", "dead_lettered", "unwritten"}
         /\ spent' \in Counted(spent) /\ missed' = missed
      \/ /\ stage' \in {"failed", "unwritten"}
         /\ spent' \in PerhapsCounted(spent)
         /\ missed' = missed + IF spent' = spent THEN 1 ELSE 0
  BY DEF RecordCost, RecordRefused, RecordFails, Goes, Raises
<1>5. /\ spent' \in Nat /\ spent' <= 1 + Resends /\ missed' \in Nat /\ 1 <= spent' + missed'
      /\ \/ stage' \in {"archive", "dead_lettered", "unwritten"} /\ 1 <= spent' /\ missed' = 0
         \/ stage' \in {"failed", "unwritten"}
  <2>1. CASE spent' \in Counted(0) /\ missed' = 0 /\ stage' \in {"archive", "dead_lettered", "unwritten"}
    BY <2>1, AttemptAssumption, Recorded
  <2>2. CASE /\ spent' \in PerhapsCounted(0) /\ missed' = 0 + IF spent' = 0 THEN 1 ELSE 0
             /\ stage' \in {"failed", "unwritten"}
    BY <2>2, AttemptAssumption, PerhapsRecorded
  <2> QED BY <1>2, <1>4, <2>1, <2>2
<1>6. AttemptTypes'
  BY <1>3, <1>5 DEF AttemptInv, AttemptTypes, Outcomes
<1>7. TriesAreAttempts'
  BY <1>3, <1>5 DEF AttemptInv, TriesAreAttempts
<1>8. BillAndRecord'
  <2>1. billed' = 1 BY <1>2, <1>3
  <2>2. billed' <= spent' + missed' BY <1>5, <2>1
  <2>3. stage' = "archive" => 1 <= spent' BY <1>5
  <2>4. stage' \notin {"failed", "unwritten"} => missed' = 0 BY <1>5
  <2>5. stage' \notin {"load", "token", "submit", "poll", "record", "refused", "write"} BY <1>5
  <2>6. spent' <= 1 + Resends /\ billed' # 0 BY <1>5, <2>1
  <2> QED BY <2>1, <2>2, <2>3, <2>4, <2>5, <2>6 DEF BillAndRecord
<1> QED BY <1>6, <1>7, <1>8 DEF AttemptInv

\* What happens to an asset that is paid for.
LEMMA ArchiveSteps ==
  ASSUME AttemptInv, ArchiveFails \/ Archive \/ WriteSucceeded \/ WriteFails
  PROVE  AttemptInv'
<1> USE AttemptAssumption
    DEF AttemptInv, AttemptTypes, TriesAreAttempts, BillAndRecord, Outcomes, Goes, Raises
<1>1. CASE ArchiveFails BY <1>1 DEF ArchiveFails
<1>2. CASE Archive BY <1>2 DEF Archive
<1>3. CASE WriteSucceeded BY <1>3 DEF WriteSucceeded
<1>4. CASE WriteFails BY <1>4 DEF WriteFails
<1> HIDE DEF AttemptInv
<1> QED BY <1>1, <1>2, <1>3, <1>4

\* The inductive invariant of an attempt: at each stage, what it has tried, submitted, been
\* billed and recorded.
THEOREM AttemptIsSound == AttemptSpec => []AttemptInv
<1>1. AttemptInv /\ [AttemptNext]_attemptVars => AttemptInv'
  <2> SUFFICES ASSUME AttemptInv, [AttemptNext]_attemptVars PROVE AttemptInv' OBVIOUS
  <2>1. CASE AttemptNext
    BY <2>1, SubmitSteps, PollSteps, RecordSteps, ArchiveSteps DEF AttemptNext, Proceeds, StoreFails
  <2>2. CASE UNCHANGED attemptVars
    BY <2>2 DEF attemptVars, AttemptInv, AttemptTypes, TriesAreAttempts, BillAndRecord
  <2> QED BY <2>1, <2>2
<1> QED BY InitAttempt, <1>1, PTL DEF AttemptSpec

\* Every bill the task hears of is recorded, whatever fails after it; one is lost only to a
\* Redis that refuses the record itself, and then the node ends failed, not succeeded or
\* dead-lettered.  A second job is submitted only when the answer to the first was lost
\* (render_node).
THEOREM BillsAreRecorded == AttemptSpec => []EveryBillIsRecorded
<1>1. AttemptInv => EveryBillIsRecorded
  BY DEF AttemptInv, AttemptTypes, TriesAreAttempts, BillAndRecord, EveryBillIsRecorded, Outcomes
<1> QED BY AttemptIsSound, <1>1, PTL

-----------------------------------------------------------------------------
(* TokenBucket: the rate bound, for any buckets, callers, clocks and times.  What makes it  *)
(* inductive is an account of each bucket: what it has given and still holds is at most     *)
(* what it started with and what the time up to its last use brought it.                    *)

BucketSpec == BucketInit /\ [][BucketNext]_bucketVars

Full == Capacity * Token

BucketTypes ==
  /\ bucket \in [Buckets -> [tokens : Int, ts : Int, live : BOOLEAN]]
  /\ clock \in Nat
  /\ used \in [Buckets -> Nat]
  /\ ask \in [Callers -> Nat]
  /\ \A c \in Callers : ask[c] \in 1..Len(Needs[c])
  /\ granted \in [Buckets -> Nat]
  /\ gained \in [Buckets -> Nat]

\* A live bucket was last used at ts on the clock of one of its callers; one that expired
\* was left alone for as long as it takes to fill it.
Account(b) ==
  /\ used[b] <= clock
  /\ bucket[b].tokens \in 0..Full
  /\ bucket[b].live => granted[b] * Token + bucket[b].tokens <= Full + used[b] + gained[b]
  /\ bucket[b].live => \E x \in SkewOf[b] : bucket[b].ts = used[b] + x
  /\ ~bucket[b].live => granted[b] * Token <= clock + gained[b]
  /\ (\A x, y \in SkewOf[b] : x = y) => gained[b] = 0

BucketInv == BucketTypes /\ \A b \in Buckets : Account(b)

-----------------------------------------------------------------------------
\* A full bucket is a number of tokens.
LEMMA FullIsNat == Full \in Nat /\ Full >= Token /\ Full <= Ttl
<1>1. Capacity \in Nat /\ Token \in Nat /\ Capacity >= 1 /\ Token >= 1 BY BucketAssumption
<1>2. \A x, y \in Nat : x >= 1 /\ y >= 1 => x * y \in Nat /\ x * y >= y BY SMT
<1> QED BY <1>1, <1>2, BucketAssumption DEF Full

\* One token more is worth one more refill time.
LEMMA OneMore == \A g \in Nat : g * Token \in Nat /\ (g + 1) * Token = g * Token + Token
BY BucketAssumption

\* A caller's clock is one of those its bucket knows.
LEMMA OwnSkew ==
  ASSUME NEW c \in Callers, NEW i \in 1..Len(Needs[c])
  PROVE  Needs[c][i] \in Buckets /\ Skew[c] \in SkewOf[Needs[c][i]] /\ Skew[c] \in Int
<1>1. Needs[c] \in Seq(Buckets) /\ Skew[c] \in Int BY BucketAssumption
<1>2. Needs[c][i] \in Buckets BY <1>1
<1> QED BY <1>1, <1>2 DEF SkewOf

\* Nothing has been used when the service starts.
LEMMA InitAccount == BucketInit => BucketInv
<1> SUFFICES ASSUME BucketInit PROVE BucketInv OBVIOUS
<1>1. \A c \in Callers : 1 \in 1..Len(Needs[c]) BY BucketAssumption
<1>2. BucketTypes BY <1>1 DEF BucketInit, BucketTypes
<1>3. ASSUME NEW b \in Buckets PROVE Account(b)
  <2>1. 0 * Token = 0 BY BucketAssumption
  <2> QED BY <2>1, FullIsNat DEF BucketInit, Account
<1> QED BY <1>2, <1>3 DEF BucketInv

-----------------------------------------------------------------------------
\* The account of the bucket a caller asks.
LEMMA TakeAccount ==
  ASSUME BucketInv, NEW c \in Callers, TryAcquire(c)
  PROVE  BucketInv'
<1>0. PICK b \in Buckets : b = Needs[c][ask[c]]
  BY OwnSkew DEF BucketInv, BucketTypes
<1> DEFINE now == clock + Skew[c]
           d == bucket[b]
           passed == Most(0, now - d.ts)
           refilled == IF d.live THEN Least(Full, d.tokens + passed) ELSE Full
           credit == IF bucket[b].live
                     THEN Most(0, (clock + Skew[c] - bucket[b].ts) - (clock - used[b])) ELSE 0
           ok == refilled >= Token
           held == [tokens |-> IF ok THEN refilled - Token ELSE refilled, ts |-> now, live |-> TRUE]
           taken == Taken(d, now)
<1>1. b \in Buckets /\ Skew[c] \in SkewOf[b] /\ Skew[c] \in Int
  BY <1>0, OwnSkew DEF BucketInv, BucketTypes
<1>2. /\ clock \in Nat /\ used[b] \in Nat /\ granted[b] \in Nat /\ gained[b] \in Nat
      /\ d.tokens \in Int /\ d.ts \in Int /\ d.live \in BOOLEAN
  BY <1>1 DEF BucketInv, BucketTypes
<1>3. Account(b) BY <1>1 DEF BucketInv
<1>4. now \in Int /\ passed \in Nat /\ credit \in Nat
  BY <1>1, <1>2 DEF Most
<1>5. refilled \in 0..Full
  BY <1>2, <1>3, <1>4, FullIsNat DEF Account, Least
<1>6. (taken.ok <=> ok) /\ taken.data = held
  BY DEF Taken, Full
<1>7. /\ bucket' = [bucket EXCEPT ![b] = held]
      /\ used' = [used EXCEPT ![b] = clock]
      /\ granted' = [granted EXCEPT ![b] = granted[b] + IF ok THEN 1 ELSE 0]
      /\ gained' = [gained EXCEPT ![b] = gained[b] + credit]
      /\ ask' = [ask EXCEPT ![c] = (ask[c] % Len(Needs[c])) + 1]
      /\ clock' = clock
  <2>1. bucket' = [bucket EXCEPT ![b] = taken.data] BY <1>0 DEF TryAcquire
  <2>2. used' = [used EXCEPT ![b] = clock] BY <1>0 DEF TryAcquire
  <2>3. granted' = [granted EXCEPT ![b] = granted[b] + IF taken.ok THEN 1 ELSE 0]
    BY <1>0, Zenon DEF TryAcquire
  <2>4. gained' = [gained EXCEPT ![b] = gained[b] + credit]
    <3> HIDE DEF taken
    <3> QED BY <1>0, Zenon DEF TryAcquire
  <2>5. ask' = [ask EXCEPT ![c] = (ask[c] % Len(Needs[c])) + 1] BY DEF TryAcquire
  <2>6. clock' = clock BY DEF TryAcquire
  <2>7. (IF taken.ok THEN 1 ELSE 0) = IF ok THEN 1 ELSE 0 BY <1>6
  <2> HIDE DEF taken, ok, held, credit
  <2> QED BY <2>1, <2>2, <2>3, <2>4, <2>5, <2>6, <2>7, <1>6
<1> HIDE DEF taken
<1>8. BucketTypes'
  <2>1. held \in [tokens : Int, ts : Int, live : BOOLEAN]
    BY <1>4, <1>5, <1>6, FullIsNat, BucketAssumption
  <2>2. bucket' \in [Buckets -> [tokens : Int, ts : Int, live : BOOLEAN]]
    BY <2>1, <1>7 DEF BucketInv, BucketTypes
  <2>3. granted' \in [Buckets -> Nat] /\ gained' \in [Buckets -> Nat] /\ used' \in [Buckets -> Nat] /\ clock' \in Nat
    <3> HIDE DEF ok, credit
    <3>1. (IF ok THEN 1 ELSE 0) \in Nat OBVIOUS
    <3>2. granted' \in [Buckets -> Nat] BY <3>1, <1>2, <1>7 DEF BucketInv, BucketTypes
    <3>3. gained' \in [Buckets -> Nat]
      <4>1. gained \in [Buckets -> Nat] BY DEF BucketInv, BucketTypes
      <4>2. gained[b] + credit \in Nat BY <1>2, <1>4, <4>1
      <4>3. gained' = [gained EXCEPT ![b] = gained[b] + credit] BY <1>7
      <4> QED BY <4>1, <4>2, <4>3
    <3>4. used' \in [Buckets -> Nat] /\ clock' \in Nat BY <1>7 DEF BucketInv, BucketTypes
    <3> QED BY <3>2, <3>3, <3>4
  <2>4. ask' \in [Callers -> Nat] /\ \A k \in Callers : ask'[k] \in 1..Len(Needs[k])
    <3>1. Len(Needs[c]) \in Nat /\ Len(Needs[c]) >= 1 BY BucketAssumption
    <3>2. ask[c] \in Nat BY DEF BucketInv, BucketTypes
    <3>3. (ask[c] % Len(Needs[c])) + 1 \in 1..Len(Needs[c]) BY <3>1, <3>2
    <3> DEFINE next == (ask[c] % Len(Needs[c])) + 1
    <3>4. next \in Nat /\ next \in 1..Len(Needs[c]) BY <3>1, <3>3
    <3>5. ask' = [ask EXCEPT ![c] = next] BY <1>7
    <3>6. ask \in [Callers -> Nat] /\ \A k \in Callers : ask[k] \in 1..Len(Needs[k])
      BY DEF BucketInv, BucketTypes
    <3> HIDE DEF next
    <3> QED BY <3>4, <3>5, <3>6
  <2> QED BY <2>2, <2>3, <2>4 DEF BucketTypes
<1>9. Account(b)'
  <2>1. /\ bucket'[b] = held /\ used'[b] = clock /\ gained'[b] = gained[b] + credit
        /\ granted'[b] = granted[b] + IF ok THEN 1 ELSE 0
    BY <1>1, <1>7 DEF BucketInv, BucketTypes
  <2>2. bucket'[b].live /\ bucket'[b].ts = used'[b] + Skew[c]
    BY <2>1, <1>6
  <2>3. bucket'[b].tokens \in 0..Full
    BY <2>1, <1>5, <1>6, FullIsNat, BucketAssumption
  <2>4. granted'[b] * Token + bucket'[b].tokens = granted[b] * Token + refilled
    BY <2>1, <1>2, <1>5, <1>6, OneMore, FullIsNat, BucketAssumption
  <2>5. granted[b] * Token + refilled <= Full + clock + gained[b] + credit
    <3> granted[b] * Token \in Nat BY <1>2, OneMore
    <3>1. CASE d.live
      <4>1. passed <= (clock - used[b]) + credit
        BY <3>1, <1>1, <1>2, <1>3 DEF Account, Most
      <4>2. refilled <= d.tokens + passed
        BY <3>1, <1>2, <1>4, FullIsNat DEF Least
      <4>3. granted[b] * Token + d.tokens <= Full + used[b] + gained[b]
        BY <3>1, <1>3 DEF Account
      <4> HIDE DEF passed, refilled, credit
      <4> QED BY <4>1, <4>2, <4>3, <1>2, <1>4, <1>5, FullIsNat
    <3>2. CASE ~d.live
      BY <3>2, <1>2, <1>3, <1>4, FullIsNat DEF Account
    <3> QED BY <3>1, <3>2
  <2>6. (\A x, y \in SkewOf[b] : x = y) => gained'[b] = 0
    <3> SUFFICES ASSUME \A x, y \in SkewOf[b] : x = y PROVE credit = 0
      BY <2>1, <1>2, <1>3 DEF Account
    <3>1. CASE d.live
      <4>1. d.ts = used[b] + Skew[c] BY <3>1, <1>1, <1>3 DEF Account
      <4> QED BY <4>1, <1>1, <1>2 DEF Most
    <3>2. CASE ~d.live BY <3>2
    <3> QED BY <3>1, <3>2
  <2>7. used'[b] <= clock' BY <2>1, <1>2, <1>7
  <2>8. SkewOf' = SkewOf BY DEF SkewOf
  <2>9. granted'[b] * Token + bucket'[b].tokens <= Full + used'[b] + gained'[b]
    <3> HIDE DEF refilled, credit
    <3> QED BY <2>1, <2>4, <2>5, <1>2, <1>4, FullIsNat
  <2>10. Full' = Full BY DEF Full
  <2> QED BY <1>1, <2>2, <2>3, <2>6, <2>7, <2>8, <2>9, <2>10 DEF Account
<1>10. ASSUME NEW a \in Buckets, a # b PROVE Account(a)'
  <2>1. /\ bucket'[a] = bucket[a] /\ used'[a] = used[a] /\ granted'[a] = granted[a] /\ gained'[a] = gained[a]
    BY <1>7, <1>10 DEF BucketInv, BucketTypes
  <2>2. Account(a) BY <1>10 DEF BucketInv
  <2> QED BY <2>1, <2>2, <1>7 DEF Account, SkewOf, Full
<1> QED BY <1>8, <1>9, <1>10 DEF BucketInv

\* A bucket that expires has been left alone long enough to be full.
LEMMA ExpireAccount ==
  ASSUME BucketInv, NEW b \in Buckets, BucketExpires(b)
  PROVE  BucketInv'
<1>1. /\ bucket' = [bucket EXCEPT ![b] = [tokens |-> 0, ts |-> 0, live |-> FALSE]]
      /\ clock' = clock /\ used' = used /\ ask' = ask /\ granted' = granted /\ gained' = gained
  BY DEF BucketExpires
<1>2. BucketTypes' BY <1>1 DEF BucketInv, BucketTypes
<1>3. Account(b)'
  <2>1. Account(b) /\ bucket[b].live /\ clock >= used[b] + Ttl BY DEF BucketInv, BucketExpires
  <2>2. /\ clock \in Nat /\ used[b] \in Nat /\ gained[b] \in Nat /\ granted[b] * Token \in Nat
    BY OneMore DEF BucketInv, BucketTypes
  <2>3. granted[b] * Token <= clock + gained[b]
    <3> DEFINE given == granted[b] * Token
    <3>1. /\ given + bucket[b].tokens <= Full + used[b] + gained[b]
          /\ bucket[b].tokens \in Nat /\ clock >= used[b] + Ttl
      BY <2>1, FullIsNat DEF Account
    <3>2. Full <= Ttl /\ Full \in Nat /\ Ttl \in Nat /\ given \in Nat
      BY <2>2, FullIsNat, BucketAssumption
    <3> HIDE DEF given
    <3>3. given <= clock + gained[b]
      BY <2>2, <3>1, <3>2
    <3> QED
      BY <3>3 DEF given
  <2>4. bucket'[b].tokens = 0 /\ ~bucket'[b].live BY <1>1 DEF BucketInv, BucketTypes
  <2> QED BY <2>1, <2>3, <2>4, <1>1, FullIsNat DEF Account, SkewOf, Full
<1>4. ASSUME NEW a \in Buckets, a # b PROVE Account(a)'
  <2>1. bucket'[a] = bucket[a] BY <1>1, <1>4 DEF BucketInv, BucketTypes
  <2>2. Account(a) BY DEF BucketInv
  <2> QED BY <2>1, <2>2, <1>1 DEF Account, SkewOf, Full
<1> QED BY <1>2, <1>3, <1>4 DEF BucketInv

\* Time takes nothing away.
LEMMA ClockAccount ==
  ASSUME BucketInv, BucketClock
  PROVE  BucketInv'
<1>1. /\ clock' = clock + 1
      /\ bucket' = bucket /\ used' = used /\ ask' = ask /\ granted' = granted /\ gained' = gained
  BY DEF BucketClock
<1>2. BucketTypes' BY <1>1 DEF BucketInv, BucketTypes
<1>3. ASSUME NEW a \in Buckets PROVE Account(a)'
  <2>1. Account(a) /\ clock \in Nat /\ used[a] \in Nat /\ gained[a] \in Nat /\ granted[a] * Token \in Nat
    BY OneMore DEF BucketInv, BucketTypes
  <2> QED BY <2>1, <1>1 DEF Account, SkewOf, Full
<1> QED BY <1>2, <1>3 DEF BucketInv

\* The inductive invariant of the buckets: every bucket's account is in order.
THEOREM BucketsAreSound == BucketSpec => []BucketInv
<1>1. BucketInv /\ [BucketNext]_bucketVars => BucketInv'
  <2> SUFFICES ASSUME BucketInv, [BucketNext]_bucketVars PROVE BucketInv' OBVIOUS
  <2>1. CASE \E c \in Callers : TryAcquire(c) BY <2>1, TakeAccount
  <2>2. CASE \E b \in Buckets : BucketExpires(b) BY <2>2, ExpireAccount
  <2>3. CASE BucketClock BY <2>3, ClockAccount
  <2>4. CASE UNCHANGED bucketVars
    BY <2>4 DEF BucketInv, BucketTypes, Account, SkewOf, Full, bucketVars
  <2> QED BY <2>1, <2>2, <2>3, <2>4 DEF BucketNext
<1> QED BY InitAccount, <1>1, PTL DEF BucketSpec

\* However many callers share a bucket and whatever their clocks say, it never gives more
\* than its burst, a token per refill time and what the clocks disagree by (Taken, the
\* refill of _ACQUIRE_LUA).
THEOREM RateStaysBounded == BucketSpec => []RateIsBounded
<1>1. BucketInv => RateIsBounded
  <2> SUFFICES ASSUME BucketInv, NEW b \in Buckets
               PROVE  /\ bucket[b].tokens \in 0..Capacity * Token
                      /\ granted[b] * Token <= Capacity * Token + clock + gained[b]
                      /\ (\A x, y \in SkewOf[b] : x = y) => gained[b] = 0
    BY DEF RateIsBounded
  <2>1. Account(b) /\ clock \in Nat /\ used[b] \in Nat /\ gained[b] \in Nat /\ granted[b] * Token \in Nat
        /\ bucket[b].live \in BOOLEAN /\ bucket[b].tokens \in Int
    BY OneMore DEF BucketInv, BucketTypes
  <2>2. granted[b] * Token <= Full + clock + gained[b]
    BY <2>1, FullIsNat DEF Account
  <2> QED BY <2>1, <2>2 DEF Account, Full
<1> QED BY BucketsAreSound, <1>1, PTL
=============================================================================
