-------------------------- MODULE RenderRun_safety --------------------------
(***************************************************************************)
(* Theorems about RenderRun, for every package, every number of workers,   *)
(* users and streams, and every bound on the faults: type correctness and  *)
(* what happens to a dispatched node whatever fails.                       *)
(*                                                                         *)
(* Then what holds while a single caller at a time retries, no message is  *)
(* delivered twice and no send fails after the fact: a render is never     *)
(* doubled, what succeeded is kept, what the compositor reads is frozen,   *)
(* and the run implements RunLifecycle.  The daemon may abort, the workers *)
(* and the compositor may crash and every render may fail.                 *)
(***************************************************************************)
EXTENDS RenderRun, FiniteSetTheorems, TLAPS

USE DEF redis, broker, clients

-----------------------------------------------------------------------------
(* Type correctness. *)

\* Consuming one of a bounded kind leaves natural numbers.
LEMMA UseKeepsType ==
  ASSUME left \in [BoundedKinds -> Nat], NEW kind \in BoundedKinds, Use(kind)
  PROVE  left' \in [BoundedKinds -> Nat]
  BY DEF Use

\* What the bounded kinds are.
LEMMA Kinds ==
  {"retry", "edit", "providerFailure", "sendFailure", "lateSendFailure", "handoffFailure",
   "daemonAbort", "taskCrash", "redelivery", "compositeFailure"} \subseteq BoundedKinds
  BY DEF BoundedKinds

\* The values an actor, a cut or the inputs of a render go back to.
LEMMA IdleTypes ==
  /\ Nothing \in Contents
  /\ DaemonIdle \in DaemonType
  /\ WorkerIdle \in WorkerType
  /\ CompositorIdle \in CompositorType
  /\ RetrierIdle \in RetrierType
  /\ EditorIdle \in EditorType
  /\ ViewerIdle \in ViewerType
<1>1. Nothing \in Contents
  BY DEF Nothing, NoAsset, Contents
<1> QED
  BY <1>1 DEF DaemonIdle, DaemonType, NoSnapshot, WorkerIdle, WorkerType, CompositorIdle,
     CompositorType, RetrierIdle, RetrierType, EditorIdle, EditorType, ViewerIdle, ViewerType,
     Phase

\* A run starts well typed.
LEMMA TypeInit == Init => TypeOK
<1> SUFFICES ASSUME Init PROVE TypeOK
  OBVIOUS
<1>1. status \in Statuses /\ made \in [Nodes -> Contents]
  BY DEF Init, Statuses, Contents, Status, Nothing, NoAsset
<1>2. phase \in Phase /\ left \in [BoundedKinds -> Nat]
  BY RunAssumption DEF Init, Phase
<1>3. \A w \in Workers : worker[w].pc = "idle" /\ worker[w].node \notin Nodes
  BY RunAssumption DEF Init, WorkerIdle
<1>4. /\ daemon.pc = "scan"
      /\ \A e \in Editors : editor[e].pc = "idle"
  BY DEF Init, DaemonIdle, EditorIdle
<1> QED
  BY <1>1, <1>2, <1>3, <1>4, IdleTypes DEF Init, TypeOK

\* The daemon keeps the types.
LEMMA TypeDaemon == ASSUME TypeOK, DaemonStep PROVE TypeOK'
<1> USE RunAssumption, IdleTypes DEF TypeOK
<1>0. DaemonIdle.pc = "scan"
  BY DEF DaemonIdle
<1>1. ASSUME NEW n \in Nodes, TickReadNode(n) PROVE TypeOK'
  BY <1>1 DEF TickReadNode, DaemonType, Statuses
<1>2. ASSUME NEW n \in Nodes, Reserve(n) PROVE TypeOK'
  BY <1>2 DEF Reserve, DaemonType
<1>3. ASSUME NEW n \in Nodes, Pause(n) PROVE TypeOK'
  BY <1>0, <1>3 DEF Pause, Phase
<1>4. CASE TickBegin
  BY <1>4 DEF TickBegin, Phase, DaemonType
<1>5. CASE TickRecover
  BY <1>5 DEF TickRecover, Phase, DaemonType
<1>6. CASE TickResume
  BY <1>6 DEF TickResume, DaemonType
<1>7. CASE TickPark
  BY <1>0, <1>7 DEF TickPark
<1>8. CASE HandOff
  BY <1>8 DEF HandOff, Phase, NoSnapshot, DaemonType
<1>9. CASE Block
  BY <1>0, <1>9 DEF Block, Phase
<1>10. CASE PlanDispatch
  BY <1>0, <1>10 DEF PlanDispatch, ReadyNodes, NoSnapshot, DaemonType
<1>11. CASE MarkDispatched
  BY <1>11 DEF MarkDispatched, Status, Statuses, DaemonType
<1>12. CASE SendRender
  <2>1. AfterDispatch \in DaemonType /\ AfterDispatch.pc \in {"scan", "dispatch"}
    BY <1>0 DEF AfterDispatch, DaemonType
  <2> QED
    BY <1>12, <2>1 DEF SendRender
<1>13. CASE SendRenderFails
  <2>1. renderQueue' \in [Nodes -> Nat] /\ left' \in [BoundedKinds -> Nat]
    BY <1>13, Kinds, UseKeepsType DEF SendRenderFails
  <2>2. daemon' \in DaemonType /\ daemon'.node \in Nodes
    BY <1>13 DEF SendRenderFails, DaemonType
  <2> QED
    BY <1>13, <2>1, <2>2 DEF SendRenderFails
<1>14. CASE RevertDispatch
  BY <1>0, <1>14 DEF RevertDispatch, Status, Statuses
<1>15. CASE SendComposite
  BY <1>0, <1>15 DEF SendComposite
<1>16. CASE SendCompositeFails
  BY <1>0, <1>16, Kinds, UseKeepsType DEF SendCompositeFails
<1> QED
  BY <1>1, <1>2, <1>3, <1>4, <1>5, <1>6, <1>7, <1>8, <1>9, <1>10, <1>11, <1>12, <1>13,
     <1>14, <1>15, <1>16 DEF DaemonStep

\* A worker that steps keeps its record well typed, busy or idle again.
LEMMA WorkerUpdate ==
  ASSUME worker \in [Workers -> WorkerType],
         \A v \in Workers : worker[v].pc # "idle" <=> worker[v].node \in Nodes,
         NEW w \in Workers, NEW x \in WorkerType,
         x.pc # "idle" <=> x.node \in Nodes,
         worker' = [worker EXCEPT ![w] = x]
  PROVE  /\ worker' \in [Workers -> WorkerType]
         /\ \A v \in Workers : worker'[v].pc # "idle" <=> worker'[v].node \in Nodes
  OBVIOUS

\* A worker keeps the types.
LEMMA TypeWorker == ASSUME TypeOK, NEW w \in Workers, WorkerStep(w) PROVE TypeOK'
<1> USE RunAssumption, IdleTypes DEF TypeOK
<1>0. WorkerIdle.pc = "idle" /\ WorkerIdle.node \notin Nodes
  BY DEF WorkerIdle
<1>a. worker[w] \in WorkerType
  OBVIOUS
<1>1. ASSUME NEW n \in Nodes, TakeRender(w, n) PROVE TypeOK'
  <2>1. [WorkerIdle EXCEPT !.pc = "load", !.node = n] \in WorkerType
    BY DEF WorkerType, WorkerIdle
  <2> DEFINE x == [WorkerIdle EXCEPT !.pc = "load", !.node = n]
  <2>2. x.pc = "load" /\ x.node = n
    BY DEF WorkerIdle
  <2> HIDE DEF x
  <2>3. worker' = [worker EXCEPT ![w] = x]
    BY <1>1 DEF TakeRender, x
  <2> QED
    BY <1>1, <2>1, <2>2, <2>3, WorkerUpdate DEF TakeRender, x
<1>2. CASE LoadNode(w)
  <2>1. InputsOf(worker[w].node) \in Contents
    BY DEF InputsOf, NoAsset, Contents
  <2> QED
    BY <1>2, <2>1, <1>a DEF LoadNode, WorkerType
<1>3. CASE Submit(w)
  BY <1>3, <1>a DEF Submit, WorkerType
<1>4. CASE RecordCost(w)
  <2>1. spent' \in Nat
    BY <1>4 DEF RecordCost
  <2> QED
    BY <1>4, <2>1, <1>a DEF RecordCost, WorkerType
<1>5. CASE RenderSucceeds(w)
  <2>1. worker[w].inputs \in Contents
    BY <1>a DEF WorkerType
  <2> QED
    BY <1>0, <1>5, <2>1 DEF RenderSucceeds, Status, Statuses
<1>6. ASSUME NEW s \in FailedStatus, LandFailed(w, s), left' \in [BoundedKinds -> Nat]
      PROVE  TypeOK'
  <2>1. status' \in Statuses
    BY <1>6 DEF LandFailed, FailedStatus, Status, Statuses
  <2> QED
    BY <1>0, <1>6, <2>1 DEF LandFailed
<1>7. CASE RenderFails(w)
  BY <1>6, <1>7, Kinds, UseKeepsType DEF RenderFails
<1>8. CASE RecordBilledFailure(w)
  <2>1. spent' \in Nat
    BY <1>8 DEF RecordBilledFailure
  <2>2. left' \in [BoundedKinds -> Nat]
    BY <1>8, Kinds, UseKeepsType DEF RecordBilledFailure
  <2> QED
    BY <1>8, <2>1, <2>2, <1>a DEF RecordBilledFailure, WorkerType
<1>9. CASE BilledRenderFails(w)
  BY <1>6, <1>9 DEF BilledRenderFails, FailedStatus
<1>10. CASE ArchiveFails(w)
  BY <1>6, <1>10, Kinds, UseKeepsType DEF ArchiveFails, FailedStatus
<1> QED
  BY <1>1, <1>2, <1>3, <1>4, <1>5, <1>7, <1>8, <1>9, <1>10 DEF WorkerStep

\* The compositor keeps the types.
LEMMA TypeCompositor == ASSUME TypeOK, CompositorStep PROVE TypeOK'
<1> USE RunAssumption, IdleTypes DEF TypeOK
<1>1. CASE TakeComposite
  <2>1. \A m \in Nodes : made[m][m] \in Nat \cup {NoAsset}
    BY DEF Contents
  <2>2. [n \in Nodes |-> IF n \in Timeline THEN made[n][n] ELSE NoAsset] \in Contents
    BY <2>1 DEF Contents
  <2>3. compositor' \in CompositorType
    BY <1>1, <2>2 DEF TakeComposite, CompositorType
  <2> QED
    BY <1>1, <2>3 DEF TakeComposite
<1>2. CASE SetFinalUrl
  BY <1>2 DEF SetFinalUrl, CompositorType
<1>3. CASE SetComplete
  BY <1>3 DEF SetComplete, Phase
<1>4. CASE CompositeFails
  BY <1>4, Kinds, UseKeepsType DEF CompositeFails
<1> QED
  BY <1>1, <1>2, <1>3, <1>4 DEF CompositorStep

\* A retry keeps the types.
LEMMA TypeRetrier == ASSUME TypeOK, NEW r \in Retriers, RetrierStep(r) PROVE TypeOK'
<1> USE RunAssumption, IdleTypes DEF TypeOK
<1>0. retrier[r] \in RetrierType
  OBVIOUS
<1>1. CASE RetryStart(r)
  <2>1. retrier' \in [Retriers -> RetrierType]
    BY <1>0, <1>1 DEF RetryStart, RetrierType
  <2> QED
    BY <1>1, <2>1, Kinds, UseKeepsType DEF RetryStart
<1>2. CASE RetryDecide(r)
  BY <1>0, <1>2 DEF RetryDecide, RetrierType
<1>3. ASSUME NEW n \in Nodes, RetryCollect(r, n) PROVE TypeOK'
  BY <1>0, <1>3 DEF RetryCollect, RetrierType
<1>4. ASSUME NEW n \in Nodes, ResetNode(r, n) PROVE TypeOK'
  <2> DEFINE rest == [retrier[r] EXCEPT !.todo = @ \ {n}]
  <2>1. rest \in RetrierType
    BY <1>0 DEF RetrierType
  <2>2. retrier' = [retrier EXCEPT ![r] = IF retrier[r].todo = {n} THEN RetrierIdle ELSE rest]
    BY <1>4 DEF ResetNode
  <2> HIDE DEF rest
  <2>3. retrier' \in [Retriers -> RetrierType]
    BY <2>1, <2>2
  <2> QED
    BY <1>4, <2>3 DEF ResetNode, Status, Statuses
<1> QED
  BY <1>1, <1>2, <1>3, <1>4 DEF RetrierStep

\* An edit keeps the types.
LEMMA TypeEditor == ASSUME TypeOK, NEW e \in Editors, EditorStep(e) PROVE TypeOK'
<1> USE RunAssumption, IdleTypes DEF TypeOK
<1>0. editor[e] \in EditorType /\ EditorIdle.pc = "idle"
  BY DEF EditorIdle
<1>1. ASSUME NEW n \in Nodes, EditStart(e, n) PROVE TypeOK'
  <2> DEFINE x == [EditorIdle EXCEPT
                     !.pc = "check", !.node = n, !.waiting = ~DepsSucceeded(status, n)]
  <2>1. x \in EditorType /\ x.node = n
    BY DEF EditorType, EditorIdle, DepsSucceeded
  <2> HIDE DEF x
  <2>2. editor' = [editor EXCEPT ![e] = x]
    BY <1>1 DEF EditStart, x
  <2> QED
    BY <1>1, <2>1, <2>2, Kinds, UseKeepsType DEF EditStart
<1>2. CASE EditCheck(e)
  <2> DEFINE allowed == IF status[editor[e].node] \in FailedStatus THEN FailedStatus
                        ELSE IF status[editor[e].node] = "pending" /\ editor[e].waiting
                             THEN {"pending"} ELSE {}
  <2>1. allowed \in SUBSET Status
    BY DEF FailedStatus, Status
  <2>2. editor' = [editor EXCEPT ![e] = IF allowed = {} THEN EditorIdle
                     ELSE [editor[e] EXCEPT !.pc = "commit", !.allowed = allowed]]
    BY <1>2 DEF EditCheck
  <2> HIDE DEF allowed
  <2>3. [editor[e] EXCEPT !.pc = "commit", !.allowed = allowed] \in EditorType
    BY <1>0, <2>1 DEF EditorType
  <2>4. editor[e].pc = "check"
    BY <1>2 DEF EditCheck
  <2>5. [editor[e] EXCEPT !.pc = "commit", !.allowed = allowed].node \in Nodes
    BY <1>0, <2>4 DEF EditorType
  <2> QED
    BY <1>0, <1>2, <2>2, <2>3, <2>5 DEF EditCheck
<1>3. CASE EditCommit(e)
  <2>1. spec' \in [Nodes -> Nat]
    BY <1>3 DEF EditCommit
  <2> QED
    BY <1>0, <1>3, <2>1 DEF EditCommit
<1> QED
  BY <1>1, <1>2, <1>3 DEF EditorStep

\* A stream keeps the types.
LEMMA TypeViewer == ASSUME TypeOK, NEW v \in Viewers, ViewerStep(v) PROVE TypeOK'
<1> USE IdleTypes DEF TypeOK
<1>0. viewer[v] \in ViewerType
  OBVIOUS
<1>1. CASE ViewPhase(v)
  BY <1>0, <1>1 DEF ViewPhase, ViewerType
<1>2. CASE ViewFinalUrl(v)
  BY <1>0, <1>2 DEF ViewFinalUrl, ViewerType
<1> QED
  BY <1>1, <1>2 DEF ViewerStep

\* Aborts, crashes and redeliveries keep the types.
LEMMA TypeFault == ASSUME TypeOK, Fault PROVE TypeOK'
<1> USE RunAssumption, IdleTypes DEF TypeOK
<1>1. CASE DaemonAbort
  BY <1>1, Kinds, UseKeepsType DEF DaemonAbort, DaemonIdle
<1>2. CASE CompositorCrash
  BY <1>2, Kinds, UseKeepsType DEF CompositorCrash
<1>3. ASSUME NEW w \in Workers, WorkerCrash(w) PROVE TypeOK'
  BY <1>3, Kinds, UseKeepsType DEF WorkerCrash, WorkerIdle
<1>4. ASSUME NEW w \in Workers, Redeliver(w) PROVE TypeOK'
  BY <1>4, Kinds, UseKeepsType DEF Redeliver
<1> QED
  BY <1>1, <1>2, <1>3, <1>4 DEF Fault

\* Every step keeps the types.
LEMMA TypeStep == ASSUME TypeOK, [Next]_vars PROVE TypeOK'
<1>1. CASE UNCHANGED vars
  BY <1>1 DEF TypeOK, vars
<1>2. CASE Next
  BY <1>2, TypeDaemon, TypeWorker, TypeCompositor, TypeRetrier, TypeEditor, TypeViewer,
     TypeFault DEF Next
<1> QED
  BY <1>1, <1>2

\* Every reachable state is well typed, whatever the package and the bounds are.
THEOREM TypeCorrect == Spec => []TypeOK
<1>1. TypeOK /\ [Next]_vars => TypeOK'
  BY TypeStep
<1> QED
  BY TypeInit, <1>1, PTL DEF Spec

-----------------------------------------------------------------------------
(* What is bounded only runs out. *)

\* What is bounded only runs out: no step gives a kind back.
LEMMA LeftOnlyDrops ==
  ASSUME TypeOK, [Next]_vars
  PROVE  \A kind \in BoundedKinds : left'[kind] <= left[kind]
<1>1. left \in [BoundedKinds -> Nat]
  BY DEF TypeOK
<1>2. ASSUME NEW used \in BoundedKinds, Use(used)
      PROVE  \A kind \in BoundedKinds : left'[kind] <= left[kind]
  BY <1>1, <1>2 DEF Use
<1>3. UNCHANGED left \/ \E kind \in BoundedKinds : Use(kind)
  <2>1. CASE DaemonStep
    BY <2>1, Kinds DEF DaemonStep, TickReadNode, Reserve, Pause, TickBegin, TickRecover,
       TickResume, TickPark, HandOff, Block, PlanDispatch, MarkDispatched, SendRender,
       SendRenderFails, RevertDispatch, SendComposite, SendCompositeFails
  <2>2. ASSUME NEW w \in Workers, WorkerStep(w)
        PROVE  UNCHANGED left \/ \E kind \in BoundedKinds : Use(kind)
    BY <2>2, Kinds DEF WorkerStep, TakeRender, LoadNode, Submit, RecordCost, RenderSucceeds,
       RenderFails, RecordBilledFailure, BilledRenderFails, ArchiveFails
  <2>3. CASE CompositorStep
    BY <2>3, Kinds DEF CompositorStep, TakeComposite, SetFinalUrl, SetComplete, CompositeFails
  <2>4. ASSUME NEW r \in Retriers, RetrierStep(r)
        PROVE  UNCHANGED left \/ \E kind \in BoundedKinds : Use(kind)
    BY <2>4, Kinds DEF RetrierStep, RetryStart, RetryDecide, RetryCollect, ResetNode
  <2>5. ASSUME NEW e \in Editors, EditorStep(e)
        PROVE  UNCHANGED left \/ \E kind \in BoundedKinds : Use(kind)
    BY <2>5, Kinds DEF EditorStep, EditStart, EditCheck, EditCommit
  <2>6. ASSUME NEW v \in Viewers, ViewerStep(v) PROVE UNCHANGED left
    BY <2>6 DEF ViewerStep, ViewPhase, ViewFinalUrl
  <2>7. CASE Fault
    BY <2>7, Kinds DEF Fault, DaemonAbort, CompositorCrash, WorkerCrash, Redeliver
  <2>8. CASE UNCHANGED vars
    BY <2>8 DEF vars
  <2> QED
    BY <2>1, <2>2, <2>3, <2>4, <2>5, <2>6, <2>7, <2>8 DEF Next
<1> QED
  BY <1>1, <1>2, <1>3

-----------------------------------------------------------------------------
(* No dispatched node is lost while the daemon is not cut off in a tick. *)

\* How an action changes the status of a node, the messages for it and who works on it
\* decides NoLostDispatch: with none of them changed, or the node no longer dispatched,
\* the node cannot get lost.
LEMMA DispatchKept ==
  ASSUME NoLostDispatch,
         \A n \in Nodes : status'[n] = "dispatched" =>
           \/ DaemonSends(n)' \/ renderQueue'[n] > 0 \/ \E w \in Workers : Renders(w, n)'
           \/ /\ status[n] = "dispatched"
              /\ ~DaemonSends(n)
              /\ renderQueue'[n] = renderQueue[n]
              /\ \A w \in Workers : Renders(w, n) => Renders(w, n)'
  PROVE  NoLostDispatch'
  BY DEF NoLostDispatch

\* Nothing but the daemon makes a node dispatched, and it answers for it until the
\* message is out or the mark is taken back.
THEOREM DispatchNotLost ==
  ASSUME Bounds["daemonAbort"] = 0
  PROVE  Spec => []NoLostDispatch
<1> DEFINE Inv == NoLostDispatch /\ left["daemonAbort"] = 0
<1>1. Init => Inv
  BY DEF Init, NoLostDispatch
<1>2. TypeOK /\ Inv /\ [Next]_vars => Inv'
  <2> SUFFICES ASSUME TypeOK, Inv, [Next]_vars PROVE Inv'
    OBVIOUS
  <2> USE DEF TypeOK, DaemonSends, Renders
  <2>1. left'["daemonAbort"] = 0
    BY LeftOnlyDrops, TypeStep, Kinds
  <2> SUFFICES NoLostDispatch'
    BY <2>1
  <2>2. CASE DaemonStep
    <3>1. ASSUME NEW n \in Nodes, TickReadNode(n) \/ Reserve(n) \/ Pause(n)
          PROVE  NoLostDispatch'
      BY <3>1, DispatchKept DEF TickReadNode, Reserve, Pause, DaemonIdle, DaemonType
    <3>2. CASE TickBegin \/ TickRecover \/ TickResume \/ TickPark
      BY <3>2, DispatchKept DEF TickBegin, TickRecover, TickResume, TickPark, SnapshotTaken
    <3>3. CASE HandOff \/ Block \/ PlanDispatch
      BY <3>3, DispatchKept DEF HandOff, Block, PlanDispatch
    <3>4. CASE MarkDispatched
      BY <3>4, DispatchKept DEF MarkDispatched, DaemonType, Statuses
    <3>5. CASE SendRender
      BY <3>5, DispatchKept DEF SendRender
    <3>6. CASE SendRenderFails
      BY <3>6, DispatchKept DEF SendRenderFails, DaemonType
    <3>7. CASE RevertDispatch
      BY <3>7, DispatchKept DEF RevertDispatch, Statuses
    <3>8. CASE SendComposite \/ SendCompositeFails
      BY <3>8, DispatchKept DEF SendComposite, SendCompositeFails
    <3> QED
      BY <2>2, <3>1, <3>2, <3>3, <3>4, <3>5, <3>6, <3>7, <3>8 DEF DaemonStep
  <2>3. ASSUME NEW w \in Workers, WorkerStep(w) PROVE NoLostDispatch'
    <3>1. ASSUME NEW n \in Nodes, TakeRender(w, n) PROVE NoLostDispatch'
      <4>1. worker'[w].pc = "load" /\ worker'[w].node = n
        BY <3>1 DEF TakeRender, WorkerIdle
      <4>2. \A v \in Workers : v # w => worker'[v] = worker[v]
        BY <3>1 DEF TakeRender
      <4> QED
        BY <3>1, <4>1, <4>2, DispatchKept DEF TakeRender
    <3>2. CASE LoadNode(w) \/ Submit(w) \/ RecordCost(w) \/ RecordBilledFailure(w)
      BY <3>2, DispatchKept DEF LoadNode, Submit, RecordCost, RecordBilledFailure, WorkerType
    <3>3. CASE RenderSucceeds(w)
      <4>1. \A v \in Workers : v # w => worker'[v] = worker[v]
        BY <3>3 DEF RenderSucceeds
      <4>2. \A n \in Nodes : status'[n] = IF n = worker[w].node THEN "succeeded" ELSE status[n]
        BY <3>3 DEF RenderSucceeds, Statuses
      <4> QED
        BY <3>3, <4>1, <4>2, DispatchKept DEF RenderSucceeds
    <3>4. CASE RenderFails(w) \/ ArchiveFails(w) \/ BilledRenderFails(w)
      BY <3>4, DispatchKept DEF RenderFails, ArchiveFails, BilledRenderFails, LandFailed,
         FailedStatus, Statuses
    <3> QED
      BY <2>3, <3>1, <3>2, <3>3, <3>4 DEF WorkerStep
  <2>4. CASE CompositorStep
    BY <2>4, DispatchKept DEF CompositorStep, TakeComposite, SetFinalUrl, SetComplete,
       CompositeFails
  <2>5. ASSUME NEW r \in Retriers, RetrierStep(r) PROVE NoLostDispatch'
    <3>1. CASE RetryStart(r) \/ RetryDecide(r)
      BY <3>1, DispatchKept DEF RetryStart, RetryDecide
    <3>2. ASSUME NEW n \in Nodes, RetryCollect(r, n) \/ ResetNode(r, n)
          PROVE  NoLostDispatch'
      BY <3>2, DispatchKept DEF RetryCollect, ResetNode, Statuses
    <3> QED
      BY <2>5, <3>1, <3>2 DEF RetrierStep
  <2>6. ASSUME NEW e \in Editors, EditorStep(e) PROVE NoLostDispatch'
    <3>1. UNCHANGED <<status, renderQueue, daemon, worker>>
      BY <2>6 DEF EditorStep, EditStart, EditCheck, EditCommit
    <3> QED
      BY <3>1, DispatchKept
  <2>7. ASSUME NEW v \in Viewers, ViewerStep(v) PROVE NoLostDispatch'
    BY <2>7, DispatchKept DEF ViewerStep, ViewPhase, ViewFinalUrl
  <2>8. CASE Fault
    <3>1. ~DaemonAbort
      BY DEF DaemonAbort, Use
    <3>2. ASSUME NEW w \in Workers, WorkerCrash(w) PROVE NoLostDispatch'
      <4>1. \A v \in Workers : v # w => worker'[v] = worker[v]
        BY <3>2 DEF WorkerCrash
      <4>2. renderQueue'[worker[w].node] > 0
        BY <3>2 DEF WorkerCrash
      <4>3. \A n \in Nodes : n # worker[w].node => renderQueue'[n] = renderQueue[n]
        BY <3>2 DEF WorkerCrash
      <4> QED
        BY <3>2, <4>1, <4>2, <4>3, DispatchKept DEF WorkerCrash
    <3>3. ASSUME NEW w \in Workers, Redeliver(w) PROVE NoLostDispatch'
      BY <3>3, DispatchKept DEF Redeliver
    <3>4. CASE CompositorCrash
      BY <3>4, DispatchKept DEF CompositorCrash
    <3> QED
      BY <2>8, <3>1, <3>2, <3>3, <3>4 DEF Fault
  <2>9. CASE UNCHANGED vars
    BY <2>9, DispatchKept DEF vars
  <2> QED
    BY <2>2, <2>3, <2>4, <2>5, <2>6, <2>7, <2>8, <2>9 DEF Next
<1> QED
  BY <1>1, <1>2, TypeCorrect, PTL DEF Spec

-----------------------------------------------------------------------------
(* The dependency graph: a blocked run has a cause. *)

\* The nodes of S and everything they depend on.
ClosedUnder(S) == \A d \in S : Deps(d) \subseteq S

\* The recursion of blocked_by (failed_upstream) has a solution: the nodes in every closed
\* set around the dependencies.
LEMMA UpstreamAt ==
  \A n \in Nodes : Upstream[n] = Deps(n) \cup UNION {Upstream[d] : d \in Deps(n)}
<1> DEFINE L == [n \in Nodes |-> {m \in Nodes : \A S \in SUBSET Nodes :
                                   Deps(n) \subseteq S /\ ClosedUnder(S) => m \in S}]
<1>1. ASSUME NEW n \in Nodes PROVE Deps(n) \subseteq Nodes
  BY DEF Deps
<1>2. ASSUME NEW n \in Nodes PROVE L[n] \in SUBSET Nodes /\ Deps(n) \subseteq L[n] /\ ClosedUnder(L[n])
  BY <1>1 DEF ClosedUnder
<1>3. ASSUME NEW n \in Nodes, NEW S \in SUBSET Nodes, Deps(n) \subseteq S, ClosedUnder(S)
      PROVE  L[n] \subseteq S
  BY <1>3
<1> HIDE DEF L
<1>4. ASSUME NEW n \in Nodes PROVE L[n] = Deps(n) \cup UNION {L[d] : d \in Deps(n)}
  <2> DEFINE R == Deps(n) \cup UNION {L[d] : d \in Deps(n)}
  <2>1. ASSUME NEW d \in Deps(n) PROVE d \in Nodes /\ L[d] \subseteq L[n]
    <3>1. d \in Nodes /\ d \in L[n] /\ L[n] \in SUBSET Nodes /\ ClosedUnder(L[n])
      BY <1>1, <1>2
    <3>2. Deps(d) \subseteq L[n]
      BY <3>1 DEF ClosedUnder
    <3> QED
      BY <1>3, <3>1, <3>2
  <2>2. R \subseteq L[n]
    BY <1>2, <2>1
  <2>3. R \in SUBSET Nodes
    BY <1>1, <1>2, <2>1
  <2>4. ClosedUnder(R)
    <3> SUFFICES ASSUME NEW x \in R PROVE Deps(x) \subseteq R
      BY DEF ClosedUnder
    <3>1. CASE x \in Deps(n)
      BY <3>1, <1>2, <2>1
    <3>2. ASSUME NEW d \in Deps(n), x \in L[d] PROVE Deps(x) \subseteq R
      BY <3>2, <1>2, <2>1 DEF ClosedUnder
    <3> QED
      BY <3>1, <3>2
  <2>5. L[n] \subseteq R
    <3>1. Deps(n) \subseteq R
      OBVIOUS
    <3> HIDE DEF R
    <3> QED
      BY <1>3, <2>3, <2>4, <3>1
  <2> QED
    BY <2>2, <2>5
<1> DEFINE Solves(f) == f = [n \in Nodes |-> Deps(n) \cup UNION {f[d] : d \in Deps(n)}]
<1>5. Solves(L)
  <2>1. L = [n \in Nodes |-> L[n]]
    BY DEF L
  <2> QED
    BY <1>4, <2>1
<1>6. Upstream = CHOOSE f : Solves(f)
  BY DEF Upstream
<1> HIDE DEF Solves
<1>7. Solves(Upstream)
  BY <1>5, <1>6
<1> QED
  BY <1>7 DEF Solves

\* dag.py:43 (is_blocked): where nothing is ready, nothing in flight and not everything
\* done, every pending node waits for a failed one upstream, so that blocked_by names a
\* cause for each.
THEOREM BlockedIsExplained ==
  ASSUME Acyclic, NEW st \in [Nodes -> Status], IsBlocked(st)
  PROVE  \A n \in Nodes : st[n] = "pending" => BlockedBy(st, n) # {}
<1> DEFINE Bad == {n \in Nodes : st[n] = "pending" /\ FailedUpstream(st, n) = {}}
<1>1. ASSUME Bad # {} PROVE FALSE
  <2>1. PICK n \in Bad : Deps(n) \cap Bad = {}
    BY <1>1 DEF Acyclic
  <2>2. n \in Nodes /\ st[n] = "pending" /\ FailedUpstream(st, n) = {}
    BY <2>1
  <2>3. PICK d \in Deps(n) : st[d] # "succeeded"
    BY <2>2 DEF IsBlocked, ReadyNodes, DepsSucceeded
  <2>4. d \in Nodes /\ d \in Upstream[n] /\ Upstream[d] \subseteq Upstream[n]
    BY <2>2, <2>3, UpstreamAt DEF Deps
  <2>5. st[d] \notin FailedStatus
    BY <2>2, <2>4 DEF FailedUpstream
  <2>6. st[d] = "pending"
    BY <2>3, <2>4, <2>5 DEF IsBlocked, Status, FailedStatus
  <2>7. FailedUpstream(st, d) # {}
    BY <2>1, <2>3, <2>4, <2>6
  <2> QED
    BY <2>2, <2>4, <2>7 DEF FailedUpstream
<1> QED
  BY <1>1 DEF BlockedBy

\* So a blocked run has a failed node, which POST /retry can take back.
THEOREM BlockedHasCause ==
  ASSUME Acyclic, NEW st \in [Nodes -> Status], IsBlocked(st)
  PROVE  \E n \in Nodes : st[n] \in FailedStatus
<1> DEFINE Pending == {n \in Nodes : st[n] = "pending"}
<1>1. CASE Pending = {}
  <2>1. PICK n \in Nodes : st[n] # "succeeded"
    BY DEF IsBlocked, AllSucceeded
  <2> QED
    BY <1>1, <2>1 DEF IsBlocked, Status, FailedStatus
<1>2. CASE Pending # {}
  <2>1. PICK n \in Pending : Deps(n) \cap Pending = {}
    BY <1>2 DEF Acyclic
  <2>2. PICK d \in Deps(n) : st[d] # "succeeded"
    BY <2>1 DEF IsBlocked, ReadyNodes, DepsSucceeded
  <2>3. d \in Nodes /\ st[d] # "pending"
    BY <2>1, <2>2 DEF Deps
  <2> QED
    BY <2>2, <2>3 DEF IsBlocked, Status, FailedStatus
<1> QED
  BY <1>1, <1>2

-----------------------------------------------------------------------------
(* One caller at a time. *)

\* A node is being executed: its message waits, a worker has it, or the daemon is
\* between the mark and the send.
Executing(n) ==
  renderQueue[n] > 0 \/ DaemonSends(n) \/ \E w \in Workers : Renders(w, n)

\* The mark is the lock of a render, and it is held by one execution.
LockHeld ==
  \A n \in Nodes :
    /\ Executing(n) => status[n] = "dispatched"
    /\ renderQueue[n] <= 1
    /\ renderQueue[n] = 1 => ~DaemonSends(n) /\ \A w \in Workers : ~Renders(w, n)
    /\ \A w \in Workers : Renders(w, n) =>
         ~DaemonSends(n) /\ \A v \in Workers : Renders(v, n) => v = w

\* What a status read during a tick still says about the node at the tick's end.
SeenIsSound ==
  \A n \in Nodes :
    /\ daemon.seen[n] = "pending" => status[n] = "pending"
    /\ daemon.seen[n] = "succeeded" => status[n] = "succeeded"
    /\ daemon.seen[n] \in FailedStatus => status[n] \in FailedStatus \cup {"pending"}

\* The snapshot is complete when it is used and forgotten after, and what the daemon
\* still has to dispatch is ready in Redis, not only in the snapshot.
TickIsSound ==
  /\ daemon.pc = "decide" => \A n \in Nodes : daemon.seen[n] # "unread"
  /\ daemon.pc \notin {"scan", "decide"} => daemon.seen = NoSnapshot
  /\ daemon.pc = "mark" => daemon.node \in daemon.todo
  /\ \A n \in daemon.todo : ~DaemonSends(n) => n \in ReadyNodes(status)

\* A retry under way works on failed nodes of a run that has begun.
RetriesFailed ==
  \A r \in Retriers :
    /\ \A n \in retrier[r].todo : status[n] \in FailedStatus
    /\ retrier[r].pc # "idle" => phase # "none"

\* An edit under way will only touch a node that nobody renders.
EditsUnrendered ==
  \A e \in Editors : editor[e].allowed \subseteq FailedStatus \cup {"pending"}

\* The daemon moves an executing run; the run is handed over once, when all is done.
PhaseIsSound ==
  /\ daemon.pc \in {"decide", "dispatch", "mark", "send", "revert"} => phase = "executing"
  /\ daemon.pc = "handoff" => phase = "compositing"
  /\ phase \in {"compositing", "complete"} => AllSucceeded(status)
  /\ phase \notin {"compositing", "complete"} \/ daemon.pc = "handoff" => handoffs = 0
  /\ handoffs <= 1
  /\ handoffs = 0 => compositeQueue = 0 /\ compositor.pc = "idle"
  /\ compositeQueue > 0 \/ compositor.pc # "idle" => phase = "compositing"
  /\ compositeQueue <= 1
  /\ compositor.pc # "idle" => compositeQueue = 0

\* No second delivery is left to happen.
OneDelivery == left["redelivery"] = 0 /\ left["lateSendFailure"] = 0

\* A single caller at a time retries.
OneRetrier == \A q, r \in Retriers : q = r

RunInv ==
  /\ LockHeld /\ SeenIsSound /\ TickIsSound /\ RetriesFailed /\ EditsUnrendered
  /\ PhaseIsSound /\ OneDelivery

-----------------------------------------------------------------------------
(* How a step may change the status of a node. *)

StatusMove(n) ==
  \/ status'[n] = status[n]
  \/ /\ MarkDispatched /\ n = daemon.node
     /\ n \in ReadyNodes(status) /\ status'[n] = "dispatched"
  \/ /\ RevertDispatch /\ n = daemon.node
     /\ status[n] = "dispatched" /\ status'[n] = "pending"
  \/ /\ status[n] = "dispatched" /\ status'[n] \in {"succeeded"} \cup FailedStatus
     /\ \E w \in Workers : Renders(w, n) /\ worker' = [worker EXCEPT ![w] = WorkerIdle]
     /\ UNCHANGED <<phase, renderQueue, compositeQueue, handoffs, daemon, compositor, clients>>
  \/ /\ status[n] \in FailedStatus /\ status'[n] = "pending"
     /\ \E r \in Retriers : ResetNode(r, n)

\* The node that MarkDispatched marks is ready in Redis, not only in the snapshot.
LEMMA MarkMoves ==
  ASSUME TypeOK, RunInv, MarkDispatched, NEW n \in Nodes
  PROVE  StatusMove(n)
<1>1. daemon.node \in ReadyNodes(status)
  BY DEF RunInv, TickIsSound, MarkDispatched, DaemonSends
<1> QED
  BY <1>1 DEF MarkDispatched, StatusMove, TypeOK, Statuses

\* RevertDispatch takes back a mark that still stands: no worker has landed the node
\* since.
LEMMA RevertMoves ==
  ASSUME TypeOK, RunInv, RevertDispatch, NEW n \in Nodes
  PROVE  StatusMove(n)
<1>1. status[daemon.node] = "dispatched"
  BY DEF RunInv, LockHeld, Executing, RevertDispatch, DaemonSends, TypeOK
<1> QED
  BY <1>1 DEF RevertDispatch, StatusMove, TypeOK, Statuses

\* A worker that lands its node finds it dispatched.
LEMMA LandingMoves ==
  ASSUME TypeOK, RunInv, NEW w \in Workers, worker[w].pc # "idle",
         NEW s \in {"succeeded"} \cup FailedStatus,
         status' = [status EXCEPT ![worker[w].node] = s],
         worker' = [worker EXCEPT ![w] = WorkerIdle],
         UNCHANGED <<phase, renderQueue, compositeQueue, handoffs, daemon, compositor, clients>>,
         NEW n \in Nodes
  PROVE  StatusMove(n)
<1>1. Renders(w, worker[w].node) /\ worker[w].node \in Nodes
  BY DEF Renders, TypeOK
<1>2. status[worker[w].node] = "dispatched"
  BY <1>1 DEF RunInv, LockHeld, Executing
<1> QED
  BY <1>1, <1>2 DEF StatusMove, TypeOK, Statuses

\* reset_node finds a failed node, as long as a single caller retries.
LEMMA ResetMoves ==
  ASSUME TypeOK, RunInv, NEW r \in Retriers, NEW m \in Nodes, ResetNode(r, m), NEW n \in Nodes
  PROVE  StatusMove(n)
<1>1. status[m] \in FailedStatus
  BY DEF RunInv, RetriesFailed, ResetNode
<1>2. CASE n = m
  BY <1>1, <1>2 DEF ResetNode, StatusMove, TypeOK, Statuses
<1>3. CASE n # m
  BY <1>3 DEF ResetNode, StatusMove, TypeOK, Statuses
<1> QED
  BY <1>2, <1>3

\* Every change of a status is one of StatusMove: none of them leaves "succeeded".
LEMMA StatusMoves ==
  ASSUME TypeOK, RunInv, [Next]_vars
  PROVE  \A n \in Nodes : StatusMove(n)
<1> SUFFICES ASSUME NEW n \in Nodes PROVE StatusMove(n)
  OBVIOUS
<1>1. CASE UNCHANGED status
  BY <1>1 DEF StatusMove
<1>2. CASE DaemonStep
  BY <1>1, <1>2, MarkMoves, RevertMoves DEF DaemonStep, TickReadNode, Reserve, Pause,
     TickBegin, TickRecover, TickResume, TickPark, HandOff, Block, PlanDispatch, SendRender,
     SendRenderFails, SendComposite, SendCompositeFails
<1>3. ASSUME NEW w \in Workers, WorkerStep(w) PROVE StatusMove(n)
  <2>1. CASE RenderSucceeds(w)
    BY <2>1, LandingMoves DEF RenderSucceeds
  <2>2. ASSUME NEW s \in FailedStatus, LandFailed(w, s), worker[w].pc # "idle"
        PROVE  StatusMove(n)
    BY <2>2, LandingMoves DEF LandFailed
  <2>3. CASE RenderFails(w) \/ ArchiveFails(w) \/ BilledRenderFails(w)
    BY <2>2, <2>3 DEF RenderFails, ArchiveFails, BilledRenderFails, FailedStatus
  <2> QED
    BY <1>1, <1>3, <2>1, <2>3 DEF WorkerStep, TakeRender, LoadNode, Submit, RecordCost,
       RecordBilledFailure
<1>4. ASSUME NEW r \in Retriers, RetrierStep(r) PROVE StatusMove(n)
  BY <1>1, <1>4, ResetMoves DEF RetrierStep, RetryStart, RetryDecide, RetryCollect
<1>5. CASE CompositorStep
  BY <1>1, <1>5 DEF CompositorStep, TakeComposite, SetFinalUrl, SetComplete, CompositeFails
<1>6. ASSUME NEW e \in Editors, EditorStep(e) PROVE StatusMove(n)
  BY <1>1, <1>6 DEF EditorStep, EditStart, EditCheck, EditCommit
<1>7. ASSUME NEW v \in Viewers, ViewerStep(v) PROVE StatusMove(n)
  BY <1>1, <1>7 DEF ViewerStep, ViewPhase, ViewFinalUrl
<1>8. CASE Fault
  BY <1>1, <1>8 DEF Fault, DaemonAbort, CompositorCrash, WorkerCrash, Redeliver
<1>9. CASE UNCHANGED vars
  BY <1>1, <1>9 DEF vars
<1> QED
  BY <1>2, <1>3, <1>4, <1>5, <1>6, <1>7, <1>8, <1>9 DEF Next

-----------------------------------------------------------------------------
(* Who writes what. *)

\* Only the daemon's steps and its abort change the daemon.
LEMMA OtherStepsKeepDaemon ==
  ASSUME [Next]_vars, ~DaemonStep, ~DaemonAbort
  PROVE  UNCHANGED <<daemon, handoffs>>
<1>1. ASSUME NEW w \in Workers, WorkerStep(w) PROVE UNCHANGED <<daemon, handoffs>>
  BY <1>1 DEF WorkerStep, TakeRender, LoadNode, Submit, RecordCost, RenderSucceeds, RenderFails,
     RecordBilledFailure, BilledRenderFails, ArchiveFails, LandFailed
<1>2. CASE CompositorStep
  BY <1>2 DEF CompositorStep, TakeComposite, SetFinalUrl, SetComplete, CompositeFails
<1>3. ASSUME NEW r \in Retriers, RetrierStep(r) PROVE UNCHANGED <<daemon, handoffs>>
  BY <1>3 DEF RetrierStep, RetryStart, RetryDecide, RetryCollect, ResetNode
<1>4. ASSUME NEW e \in Editors, EditorStep(e) PROVE UNCHANGED <<daemon, handoffs>>
  BY <1>4 DEF EditorStep, EditStart, EditCheck, EditCommit
<1>5. ASSUME NEW v \in Viewers, ViewerStep(v) PROVE UNCHANGED <<daemon, handoffs>>
  BY <1>5 DEF ViewerStep, ViewPhase, ViewFinalUrl
<1>6. CASE Fault
  BY <1>6 DEF Fault, CompositorCrash, WorkerCrash, Redeliver
<1> QED
  BY <1>1, <1>2, <1>3, <1>4, <1>5, <1>6 DEF Next, vars

-----------------------------------------------------------------------------
(* The lock is kept. *)

\* Where no execution is added, the lock stays held; a node whose status changes must
\* not be executing any more.
LEMMA LockShrinks ==
  ASSUME TypeOK, LockHeld, renderQueue' \in [Nodes -> Nat],
         \A n \in Nodes :
           /\ renderQueue'[n] <= renderQueue[n]
           /\ DaemonSends(n)' => DaemonSends(n)
           /\ \A w \in Workers : Renders(w, n)' => Renders(w, n)
           /\ status'[n] = status[n] \/ ~Executing(n)'
  PROVE  LockHeld'
<1>1. renderQueue \in [Nodes -> Nat]
  BY DEF TypeOK
<1>2. ASSUME NEW n \in Nodes, Executing(n)' PROVE Executing(n)
  BY <1>1, <1>2 DEF Executing
<1> QED
  BY <1>1, <1>2 DEF LockHeld, Executing

\* A step that writes no status and sends no message, and gives no worker a node, keeps
\* the lock.
LEMMA LockUntouched ==
  ASSUME TypeOK, LockHeld, UNCHANGED <<status, renderQueue>>,
         \A n \in Nodes : /\ DaemonSends(n)' => DaemonSends(n)
                          /\ \A w \in Workers : Renders(w, n)' => Renders(w, n)
  PROVE  LockHeld'
  BY LockShrinks DEF TypeOK

\* The daemon keeps the lock: the mark comes before the message, the revert after a
\* refused one.
LEMMA LockDaemon == ASSUME TypeOK, RunInv, DaemonStep PROVE LockHeld'
<1> USE DEF RunInv
<1>1. CASE UNCHANGED <<status, renderQueue, worker>> /\ daemon'.pc \notin {"send", "revert"}
  BY <1>1, LockUntouched DEF DaemonSends, Renders
<1>2. CASE MarkDispatched
  <2>1. daemon.node \in Nodes /\ status[daemon.node] = "pending"
    BY <1>2 DEF TickIsSound, MarkDispatched, DaemonSends, ReadyNodes, TypeOK
  <2>2. ~Executing(daemon.node)
    BY <2>1 DEF LockHeld
  <2>3. \A n \in Nodes : /\ DaemonSends(n)' <=> n = daemon.node
                         /\ \A w \in Workers : Renders(w, n)' <=> Renders(w, n)
    BY <1>2 DEF MarkDispatched, DaemonSends, Renders, TypeOK, DaemonType
  <2>4. \A n \in Nodes : status'[n] = IF n = daemon.node THEN "dispatched" ELSE status[n]
    BY <1>2 DEF MarkDispatched, TypeOK, Statuses
  <2>5. UNCHANGED renderQueue /\ renderQueue \in [Nodes -> Nat] /\ daemon.pc = "mark"
    BY <1>2 DEF MarkDispatched, TypeOK
  <2> QED
    BY <2>2, <2>3, <2>4, <2>5 DEF LockHeld, Executing, DaemonSends
<1>3. CASE SendRender
  <2>1. daemon.node \in Nodes /\ DaemonSends(daemon.node)
    BY <1>3 DEF SendRender, DaemonSends, TypeOK
  <2>2. /\ status[daemon.node] = "dispatched" /\ renderQueue[daemon.node] = 0
        /\ \A w \in Workers : ~Renders(w, daemon.node)
    BY <2>1 DEF LockHeld, Executing, TypeOK
  <2>3. \A n \in Nodes : /\ ~DaemonSends(n)'
                         /\ \A w \in Workers : Renders(w, n)' <=> Renders(w, n)
    BY <1>3 DEF SendRender, AfterDispatch, DaemonIdle, DaemonSends, Renders, TypeOK, DaemonType
  <2>4. \A n \in Nodes : renderQueue'[n] = IF n = daemon.node THEN 1 ELSE renderQueue[n]
    BY <1>3, <2>2 DEF SendRender, TypeOK
  <2>5. UNCHANGED status /\ renderQueue \in [Nodes -> Nat]
    BY <1>3 DEF SendRender, TypeOK
  <2> QED
    BY <2>2, <2>3, <2>4, <2>5 DEF LockHeld, Executing
<1>4. CASE SendRenderFails
  <2>1. ~Use("lateSendFailure")
    BY DEF OneDelivery, Use
  <2> QED
    BY <1>4, <2>1, LockUntouched DEF SendRenderFails, DaemonSends, Renders, TypeOK, DaemonType
<1>5. CASE RevertDispatch
  <2>1. daemon.node \in Nodes /\ DaemonSends(daemon.node)
    BY <1>5 DEF RevertDispatch, DaemonSends, TypeOK
  <2>2. \A n \in Nodes : /\ ~DaemonSends(n)'
                         /\ \A w \in Workers : Renders(w, n)' <=> Renders(w, n)
    BY <1>5 DEF RevertDispatch, DaemonIdle, DaemonSends, Renders
  <2>3. UNCHANGED renderQueue /\ renderQueue \in [Nodes -> Nat]
    BY <1>5 DEF RevertDispatch, TypeOK
  <2>4. \A n \in Nodes : n = daemon.node => ~Executing(n)'
    BY <2>1, <2>2, <2>3 DEF LockHeld, Executing
  <2>5. \A n \in Nodes : n # daemon.node => status'[n] = status[n]
    BY <1>5 DEF RevertDispatch, TypeOK, Statuses
  <2> QED
    BY <2>2, <2>3, <2>4, <2>5, LockShrinks
<1>6. daemon \in DaemonType /\ DaemonIdle.pc = "scan"
  BY DEF TypeOK, DaemonIdle
<1>7. ASSUME NEW n \in Nodes, TickReadNode(n) \/ Reserve(n) \/ Pause(n) PROVE LockHeld'
  <2>1. daemon'.pc \notin {"send", "revert"}
    BY <1>6, <1>7 DEF TickReadNode, Reserve, Pause, DaemonType
  <2> QED
    BY <1>1, <1>7, <2>1 DEF TickReadNode, Reserve, Pause
<1>8. CASE TickBegin \/ TickRecover \/ TickResume \/ TickPark \/ HandOff
  <2>1. daemon'.pc \notin {"send", "revert"}
    BY <1>6, <1>8 DEF TickBegin, TickRecover, TickResume, TickPark, HandOff, DaemonType
  <2> QED
    BY <1>1, <1>8, <2>1 DEF TickBegin, TickRecover, TickResume, TickPark, HandOff
<1>9. CASE Block \/ PlanDispatch \/ SendComposite \/ SendCompositeFails
  <2>1. daemon'.pc \notin {"send", "revert"}
    BY <1>6, <1>9 DEF Block, PlanDispatch, SendComposite, SendCompositeFails, DaemonType
  <2> QED
    BY <1>1, <1>9, <2>1 DEF Block, PlanDispatch, SendComposite, SendCompositeFails
<1> QED
  BY <1>2, <1>3, <1>4, <1>5, <1>7, <1>8, <1>9 DEF DaemonStep

\* The execution that ends was the only one of its node.
LEMMA LockLanding ==
  ASSUME TypeOK, RunInv, NEW w \in Workers, worker[w].pc # "idle", NEW s \in Status,
         status' = [status EXCEPT ![worker[w].node] = s],
         worker' = [worker EXCEPT ![w] = WorkerIdle],
         UNCHANGED <<renderQueue, daemon>>
  PROVE  LockHeld'
<1>1. worker[w].node \in Nodes /\ Renders(w, worker[w].node)
  BY DEF TypeOK, Renders
<1>2. \A n \in Nodes : /\ DaemonSends(n)' <=> DaemonSends(n)
                       /\ ~Renders(w, n)'
                       /\ \A v \in Workers : Renders(v, n)' => Renders(v, n)
  BY DEF TypeOK, Renders, DaemonSends, WorkerIdle
<1>3. renderQueue \in [Nodes -> Nat]
  BY DEF TypeOK
<1>4. \A n \in Nodes : n = worker[w].node => ~Executing(n)'
  BY <1>1, <1>2, <1>3 DEF RunInv, LockHeld, Executing
<1>5. \A n \in Nodes : n # worker[w].node => status'[n] = status[n]
  BY DEF TypeOK, Statuses
<1> QED
  BY <1>2, <1>3, <1>4, <1>5, LockShrinks DEF RunInv

\* A worker keeps the lock: it takes the only message and lands the node it alone
\* renders.
LEMMA LockWorker == ASSUME TypeOK, RunInv, NEW w \in Workers, WorkerStep(w) PROVE LockHeld'
<1> USE DEF RunInv
<1>1. ASSUME NEW n \in Nodes, TakeRender(w, n) PROVE LockHeld'
  <2>1. renderQueue[n] = 1 /\ status[n] = "dispatched" /\ ~DaemonSends(n)
        /\ \A v \in Workers : ~Renders(v, n)
    BY <1>1 DEF TakeRender, LockHeld, Executing, TypeOK
  <2>2. \A m \in Nodes : renderQueue'[m] = IF m = n THEN 0 ELSE renderQueue[m]
    BY <1>1, <2>1 DEF TakeRender, TypeOK
  <2>3. \A m \in Nodes : /\ DaemonSends(m)' <=> DaemonSends(m)
                         /\ Renders(w, m)' <=> m = n
                         /\ ~Renders(w, m)
                         /\ \A v \in Workers : v # w => (Renders(v, m)' <=> Renders(v, m))
    BY <1>1 DEF TakeRender, DaemonSends, Renders, TypeOK, WorkerIdle
  <2>4. UNCHANGED status /\ renderQueue \in [Nodes -> Nat]
    BY <1>1 DEF TakeRender, TypeOK
  <2>5. ASSUME NEW m \in Nodes, m # n, Executing(m)' PROVE Executing(m)
    BY <2>2, <2>3, <2>5 DEF Executing
  <2> QED
    BY <2>1, <2>2, <2>3, <2>4, <2>5 DEF LockHeld
<1>2. CASE LoadNode(w) \/ Submit(w) \/ RecordCost(w) \/ RecordBilledFailure(w)
  BY <1>2, LockUntouched DEF LoadNode, Submit, RecordCost, RecordBilledFailure, DaemonSends,
     Renders, TypeOK, WorkerType
<1>3. CASE RenderSucceeds(w)
  BY <1>3, LockLanding DEF RenderSucceeds, Status
<1>4. CASE RenderFails(w) \/ ArchiveFails(w) \/ BilledRenderFails(w)
  <2>1. \E s \in FailedStatus : LandFailed(w, s) /\ worker[w].pc # "idle"
    BY <1>4 DEF RenderFails, ArchiveFails, BilledRenderFails, FailedStatus
  <2> QED
    BY <2>1, LockLanding DEF LandFailed, FailedStatus, Status
<1> QED
  BY <1>1, <1>2, <1>3, <1>4 DEF WorkerStep

\* A retry resets failed nodes only, and those are executed by nobody.
LEMMA LockRetrier ==
  ASSUME TypeOK, RunInv, NEW r \in Retriers, RetrierStep(r)
  PROVE  LockHeld'
<1>1. ASSUME NEW n \in Nodes, ResetNode(r, n) PROVE LockHeld'
  <2>1. status[n] \in FailedStatus
    BY <1>1 DEF RunInv, RetriesFailed, ResetNode
  <2>2. ~Executing(n)
    BY <2>1 DEF RunInv, LockHeld, FailedStatus
  <2>3. UNCHANGED <<renderQueue, daemon, worker>> /\ renderQueue \in [Nodes -> Nat]
    BY <1>1 DEF ResetNode, TypeOK
  <2>4. \A m \in Nodes : m # n => status'[m] = status[m]
    BY <1>1 DEF ResetNode, TypeOK, Statuses
  <2>5. ~Executing(n)'
    BY <2>2, <2>3 DEF Executing, DaemonSends, Renders
  <2> QED
    BY <2>3, <2>4, <2>5, LockShrinks DEF RunInv, DaemonSends, Renders
<1>2. CASE UNCHANGED <<status, renderQueue, daemon, worker>>
  BY <1>2, LockUntouched DEF RunInv, DaemonSends, Renders
<1> QED
  BY <1>1, <1>2 DEF RetrierStep, RetryStart, RetryDecide, RetryCollect

\* A crash puts the message back in place of the worker; an abort gives up the daemon's
\* part.
LEMMA LockFault == ASSUME TypeOK, RunInv, Fault PROVE LockHeld'
<1> USE DEF RunInv
<1>1. CASE DaemonAbort
  BY <1>1, LockUntouched DEF DaemonAbort, DaemonIdle, DaemonSends, Renders
<1>2. CASE CompositorCrash
  BY <1>2, LockUntouched DEF CompositorCrash, DaemonSends, Renders
<1>3. ASSUME NEW w \in Workers, WorkerCrash(w) PROVE LockHeld'
  <2> DEFINE n == worker[w].node
  <2>1. n \in Nodes /\ Renders(w, n)
    BY <1>3 DEF WorkerCrash, TypeOK, Renders
  <2>2. /\ status[n] = "dispatched" /\ renderQueue[n] = 0 /\ ~DaemonSends(n)
        /\ \A v \in Workers : Renders(v, n) => v = w
    BY <2>1 DEF LockHeld, Executing, TypeOK
  <2>3. \A m \in Nodes : /\ DaemonSends(m)' <=> DaemonSends(m)
                         /\ ~Renders(w, m)'
                         /\ \A v \in Workers : v # w => (Renders(v, m)' <=> Renders(v, m))
    BY <1>3 DEF WorkerCrash, WorkerIdle, DaemonSends, Renders, TypeOK
  <2>4. \A m \in Nodes : renderQueue'[m] = IF m = n THEN 1 ELSE renderQueue[m]
    BY <1>3, <2>2 DEF WorkerCrash, TypeOK
  <2>5. UNCHANGED status /\ renderQueue \in [Nodes -> Nat]
    BY <1>3 DEF WorkerCrash, TypeOK
  <2> HIDE DEF n
  <2>6. ASSUME NEW m \in Nodes, m # n, Executing(m)' PROVE Executing(m)
    BY <2>3, <2>4, <2>6 DEF Executing
  <2> QED
    BY <2>2, <2>3, <2>4, <2>5, <2>6 DEF LockHeld
<1>4. ASSUME NEW w \in Workers PROVE ~Redeliver(w)
  BY DEF Redeliver, OneDelivery, Use
<1> QED
  BY <1>1, <1>2, <1>3, <1>4 DEF Fault

\* Every step keeps the lock.
LEMMA LockStep == ASSUME TypeOK, RunInv, [Next]_vars PROVE LockHeld'
<1>1. CASE UNCHANGED <<status, renderQueue, daemon, worker>>
  BY <1>1, LockUntouched DEF RunInv, DaemonSends, Renders
<1>2. CASE CompositorStep
  BY <1>1, <1>2 DEF CompositorStep, TakeComposite, SetFinalUrl, SetComplete, CompositeFails
<1>3. ASSUME NEW e \in Editors, EditorStep(e) PROVE LockHeld'
  BY <1>1, <1>3 DEF EditorStep, EditStart, EditCheck, EditCommit
<1>4. ASSUME NEW v \in Viewers, ViewerStep(v) PROVE LockHeld'
  BY <1>1, <1>4 DEF ViewerStep, ViewPhase, ViewFinalUrl
<1>5. CASE UNCHANGED vars
  BY <1>1, <1>5 DEF vars
<1> QED
  BY <1>2, <1>3, <1>4, <1>5, LockDaemon, LockWorker, LockRetrier, LockFault DEF Next

-----------------------------------------------------------------------------
(* The snapshot and the work list of a tick stay sound. *)

\* A ready node stays ready until the daemon marks it.
LEMMA ReadyStays ==
  ASSUME TypeOK, RunInv, [Next]_vars, NEW n \in ReadyNodes(status)
  PROVE  n \in ReadyNodes(status') \/ (MarkDispatched /\ n = daemon.node)
<1>1. \A m \in Nodes : StatusMove(m)
  BY StatusMoves
<1>2. \A d \in Deps(n) : status'[d] = "succeeded"
  BY <1>1 DEF StatusMove, ReadyNodes, DepsSucceeded, Deps, FailedStatus
<1>3. status'[n] = "pending" \/ (MarkDispatched /\ n = daemon.node)
  BY <1>1 DEF StatusMove, ReadyNodes, FailedStatus
<1> QED
  BY <1>2, <1>3 DEF ReadyNodes, DepsSucceeded

\* How a step changes what the tick has read: not at all, by the current status of a
\* node, or it forgets all.
LEMMA SeenMoves ==
  ASSUME TypeOK, [Next]_vars, NEW n \in Nodes
  PROVE  \/ daemon'.seen[n] \in {daemon.seen[n], "unread"}
         \/ daemon'.seen[n] = status[n] /\ UNCHANGED status
<1> DEFINE Goal == \/ daemon'.seen[n] \in {daemon.seen[n], "unread"}
                   \/ daemon'.seen[n] = status[n] /\ UNCHANGED status
<1>1. daemon \in DaemonType /\ DaemonIdle.seen[n] = "unread" /\ NoSnapshot[n] = "unread"
  BY DEF TypeOK, DaemonIdle, NoSnapshot
<1>2. CASE UNCHANGED daemon
  BY <1>2
<1>3. ASSUME NEW m \in Nodes, TickReadNode(m) PROVE Goal
  BY <1>1, <1>3 DEF TickReadNode, DaemonType
<1>4. ASSUME NEW m \in Nodes, Reserve(m) \/ Pause(m) PROVE Goal
  BY <1>1, <1>4 DEF Reserve, Pause, DaemonType
<1>5. CASE TickBegin \/ TickRecover \/ TickResume \/ TickPark \/ HandOff \/ Block \/ PlanDispatch
  BY <1>1, <1>5 DEF TickBegin, TickRecover, TickResume, TickPark, HandOff, Block, PlanDispatch,
     DaemonType
<1>6. CASE MarkDispatched \/ SendRender \/ SendRenderFails \/ RevertDispatch
  BY <1>1, <1>6 DEF MarkDispatched, SendRender, AfterDispatch, SendRenderFails, RevertDispatch,
     DaemonType
<1>7. CASE SendComposite \/ SendCompositeFails \/ DaemonAbort
  BY <1>1, <1>7 DEF SendComposite, SendCompositeFails, DaemonAbort
<1>8. CASE DaemonStep \/ DaemonAbort
  BY <1>3, <1>4, <1>5, <1>6, <1>7, <1>8 DEF DaemonStep
<1>9. ~DaemonStep /\ ~DaemonAbort => UNCHANGED daemon
  BY OtherStepsKeepDaemon
<1> QED
  BY <1>2, <1>8, <1>9

\* Every step keeps the snapshot sound: what was read as pending only the daemon itself
\* changes, succeeded is final, failed goes back to pending at most.
LEMMA SeenStep == ASSUME TypeOK, RunInv, [Next]_vars PROVE SeenIsSound'
<1> SUFFICES ASSUME NEW n \in Nodes
             PROVE  /\ daemon'.seen[n] = "pending" => status'[n] = "pending"
                    /\ daemon'.seen[n] = "succeeded" => status'[n] = "succeeded"
                    /\ daemon'.seen[n] \in FailedStatus =>
                         status'[n] \in FailedStatus \cup {"pending"}
  BY DEF SeenIsSound
<1>1. /\ daemon.seen[n] = "pending" => status[n] = "pending"
      /\ daemon.seen[n] = "succeeded" => status[n] = "succeeded"
      /\ daemon.seen[n] \in FailedStatus => status[n] \in FailedStatus \cup {"pending"}
  BY DEF RunInv, SeenIsSound
<1>2. CASE daemon'.seen[n] = "unread"
  BY <1>2 DEF FailedStatus
<1>3. CASE UNCHANGED status
  BY <1>1, <1>2, <1>3, SeenMoves
<1>4. CASE MarkDispatched
  <2>1. daemon.seen[n] = "unread"
    BY <1>4 DEF RunInv, TickIsSound, MarkDispatched, NoSnapshot
  <2>2. daemon'.seen = daemon.seen
    BY <1>4 DEF MarkDispatched, TypeOK, DaemonType
  <2> QED
    BY <1>2, <2>1, <2>2
<1>5. CASE ~MarkDispatched /\ ~UNCHANGED status
  <2>1. daemon'.seen[n] \in {daemon.seen[n], "unread"}
    BY <1>5, SeenMoves
  <2>2. StatusMove(n)
    BY StatusMoves
  <2> QED
    BY <1>1, <1>2, <1>5, <2>1, <2>2 DEF StatusMove, FailedStatus
<1> QED
  BY <1>3, <1>4, <1>5

\* Every step but the daemon's own keeps the work list, and keeps it ready.
LEMMA TickUntouched ==
  ASSUME TypeOK, RunInv, [Next]_vars, UNCHANGED daemon
  PROVE  TickIsSound'
<1>1. ~MarkDispatched
  BY DEF MarkDispatched, TypeOK, DaemonType
<1> QED
  BY <1>1, ReadyStays DEF RunInv, TickIsSound, DaemonSends, TypeOK, DaemonType

\* The daemon's own steps keep its work list ready.
LEMMA TickDaemon == ASSUME TypeOK, RunInv, DaemonStep PROVE TickIsSound'
<1> USE DEF RunInv
<1>0. daemon \in DaemonType /\ [Next]_vars
  BY DEF TypeOK, Next
<1>1. CASE daemon' = DaemonIdle
  BY <1>1 DEF TickIsSound, DaemonIdle
<1>2. ASSUME NEW n \in Nodes, TickReadNode(n) PROVE TickIsSound'
  BY <1>0, <1>2, ReadyStays DEF TickReadNode, TickIsSound, DaemonType, DaemonSends, MarkDispatched
<1>3. ASSUME NEW n \in Nodes, Reserve(n) PROVE TickIsSound'
  BY <1>0, <1>3, ReadyStays DEF Reserve, TickIsSound, DaemonType, DaemonSends, MarkDispatched
<1>4. CASE TickBegin \/ TickRecover \/ TickResume
  BY <1>0, <1>4, ReadyStays DEF TickBegin, TickRecover, TickResume, SnapshotTaken, TickIsSound,
     DaemonType, DaemonSends, MarkDispatched
<1>5. CASE HandOff
  BY <1>0, <1>5, ReadyStays DEF HandOff, TickIsSound, DaemonType, DaemonSends, MarkDispatched
<1>6. CASE PlanDispatch
  <2>1. ReadyNodes(daemon.seen) \subseteq ReadyNodes(status)
    BY DEF ReadyNodes, SeenIsSound, DepsSucceeded, Deps
  <2>2. UNCHANGED status
    BY <1>6 DEF PlanDispatch
  <2>3. CASE ReadyNodes(daemon.seen) # {}
    BY <1>0, <1>6, <2>1, <2>2, <2>3 DEF PlanDispatch, TickIsSound, DaemonType
  <2> QED
    BY <1>1, <1>6, <2>3 DEF PlanDispatch
<1>7. CASE MarkDispatched
  <2>1. daemon'.todo = daemon.todo /\ daemon'.pc = "send" /\ daemon'.seen = daemon.seen
        /\ daemon'.node = daemon.node /\ daemon.pc = "mark"
    BY <1>0, <1>7 DEF MarkDispatched, DaemonType
  <2> QED
    BY <1>0, <2>1, ReadyStays DEF TickIsSound, DaemonSends
<1>8. CASE SendRender
  <2>1. UNCHANGED status /\ daemon.pc = "send"
    BY <1>8 DEF SendRender
  <2>2. CASE daemon.todo # {daemon.node}
    <3>1. /\ daemon'.todo = daemon.todo \ {daemon.node}
          /\ daemon'.pc = "dispatch" /\ daemon'.seen = daemon.seen
      BY <1>0, <1>8, <2>2 DEF SendRender, AfterDispatch, DaemonType
    <3> QED
      BY <2>1, <3>1 DEF TickIsSound, DaemonSends
  <2> QED
    BY <1>1, <1>8, <2>2 DEF SendRender, AfterDispatch
<1>9. CASE SendRenderFails
  <2>1. /\ daemon'.todo = daemon.todo /\ daemon'.node = daemon.node
        /\ daemon'.pc = "revert" /\ daemon'.seen = daemon.seen
        /\ daemon.pc = "send" /\ UNCHANGED status
    BY <1>0, <1>9 DEF SendRenderFails, DaemonType
  <2> QED
    BY <2>1 DEF TickIsSound, DaemonSends
<1> QED
  BY <1>1, <1>2, <1>3, <1>4, <1>5, <1>6, <1>7, <1>8, <1>9 DEF DaemonStep, Pause, TickPark, Block,
     RevertDispatch, SendComposite, SendCompositeFails

\* Every step keeps the work list ready.
LEMMA TickStep == ASSUME TypeOK, RunInv, [Next]_vars PROVE TickIsSound'
<1>1. CASE DaemonAbort
  BY <1>1 DEF DaemonAbort, DaemonIdle, TickIsSound
<1> QED
  BY <1>1, TickDaemon, TickUntouched, OtherStepsKeepDaemon

-----------------------------------------------------------------------------
(* Retries and edits under way. *)

\* How a step may change the phase.
PhaseMove ==
  \/ phase' = phase
  \/ /\ daemon.pc = "scan" /\ phase \in {"none", "blocked"} /\ phase' = "executing"
     /\ DaemonStep
  \/ /\ daemon.pc = "decide" /\ phase' \in {"compositing", "blocked"} /\ DaemonStep
  \/ daemon.pc = "dispatch" /\ phase' = "paused" /\ DaemonStep
  \/ SetComplete /\ phase' = "complete"

\* Every change of the phase is one of PhaseMove.
LEMMA PhaseMoves == ASSUME [Next]_vars PROVE PhaseMove
<1>1. CASE DaemonStep
  BY <1>1 DEF PhaseMove, DaemonStep, TickReadNode, Reserve, Pause, TickBegin, TickRecover,
     TickResume, TickPark, SnapshotTaken, HandOff, Block, PlanDispatch, MarkDispatched,
     SendRender, SendRenderFails, RevertDispatch, SendComposite, SendCompositeFails
<1>2. ASSUME NEW w \in Workers, WorkerStep(w) PROVE phase' = phase
  BY <1>2 DEF WorkerStep, TakeRender, LoadNode, Submit, RecordCost, RenderSucceeds, RenderFails,
     RecordBilledFailure, BilledRenderFails, ArchiveFails, LandFailed
<1>3. CASE CompositorStep
  BY <1>3 DEF PhaseMove, CompositorStep, TakeComposite, SetFinalUrl, SetComplete, CompositeFails
<1>4. ASSUME NEW r \in Retriers, RetrierStep(r) PROVE phase' = phase
  BY <1>4 DEF RetrierStep, RetryStart, RetryDecide, RetryCollect, ResetNode
<1>5. ASSUME NEW e \in Editors, EditorStep(e) PROVE phase' = phase
  BY <1>5 DEF EditorStep, EditStart, EditCheck, EditCommit
<1>6. ASSUME NEW v \in Viewers, ViewerStep(v) PROVE phase' = phase
  BY <1>6 DEF ViewerStep, ViewPhase, ViewFinalUrl
<1>7. CASE Fault
  BY <1>7 DEF PhaseMove, Fault, DaemonAbort, CompositorCrash, WorkerCrash, Redeliver
<1>8. CASE UNCHANGED vars
  BY <1>8 DEF PhaseMove, vars
<1> QED
  BY <1>1, <1>2, <1>3, <1>4, <1>5, <1>6, <1>7, <1>8 DEF Next, PhaseMove

\* A retry's list only grows by failed nodes and only begins in a begun run.
LEMMA RetrierMoves ==
  ASSUME TypeOK, [Next]_vars, NEW r \in Retriers
  PROVE  /\ \A n \in retrier'[r].todo :
              /\ n \in retrier[r].todo \/ status'[n] \in FailedStatus
              /\ ~ResetNode(r, n)
         /\ retrier'[r].pc # "idle" =>
              retrier[r].pc # "idle" \/ phase \in RecoverablePhases
<1> DEFINE Goal == /\ \A n \in retrier'[r].todo :
                        /\ n \in retrier[r].todo \/ status'[n] \in FailedStatus
                        /\ ~ResetNode(r, n)
                   /\ retrier'[r].pc # "idle" =>
                        retrier[r].pc # "idle" \/ phase \in RecoverablePhases
<1>0. retrier \in [Retriers -> RetrierType] /\ retrier[r] \in RetrierType
  BY DEF TypeOK
<1>1. CASE retrier'[r] = retrier[r] /\ \A n \in Nodes : ~ResetNode(r, n)
  BY <1>0, <1>1 DEF RetrierType
<1>2. ASSUME NEW m \in Nodes, ResetNode(r, m)
      PROVE  /\ m \notin retrier'[r].todo
             /\ retrier'[r].todo \subseteq retrier[r].todo
             /\ retrier[r].pc = "reset"
  <2>1. CASE retrier[r].todo = {m}
    BY <1>0, <1>2, <2>1 DEF ResetNode, RetrierIdle
  <2>2. CASE retrier[r].todo # {m}
    <3>1. retrier'[r] = [retrier[r] EXCEPT !.todo = retrier[r].todo \ {m}]
      BY <1>0, <1>2, <2>2 DEF ResetNode
    <3>2. retrier'[r].todo = retrier[r].todo \ {m}
      BY <1>0, <3>1 DEF RetrierType
    <3> QED
      BY <1>2, <3>2 DEF ResetNode
  <2> QED
    BY <2>1, <2>2
<1>3. ASSUME NEW q \in Retriers, RetrierStep(q) PROVE Goal
  <2>1. CASE RetryStart(q)
    BY <1>0, <2>1 DEF RetryStart, RetrierType, ResetNode
  <2>2. CASE RetryDecide(q)
    BY <1>0, <2>2 DEF RetryDecide, RetrierIdle, RetrierType, ResetNode
  <2>3. ASSUME NEW m \in Nodes, RetryCollect(q, m) PROVE Goal
    BY <1>0, <2>3 DEF RetryCollect, RetrierType, ResetNode
  <2>4. ASSUME NEW m \in Nodes, ResetNode(q, m) PROVE Goal
    <3>1. CASE q # r
      <4>1. retrier'[r] = retrier[r]
        BY <1>0, <2>4, <3>1 DEF ResetNode
      <4>2. \A n \in retrier'[r].todo : n \in Nodes
        BY <1>0, <4>1 DEF RetrierType
      <4> QED
        BY <1>2, <4>1, <4>2
    <3>2. CASE q = r
      <4>1. retrier'[r].todo \subseteq retrier[r].todo /\ retrier[r].pc # "idle"
        BY <1>2, <2>4, <3>2
      <4>2. \A n \in retrier'[r].todo : n \in Nodes
        BY <1>0, <4>1 DEF RetrierType
      <4>3. \A n \in retrier'[r].todo : ~ResetNode(r, n)
        BY <1>2, <4>2
      <4> QED
        BY <4>1, <4>3
    <3> QED
      BY <3>1, <3>2
  <2> QED
    BY <1>3, <2>1, <2>2, <2>3, <2>4 DEF RetrierStep
<1>4. ASSUME UNCHANGED retrier PROVE Goal
  <2>1. \A n \in Nodes : ~ResetNode(r, n)
    BY <1>0, <1>4 DEF ResetNode, RetrierIdle, RetrierType
  <2> QED
    BY <1>1, <1>4, <2>1
<1>5. CASE DaemonStep
  BY <1>4, <1>5 DEF DaemonStep, TickReadNode, Reserve, Pause, TickBegin, TickRecover,
     TickResume, TickPark, HandOff, Block, PlanDispatch, MarkDispatched, SendRender,
     SendRenderFails, RevertDispatch, SendComposite, SendCompositeFails
<1>6. ASSUME NEW w \in Workers, WorkerStep(w) PROVE Goal
  BY <1>4, <1>6 DEF WorkerStep, TakeRender, LoadNode, Submit, RecordCost, RenderSucceeds,
     RenderFails, RecordBilledFailure, BilledRenderFails, ArchiveFails, LandFailed
<1>7. CASE CompositorStep \/ Fault
  BY <1>4, <1>7 DEF CompositorStep, TakeComposite, SetFinalUrl, SetComplete, CompositeFails,
     Fault, DaemonAbort, CompositorCrash, WorkerCrash, Redeliver
<1>8. ASSUME NEW e \in Editors, EditorStep(e) PROVE Goal
  BY <1>4, <1>8 DEF EditorStep, EditStart, EditCheck, EditCommit
<1>9. ASSUME NEW v \in Viewers, ViewerStep(v) PROVE Goal
  BY <1>4, <1>9 DEF ViewerStep, ViewPhase, ViewFinalUrl
<1>10. CASE UNCHANGED vars
  BY <1>4, <1>10 DEF vars
<1> QED
  BY <1>3, <1>5, <1>6, <1>7, <1>8, <1>9, <1>10 DEF Next

\* Every step keeps the list of a retry failed and its run begun.
LEMMA RetriesStep ==
  ASSUME OneRetrier, TypeOK, RunInv, [Next]_vars
  PROVE  RetriesFailed'
<1> SUFFICES ASSUME NEW r \in Retriers
             PROVE  /\ \A n \in retrier'[r].todo : status'[n] \in FailedStatus
                    /\ retrier'[r].pc # "idle" => phase' # "none"
  BY DEF RetriesFailed
<1>1. ASSUME NEW n \in retrier'[r].todo PROVE status'[n] \in FailedStatus
  <2>1. n \in Nodes
    BY TypeStep DEF TypeOK, RetrierType
  <2>2. CASE n \in retrier[r].todo
    <3>1. status[n] \in FailedStatus
      BY <2>2 DEF RunInv, RetriesFailed
    <3>2. \A q \in Retriers : ~ResetNode(q, n)
      BY <1>1, RetrierMoves DEF OneRetrier
    <3>3. StatusMove(n)
      BY <2>1, StatusMoves
    <3> QED
      BY <3>1, <3>2, <3>3 DEF StatusMove, ReadyNodes, FailedStatus
  <2> QED
    BY <1>1, <2>2, RetrierMoves
<1>2. retrier'[r].pc # "idle" => phase' # "none"
  BY RetrierMoves, PhaseMoves DEF RunInv, RetriesFailed, PhaseMove, RecoverablePhases
<1> QED
  BY <1>1, <1>2

\* Every step leaves an edit with statuses in which nobody renders the node.
LEMMA EditsStep == ASSUME TypeOK, RunInv, [Next]_vars PROVE EditsUnrendered'
<1> SUFFICES ASSUME NEW e \in Editors
             PROVE  editor'[e].allowed \subseteq FailedStatus \cup {"pending"}
  BY DEF EditsUnrendered
<1>0. /\ editor \in [Editors -> EditorType]
      /\ editor[e].allowed \subseteq FailedStatus \cup {"pending"}
  BY DEF RunInv, EditsUnrendered, TypeOK
<1>1. ASSUME NEW f \in Editors, EditorStep(f)
      PROVE  editor'[e].allowed \subseteq FailedStatus \cup {"pending"}
  <2>1. ASSUME NEW n \in Nodes, EditStart(f, n)
        PROVE  editor'[e].allowed \subseteq FailedStatus \cup {"pending"}
    BY <1>0, <2>1 DEF EditStart, EditorIdle
  <2>2. CASE EditCheck(f)
    BY <1>0, <2>2 DEF EditCheck, EditorIdle, EditorType
  <2>3. CASE EditCommit(f)
    BY <1>0, <2>3 DEF EditCommit, EditorIdle
  <2> QED
    BY <1>1, <2>1, <2>2, <2>3 DEF EditorStep
<1>2. CASE UNCHANGED editor
  BY <1>0, <1>2
<1>3. CASE DaemonStep
  BY <1>2, <1>3 DEF DaemonStep, TickReadNode, Reserve, Pause, TickBegin, TickRecover,
     TickResume, TickPark, HandOff, Block, PlanDispatch, MarkDispatched, SendRender,
     SendRenderFails, RevertDispatch, SendComposite, SendCompositeFails
<1>4. ASSUME NEW w \in Workers, WorkerStep(w) PROVE UNCHANGED editor
  BY <1>4 DEF WorkerStep, TakeRender, LoadNode, Submit, RecordCost, RenderSucceeds,
     RenderFails, RecordBilledFailure, BilledRenderFails, ArchiveFails, LandFailed
<1>5. CASE CompositorStep \/ Fault
  BY <1>2, <1>5 DEF CompositorStep, TakeComposite, SetFinalUrl, SetComplete, CompositeFails,
     Fault, DaemonAbort, CompositorCrash, WorkerCrash, Redeliver
<1>6. ASSUME NEW r \in Retriers, RetrierStep(r) PROVE UNCHANGED editor
  BY <1>6 DEF RetrierStep, RetryStart, RetryDecide, RetryCollect, ResetNode
<1>7. ASSUME NEW v \in Viewers, ViewerStep(v) PROVE UNCHANGED editor
  BY <1>7 DEF ViewerStep, ViewPhase, ViewFinalUrl
<1>8. CASE UNCHANGED vars
  BY <1>2, <1>8 DEF vars
<1> QED
  BY <1>1, <1>2, <1>3, <1>4, <1>5, <1>6, <1>7, <1>8 DEF Next

-----------------------------------------------------------------------------
(* The phase stays sound. *)

\* A finished run stays finished.
LEMMA AllSucceededStays ==
  ASSUME TypeOK, RunInv, [Next]_vars, AllSucceeded(status)
  PROVE  AllSucceeded(status')
  BY StatusMoves DEF AllSucceeded, StatusMove, ReadyNodes, FailedStatus

\* With the program counters, the phase and the composite task alone, so that the cases
\* below need not open the records.
LEMMA PhaseUntouched ==
  ASSUME TypeOK, RunInv, [Next]_vars,
         UNCHANGED <<phase, handoffs, compositeQueue, compositor>>,
         \/ daemon'.pc \in {daemon.pc, "scan"}
         \/ /\ daemon.pc \in {"decide", "dispatch", "mark", "send"}
            /\ daemon'.pc \in {"dispatch", "mark", "send", "revert"}
  PROVE  PhaseIsSound'
  BY AllSucceededStays DEF RunInv, PhaseIsSound

\* The daemon keeps the phase sound: it hands over once, from a complete snapshot.
LEMMA PhaseDaemon == ASSUME TypeOK, RunInv, DaemonStep PROVE PhaseIsSound'
<1> USE DEF RunInv
<1>0. daemon \in DaemonType /\ [Next]_vars /\ DaemonIdle.pc = "scan"
  BY DEF TypeOK, Next, DaemonIdle
<1>1. ASSUME NEW n \in Nodes, TickReadNode(n) \/ Reserve(n) PROVE PhaseIsSound'
  <2>1. UNCHANGED <<phase, handoffs, compositeQueue, compositor>>
    BY <1>1 DEF TickReadNode, Reserve
  <2>2. daemon'.pc = daemon.pc \/ (daemon.pc = "dispatch" /\ daemon'.pc = "mark")
    BY <1>0, <1>1 DEF TickReadNode, Reserve, DaemonType
  <2> QED
    BY <1>0, <2>1, <2>2, PhaseUntouched
<1>2. ASSUME NEW n \in Nodes, Pause(n) PROVE PhaseIsSound'
  BY <1>0, <1>2 DEF Pause, PhaseIsSound
<1>3. CASE TickBegin \/ TickRecover \/ TickResume
  <2>1. /\ daemon.pc = "scan" /\ daemon'.pc = "decide"
        /\ phase \in {"none", "blocked", "executing"} /\ phase' = "executing"
        /\ UNCHANGED <<handoffs, compositeQueue, compositor>>
    BY <1>0, <1>3 DEF TickBegin, TickRecover, TickResume, SnapshotTaken, DaemonType
  <2> QED
    BY <2>1 DEF PhaseIsSound
<1>4. CASE TickPark
  BY <1>0, <1>4, PhaseUntouched DEF TickPark
<1>5. CASE HandOff
  <2>1. /\ daemon.pc = "decide" /\ daemon'.pc = "handoff" /\ phase' = "compositing"
        /\ UNCHANGED <<status, handoffs, compositeQueue, compositor>>
    BY <1>0, <1>5 DEF HandOff, DaemonType
  <2>2. AllSucceeded(status)
    BY <1>5 DEF HandOff, AllSucceeded, SeenIsSound
  <2> QED
    BY <2>1, <2>2 DEF PhaseIsSound
<1>6. CASE Block
  BY <1>0, <1>6 DEF Block, PhaseIsSound
<1>7. CASE PlanDispatch
  <2>1. daemon.pc = "decide" /\ daemon'.pc \in {"scan", "dispatch"}
    BY <1>0, <1>7 DEF PlanDispatch, DaemonType
  <2> QED
    BY <1>0, <1>7, <2>1, PhaseUntouched DEF PlanDispatch
<1>8. CASE MarkDispatched \/ SendRender \/ SendRenderFails \/ RevertDispatch
  <2>1. /\ daemon.pc \in {"mark", "send", "revert"}
        /\ \/ daemon'.pc = "scan"
           \/ daemon.pc # "revert" /\ daemon'.pc \in {"dispatch", "send", "revert"}
    BY <1>0, <1>8 DEF MarkDispatched, SendRender, AfterDispatch, SendRenderFails,
       RevertDispatch, DaemonType
  <2>2. UNCHANGED <<phase, handoffs, compositeQueue, compositor>>
    BY <1>8 DEF MarkDispatched, SendRender, SendRenderFails, RevertDispatch
  <2> QED
    BY <1>0, <2>1, <2>2, PhaseUntouched
<1>9. CASE SendComposite
  <2>1. /\ daemon.pc = "handoff" /\ daemon'.pc = "scan"
        /\ handoffs' = handoffs + 1 /\ compositeQueue' = compositeQueue + 1
        /\ UNCHANGED <<phase, status, compositor>>
    BY <1>0, <1>9 DEF SendComposite
  <2> QED
    BY <2>1 DEF PhaseIsSound
<1>10. CASE SendCompositeFails
  BY <1>0, <1>10, PhaseUntouched DEF SendCompositeFails
<1> QED
  BY <1>1, <1>2, <1>3, <1>4, <1>5, <1>6, <1>7, <1>8, <1>9, <1>10 DEF DaemonStep

\* The compositor keeps the phase sound: it completes a run it was handed.
LEMMA PhaseCompositor ==
  ASSUME TypeOK, RunInv, CompositorStep \/ CompositorCrash
  PROVE  PhaseIsSound'
<1> USE DEF RunInv
<1>0. /\ compositor \in CompositorType /\ compositeQueue \in Nat
      /\ CompositorIdle.pc = "idle"
  BY DEF TypeOK, CompositorIdle
<1>1. CASE TakeComposite
  BY <1>0, <1>1 DEF TakeComposite, PhaseIsSound
<1>2. CASE SetFinalUrl
  <2>1. compositor.pc = "render" /\ compositor'.pc = "finish"
    BY <1>0, <1>2 DEF SetFinalUrl, CompositorType
  <2> QED
    BY <1>2, <2>1 DEF SetFinalUrl, PhaseIsSound
<1>3. CASE SetComplete
  BY <1>0, <1>3 DEF SetComplete, PhaseIsSound
<1>4. CASE CompositeFails
  BY <1>0, <1>4 DEF CompositeFails, PhaseIsSound
<1>5. CASE CompositorCrash
  BY <1>0, <1>5 DEF CompositorCrash, PhaseIsSound
<1> QED
  BY <1>1, <1>2, <1>3, <1>4, <1>5 DEF CompositorStep

\* Every step keeps the phase sound.
LEMMA PhaseStep == ASSUME TypeOK, RunInv, [Next]_vars PROVE PhaseIsSound'
<1>1. CASE UNCHANGED <<phase, handoffs, compositeQueue, compositor, daemon>>
  BY <1>1, PhaseUntouched
<1>2. ASSUME NEW w \in Workers, WorkerStep(w) PROVE PhaseIsSound'
  BY <1>1, <1>2 DEF WorkerStep, TakeRender, LoadNode, Submit, RecordCost, RenderSucceeds,
     RenderFails, RecordBilledFailure, BilledRenderFails, ArchiveFails, LandFailed
<1>3. ASSUME NEW r \in Retriers, RetrierStep(r) PROVE PhaseIsSound'
  BY <1>1, <1>3 DEF RetrierStep, RetryStart, RetryDecide, RetryCollect, ResetNode
<1>4. ASSUME NEW e \in Editors, EditorStep(e) PROVE PhaseIsSound'
  BY <1>1, <1>4 DEF EditorStep, EditStart, EditCheck, EditCommit
<1>5. ASSUME NEW v \in Viewers, ViewerStep(v) PROVE PhaseIsSound'
  BY <1>1, <1>5 DEF ViewerStep, ViewPhase, ViewFinalUrl
<1>6. CASE Fault
  <2>1. CASE DaemonAbort
    BY <2>1, PhaseUntouched DEF DaemonAbort, DaemonIdle
  <2> QED
    BY <1>1, <1>6, <2>1, PhaseCompositor DEF Fault, WorkerCrash, Redeliver
<1>7. CASE UNCHANGED vars
  BY <1>1, <1>7 DEF vars
<1> QED
  BY <1>2, <1>3, <1>4, <1>5, <1>6, <1>7, PhaseDaemon, PhaseCompositor DEF Next

-----------------------------------------------------------------------------
(* The invariant, and what follows from it. *)

\* What the theorems below assume of an instance.
OrderlyRun ==
  OneRetrier /\ Bounds["redelivery"] = 0 /\ Bounds["lateSendFailure"] = 0

\* A run that has just been approved satisfies the invariant, whatever nodes are
\* seeded.
LEMMA RunInvInit == ASSUME OrderlyRun, Init PROVE RunInv
<1>1. LockHeld
  BY RunAssumption DEF Init, LockHeld, Executing, DaemonSends, Renders, DaemonIdle, WorkerIdle
<1>2. SeenIsSound /\ TickIsSound
  BY DEF Init, SeenIsSound, TickIsSound, DaemonIdle, NoSnapshot, FailedStatus
<1>3. RetriesFailed /\ EditsUnrendered
  BY DEF Init, RetriesFailed, EditsUnrendered, RetrierIdle, EditorIdle
<1>4. PhaseIsSound
  BY DEF Init, PhaseIsSound, DaemonIdle, CompositorIdle
<1> QED
  BY <1>1, <1>2, <1>3, <1>4 DEF RunInv, OrderlyRun, OneDelivery, Init

\* RunInv is an invariant of every instance in which one caller at a time retries and no
\* render message is delivered, or sent, twice.
THEOREM RunIsSound == ASSUME OrderlyRun PROVE Spec => [](TypeOK /\ RunInv)
<1>1. Init => TypeOK /\ RunInv
  BY TypeInit, RunInvInit
<1>2. TypeOK /\ RunInv /\ [Next]_vars => (TypeOK /\ RunInv)'
  <2> SUFFICES ASSUME TypeOK, RunInv, [Next]_vars PROVE TypeOK' /\ RunInv'
    OBVIOUS
  <2>1. OneDelivery'
    BY LeftOnlyDrops, TypeStep, Kinds DEF OneDelivery, RunInv, TypeOK
  <2> QED
    BY <2>1, TypeStep, LockStep, SeenStep, TickStep, RetriesStep, EditsStep, PhaseStep
       DEF RunInv, OrderlyRun
<1> QED
  BY <1>1, <1>2, PTL DEF Spec

\* No render is doubled: the mark, the one message and the one worker are never two.
THEOREM NoDoubleRender == ASSUME OrderlyRun PROVE Spec => []RendersOnce
<1>1. TypeOK /\ RunInv => RendersOnce
  <2> SUFFICES ASSUME TypeOK, RunInv, NEW n \in Nodes
               PROVE  LET executions == renderQueue[n]
                                          + Cardinality({w \in Workers : Renders(w, n)})
                                          + IF DaemonSends(n) THEN 1 ELSE 0
                      IN  executions > 0 => executions = 1 /\ status[n] = "dispatched"
    BY DEF RendersOnce
  <2> DEFINE W == {w \in Workers : Renders(w, n)}
  <2>1. renderQueue[n] \in {0, 1}
    BY DEF TypeOK, RunInv, LockHeld
  <2>2. CASE \E w \in Workers : Renders(w, n)
    <3>1. PICK w \in Workers : Renders(w, n)
      BY <2>2
    <3>2. W = {w}
      BY <3>1 DEF RunInv, LockHeld
    <3>3. Cardinality(W) = 1
      BY <3>2, FS_Singleton
    <3>4. renderQueue[n] = 0 /\ ~DaemonSends(n) /\ status[n] = "dispatched"
      BY <2>1, <3>1 DEF RunInv, LockHeld, Executing
    <3> QED
      BY <3>3, <3>4
  <2>3. CASE ~\E w \in Workers : Renders(w, n)
    <3>1. Cardinality(W) = 0
      BY <2>3, FS_EmptySet
    <3>2. ~(renderQueue[n] = 1 /\ DaemonSends(n))
      BY DEF RunInv, LockHeld
    <3>3. renderQueue[n] = 1 \/ DaemonSends(n) => status[n] = "dispatched"
      BY DEF RunInv, LockHeld, Executing
    <3> QED
      BY <2>1, <3>1, <3>2, <3>3
  <2> QED
    BY <2>2, <2>3
<1> QED
  BY <1>1, RunIsSound, PTL

\* What succeeded is never rendered again.
THEOREM NothingIsUndone == ASSUME OrderlyRun PROVE Spec => SucceededIsKept
<1>1. TypeOK /\ RunInv /\ [Next]_vars
        => [\A n \in Nodes : status[n] = "succeeded" => status'[n] = "succeeded"]_vars
  BY StatusMoves DEF StatusMove, ReadyNodes, FailedStatus
<1> QED
  BY <1>1, RunIsSound, PTL DEF Spec, SucceededIsKept

\* The composite task is sent at most once.
THEOREM OneHandOff == ASSUME OrderlyRun PROVE Spec => []HandedOffOnce
<1>1. TypeOK /\ RunInv => HandedOffOnce
  BY DEF RunInv, PhaseIsSound, HandedOffOnce
<1> QED
  BY <1>1, RunIsSound, PTL

\* An asset is written only by the worker that renders its node.
LEMMA MadeMoves ==
  ASSUME TypeOK, [Next]_vars
  PROVE  UNCHANGED made \/ \E w \in Workers, n \in Nodes : Renders(w, n)
<1>1. CASE DaemonStep
  BY <1>1 DEF DaemonStep, TickReadNode, Reserve, Pause, TickBegin, TickRecover,
     TickResume, TickPark, HandOff, Block, PlanDispatch, MarkDispatched, SendRender,
     SendRenderFails, RevertDispatch, SendComposite, SendCompositeFails
<1>2. ASSUME NEW w \in Workers, WorkerStep(w)
      PROVE  UNCHANGED made \/ \E m \in Nodes : Renders(w, m)
  BY <1>2 DEF WorkerStep, TakeRender, LoadNode, Submit, RecordCost, RenderSucceeds,
     RenderFails, RecordBilledFailure, BilledRenderFails, ArchiveFails, LandFailed, Renders,
     TypeOK
<1>3. CASE CompositorStep \/ Fault
  BY <1>3 DEF CompositorStep, TakeComposite, SetFinalUrl, SetComplete, CompositeFails,
     Fault, DaemonAbort, CompositorCrash, WorkerCrash, Redeliver
<1>4. ASSUME NEW r \in Retriers, RetrierStep(r) PROVE UNCHANGED made
  BY <1>4 DEF RetrierStep, RetryStart, RetryDecide, RetryCollect, ResetNode
<1>5. ASSUME NEW e \in Editors, EditorStep(e) PROVE UNCHANGED made
  BY <1>5 DEF EditorStep, EditStart, EditCheck, EditCommit
<1>6. ASSUME NEW v \in Viewers, ViewerStep(v) PROVE UNCHANGED made
  BY <1>6 DEF ViewerStep, ViewPhase, ViewFinalUrl
<1>7. CASE UNCHANGED vars
  BY <1>7 DEF vars
<1> QED
  BY <1>1, <1>2, <1>3, <1>4, <1>5, <1>6, <1>7 DEF Next

\* The spec is edited only while some node has not been rendered.
LEMMA SpecMoves ==
  ASSUME TypeOK, RunInv, [Next]_vars
  PROVE  UNCHANGED spec \/ \E n \in Nodes : status[n] \in FailedStatus \cup {"pending"}
<1>1. CASE DaemonStep
  BY <1>1 DEF DaemonStep, TickReadNode, Reserve, Pause, TickBegin, TickRecover,
     TickResume, TickPark, HandOff, Block, PlanDispatch, MarkDispatched, SendRender,
     SendRenderFails, RevertDispatch, SendComposite, SendCompositeFails
<1>2. ASSUME NEW w \in Workers, WorkerStep(w) PROVE UNCHANGED spec
  BY <1>2 DEF WorkerStep, TakeRender, LoadNode, Submit, RecordCost, RenderSucceeds,
     RenderFails, RecordBilledFailure, BilledRenderFails, ArchiveFails, LandFailed
<1>3. CASE CompositorStep \/ Fault
  BY <1>3 DEF CompositorStep, TakeComposite, SetFinalUrl, SetComplete, CompositeFails,
     Fault, DaemonAbort, CompositorCrash, WorkerCrash, Redeliver
<1>4. ASSUME NEW r \in Retriers, RetrierStep(r) PROVE UNCHANGED spec
  BY <1>4 DEF RetrierStep, RetryStart, RetryDecide, RetryCollect, ResetNode
<1>5. ASSUME NEW e \in Editors, EditorStep(e)
      PROVE  UNCHANGED spec \/ \E n \in Nodes : status[n] \in FailedStatus \cup {"pending"}
  BY <1>5 DEF EditorStep, EditStart, EditCheck, EditCommit, RunInv, EditsUnrendered, TypeOK
<1>6. ASSUME NEW v \in Viewers, ViewerStep(v) PROVE UNCHANGED spec
  BY <1>6 DEF ViewerStep, ViewPhase, ViewFinalUrl
<1>7. CASE UNCHANGED vars
  BY <1>7 DEF vars
<1> QED
  BY <1>1, <1>2, <1>3, <1>4, <1>5, <1>6, <1>7 DEF Next

\* From the hand-over on nothing the compositor reads changes.
THEOREM HandedOffStays == ASSUME OrderlyRun PROVE Spec => HandedOffIsFrozen
<1>1. TypeOK /\ RunInv /\ [Next]_vars
        => [(phase \in {"compositing", "complete"}) =>
              status' = status /\ spec' = spec /\ made' = made]_vars
  <2> SUFFICES ASSUME TypeOK, RunInv, [Next]_vars, phase \in {"compositing", "complete"}
               PROVE  status' = status /\ spec' = spec /\ made' = made
    OBVIOUS
  <2>1. \A n \in Nodes : status[n] = "succeeded"
    BY DEF RunInv, PhaseIsSound, AllSucceeded
  <2>2. \A n \in Nodes : status'[n] = status[n]
    BY <2>1, StatusMoves DEF StatusMove, ReadyNodes, FailedStatus
  <2>3. status' = status
    BY <2>2, TypeStep DEF TypeOK, Statuses
  <2>4. spec' = spec
    BY <2>1, SpecMoves DEF FailedStatus
  <2>5. made' = made
    BY <2>1, MadeMoves DEF RunInv, LockHeld, Executing
  <2> QED
    BY <2>3, <2>4, <2>5
<1> QED
  BY <1>1, RunIsSound, PTL DEF Spec, HandedOffIsFrozen

-----------------------------------------------------------------------------
(* The run implements its lifecycle. *)

\* A step that moves the status of one node moves it as the lifecycle does.
LEMMA StatusStepMaps ==
  ASSUME TypeOK, RunInv, [Next]_vars, UNCHANGED phase, NEW n \in Nodes,
         status'[n] # status[n],
         \A m \in Nodes : m # n => status'[m] = status[m]
  PROVE  Lifecycle!Next
<1>1. status' = [status EXCEPT ![n] = status'[n]]
  BY TypeStep DEF TypeOK, Statuses
<1>2. StatusMove(n)
  BY StatusMoves
<1>3. CASE MarkDispatched /\ n \in ReadyNodes(status) /\ status'[n] = "dispatched"
  <2>1. phase = "executing"
    BY <1>3 DEF MarkDispatched, RunInv, PhaseIsSound
  <2>2. Lifecycle!Dispatch(n)
    BY <1>1, <1>3, <2>1 DEF Lifecycle!Dispatch, Lifecycle!SetStatus, Lifecycle!DepsSucceeded,
       Lifecycle!Deps, ReadyNodes, DepsSucceeded, Deps
  <2> QED
    BY <2>2 DEF Lifecycle!Next
<1>4. CASE status[n] = "dispatched" /\ status'[n] = "pending"
  <2>1. Lifecycle!TakeBack(n)
    BY <1>1, <1>4 DEF Lifecycle!TakeBack, Lifecycle!SetStatus
  <2> QED
    BY <2>1 DEF Lifecycle!Next
<1>5. CASE status[n] = "dispatched" /\ status'[n] \in {"succeeded"} \cup FailedStatus
  <2>1. Lifecycle!Land(n)
    BY <1>1, <1>5 DEF Lifecycle!Land, Lifecycle!SetStatus, Lifecycle!FailedStatus, FailedStatus
  <2> QED
    BY <2>1 DEF Lifecycle!Next
<1>6. CASE /\ status[n] \in FailedStatus /\ status'[n] = "pending"
           /\ \E r \in Retriers : ResetNode(r, n)
  <2>1. phase # "none"
    BY <1>6 DEF ResetNode, RunInv, RetriesFailed
  <2>2. ~AllSucceeded(status)
    BY <1>6 DEF AllSucceeded, FailedStatus
  <2>3. phase \in {"executing", "blocked", "paused"}
    BY <2>1, <2>2 DEF RunInv, PhaseIsSound, TypeOK, Phase
  <2>4. Lifecycle!Retry(n)
    BY <1>1, <1>6, <2>3 DEF Lifecycle!Retry, Lifecycle!SetStatus, Lifecycle!FailedStatus,
       FailedStatus
  <2> QED
    BY <2>4 DEF Lifecycle!Next
<1> QED
  BY <1>2, <1>3, <1>4, <1>5, <1>6 DEF StatusMove

\* A step writes the status of one node at most, and then leaves the phase alone.
LEMMA StatusChangesOnce ==
  ASSUME TypeOK, [Next]_vars
  PROVE  \/ UNCHANGED status
         \/ /\ UNCHANGED phase
            /\ \E n \in Nodes : \A m \in Nodes : m # n => status'[m] = status[m]
<1> DEFINE Goal == \/ UNCHANGED status
                   \/ /\ UNCHANGED phase
                      /\ \E n \in Nodes : \A m \in Nodes : m # n => status'[m] = status[m]
<1>1. CASE DaemonStep
  <2>1. CASE MarkDispatched \/ RevertDispatch
    BY <2>1 DEF MarkDispatched, RevertDispatch, TypeOK, Statuses
  <2> QED
    BY <1>1, <2>1 DEF DaemonStep, TickReadNode, Reserve, Pause, TickBegin, TickRecover,
       TickResume, TickPark, HandOff, Block, PlanDispatch, SendRender, SendRenderFails,
       SendComposite, SendCompositeFails
<1>2. ASSUME NEW w \in Workers, WorkerStep(w) PROVE Goal
  <2>1. CASE RenderSucceeds(w)
    BY <2>1 DEF RenderSucceeds, TypeOK, Statuses
  <2>2. ASSUME NEW s \in FailedStatus, LandFailed(w, s), worker[w].pc # "idle" PROVE Goal
    BY <2>2 DEF LandFailed, TypeOK, Statuses
  <2>3. CASE RenderFails(w) \/ ArchiveFails(w) \/ BilledRenderFails(w)
    BY <2>2, <2>3 DEF RenderFails, ArchiveFails, BilledRenderFails, FailedStatus
  <2> QED
    BY <1>2, <2>1, <2>3 DEF WorkerStep, TakeRender, LoadNode, Submit, RecordCost,
       RecordBilledFailure
<1>3. CASE CompositorStep \/ Fault
  BY <1>3 DEF CompositorStep, TakeComposite, SetFinalUrl, SetComplete, CompositeFails,
     Fault, DaemonAbort, CompositorCrash, WorkerCrash, Redeliver
<1>4. ASSUME NEW r \in Retriers, RetrierStep(r) PROVE Goal
  BY <1>4 DEF RetrierStep, RetryStart, RetryDecide, RetryCollect, ResetNode, TypeOK, Statuses
<1>5. ASSUME NEW e \in Editors, EditorStep(e) PROVE UNCHANGED status
  BY <1>5 DEF EditorStep, EditStart, EditCheck, EditCommit
<1>6. ASSUME NEW v \in Viewers, ViewerStep(v) PROVE UNCHANGED status
  BY <1>6 DEF ViewerStep, ViewPhase, ViewFinalUrl
<1>7. CASE UNCHANGED vars
  BY <1>7 DEF vars
<1> QED
  BY <1>1, <1>2, <1>3, <1>4, <1>5, <1>6, <1>7 DEF Next

\* A step that moves the phase moves it as the lifecycle does: what the snapshot showed
\* is still true when the phase is written.
LEMMA PhaseStepMaps ==
  ASSUME TypeOK, RunInv, [Next]_vars, UNCHANGED status, phase' # phase
  PROVE  Lifecycle!Next
<1> USE DEF Lifecycle!SetPhase
<1>1. ReadyNodes(daemon.seen) \subseteq ReadyNodes(status)
  BY DEF ReadyNodes, RunInv, SeenIsSound, DepsSucceeded, Deps
<1>2. ReadyNodes(status) = Lifecycle!ReadyNodes(status)
  BY DEF ReadyNodes, DepsSucceeded, Deps, Lifecycle!ReadyNodes, Lifecycle!DepsSucceeded,
     Lifecycle!Deps
<1>3. AllSucceeded(status) <=> Lifecycle!AllSucceeded(status)
  BY DEF AllSucceeded, Lifecycle!AllSucceeded
<1>4. CASE TickBegin
  BY <1>4 DEF TickBegin, Lifecycle!Begin, Lifecycle!Next
<1>5. CASE TickRecover
  <2>1. Lifecycle!Resume
    BY <1>1, <1>2, <1>5 DEF TickRecover, Lifecycle!Resume
  <2> QED
    BY <2>1 DEF Lifecycle!Next
<1>6. CASE HandOff
  <2>1. AllSucceeded(status)
    BY <1>6 DEF HandOff, AllSucceeded, RunInv, SeenIsSound
  <2>2. Lifecycle!HandOff
    BY <1>3, <1>6, <2>1 DEF HandOff, Lifecycle!HandOff, RunInv, PhaseIsSound
  <2> QED
    BY <2>2 DEF Lifecycle!Next
<1>7. CASE Block
  <2>1. PICK n \in Nodes : daemon.seen[n] # "succeeded"
    BY <1>7 DEF Block, IsBlocked, AllSucceeded
  <2>2. daemon.seen[n] \in FailedStatus \cup {"pending"}
    BY <1>7, <2>1 DEF Block, IsBlocked, RunInv, TickIsSound, TypeOK, DaemonType, Status,
       FailedStatus
  <2>3. ~AllSucceeded(status)
    BY <2>2 DEF RunInv, SeenIsSound, AllSucceeded, FailedStatus
  <2>4. Lifecycle!Block
    BY <1>3, <1>7, <2>3 DEF Block, Lifecycle!Block, RunInv, PhaseIsSound
  <2> QED
    BY <2>4 DEF Lifecycle!Next
<1>8. ASSUME NEW n \in Nodes, Pause(n) PROVE Lifecycle!Next
  <2>1. n \in ReadyNodes(status)
    BY <1>8 DEF Pause, RunInv, TickIsSound, DaemonSends
  <2>2. Lifecycle!Pause
    BY <1>2, <1>8, <2>1 DEF Pause, Lifecycle!Pause, RunInv, PhaseIsSound
  <2> QED
    BY <2>2 DEF Lifecycle!Next
<1>9. CASE SetComplete
  <2>1. Lifecycle!Complete
    BY <1>9 DEF SetComplete, Lifecycle!Complete, RunInv, PhaseIsSound
  <2> QED
    BY <2>1 DEF Lifecycle!Next
<1>10. DaemonStep \/ SetComplete
  BY PhaseMoves DEF PhaseMove
<1> QED
  BY <1>4, <1>5, <1>6, <1>7, <1>8, <1>9, <1>10 DEF DaemonStep, TickReadNode, Reserve,
     TickResume, TickPark, PlanDispatch, MarkDispatched, SendRender, SendRenderFails,
     RevertDispatch, SendComposite, SendCompositeFails

\* Every run is one of RunLifecycle, whatever is stale, queued or under way.
THEOREM RunImplementsLifecycle == ASSUME OrderlyRun PROVE Spec => ImplementsLifecycle
<1>1. Init => Lifecycle!Init
  BY DEF Init, Lifecycle!Init
<1>2. TypeOK /\ RunInv /\ [Next]_vars => [Lifecycle!Next]_(Lifecycle!vars)
  <2> SUFFICES ASSUME TypeOK, RunInv, [Next]_vars,
                      ~(UNCHANGED phase /\ UNCHANGED status)
               PROVE  Lifecycle!Next
    BY DEF Lifecycle!vars
  <2>1. CASE UNCHANGED status
    BY <2>1, PhaseStepMaps
  <2>2. CASE ~UNCHANGED status
    <3>1. PICK n \in Nodes : \A m \in Nodes : m # n => status'[m] = status[m]
      BY <2>2, StatusChangesOnce
    <3>2. UNCHANGED phase
      BY <2>2, StatusChangesOnce
    <3>3. status'[n] # status[n]
      BY <2>2, <3>1, TypeStep DEF TypeOK, Statuses
    <3> QED
      BY <3>1, <3>2, <3>3, StatusStepMaps
  <2> QED
    BY <2>1, <2>2
<1> QED
  BY <1>1, <1>2, RunIsSound, PTL DEF Spec, ImplementsLifecycle, Lifecycle!Spec
=============================================================================
