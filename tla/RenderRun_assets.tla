-------------------------- MODULE RenderRun_assets --------------------------
(***************************************************************************)
(* What ends up in the assets of a run and in its film, and what it costs: *)
(* a render has all its reference images, a succeeded node shows its       *)
(* current prompt and references, the film shows every clip, the last      *)
(* frame of a stream carries it, and a run overspends by less than one     *)
(* render of each node.                                                    *)
(***************************************************************************)
EXTENDS RenderRun_safety, WellFoundedInduction

USE DEF redis, broker, clients

\* A node is dispatched after its reference images: assembly.py:162 puts every reference
\* of a clip among its dependencies.
ReferencesAreDependencies == \A n \in Nodes : References[n] \subseteq DependsOn[n]

-----------------------------------------------------------------------------
(* Reference images are there when they are read. *)

ReferencesHaveAssets(n) == \A m \in References[n] : HasAsset(m)

Loaded(w) == worker[w].pc \in {"submit", "poll", "billed", "archive"}

\* What has succeeded has an asset, also what a snapshot saw succeed before a retry; so
\* whatever is on its way to a worker, by whichever of several deliveries, can be rendered.
InputsInv ==
  /\ \A n \in Nodes : "succeeded" \in {status[n], daemon.seen[n]} => HasAsset(n)
  /\ \A n \in daemon.todo : ReferencesHaveAssets(n)
  /\ daemon.pc \in {"mark", "send", "revert"} => daemon.node \in daemon.todo
  /\ \A n \in Nodes : renderQueue[n] > 0 => ReferencesHaveAssets(n)
  /\ \A w \in Workers : worker[w].pc # "idle" => ReferencesHaveAssets(worker[w].node)
  /\ \A w \in Workers : Loaded(w) =>
       \A m \in References[worker[w].node] \cup {worker[w].node} : worker[w].inputs[m] # NoAsset

\* Assets are written by a render that succeeds and by nothing else, and so is the status
\* that says so.
LEMMA AssetMoves ==
  ASSUME TypeOK, [Next]_vars
  PROVE  \/ \E w \in Workers : RenderSucceeds(w)
         \/ /\ UNCHANGED made
            /\ \A n \in Nodes : status'[n] = "succeeded" => status[n] = "succeeded"
<1> DEFINE Kept == /\ UNCHANGED made
                   /\ \A n \in Nodes : status'[n] = "succeeded" => status[n] = "succeeded"
<1>1. CASE UNCHANGED <<made, status>>
  BY <1>1
<1>2. CASE DaemonStep
  <2>1. CASE MarkDispatched \/ RevertDispatch
    BY <2>1 DEF MarkDispatched, RevertDispatch, TypeOK, Statuses
  <2> QED
    BY <1>1, <1>2, <2>1 DEF DaemonStep, TickReadNode, Reserve, Pause, TickBegin, TickRecover,
       TickResume, TickPark, HandOff, Block, PlanDispatch, SendRender, SendRenderFails,
       SendComposite, SendCompositeFails
<1>3. ASSUME NEW w \in Workers, WorkerStep(w), ~RenderSucceeds(w) PROVE Kept
  <2>1. ASSUME NEW s \in FailedStatus, LandFailed(w, s) PROVE Kept
    BY <2>1 DEF LandFailed, FailedStatus, TypeOK, Statuses
  <2>2. CASE RenderFails(w) \/ ArchiveFails(w) \/ BilledRenderFails(w)
    BY <2>1, <2>2 DEF RenderFails, ArchiveFails, BilledRenderFails, FailedStatus
  <2> QED
    BY <1>1, <1>3, <2>2 DEF WorkerStep, TakeRender, LoadNode, Submit, RecordCost,
       RecordBilledFailure
<1>4. ASSUME NEW r \in Retriers, RetrierStep(r) PROVE Kept
  BY <1>4 DEF RetrierStep, RetryStart, RetryDecide, RetryCollect, ResetNode, TypeOK, Statuses
<1>5. CASE CompositorStep \/ Fault
  BY <1>1, <1>5 DEF CompositorStep, TakeComposite, SetFinalUrl, SetComplete, CompositeFails,
     Fault, DaemonAbort, CompositorCrash, WorkerCrash, Redeliver
<1>6. ASSUME NEW e \in Editors, EditorStep(e) PROVE Kept
  BY <1>1, <1>6 DEF EditorStep, EditStart, EditCheck, EditCommit
<1>7. ASSUME NEW v \in Viewers, ViewerStep(v) PROVE Kept
  BY <1>1, <1>7 DEF ViewerStep, ViewPhase, ViewFinalUrl
<1>8. CASE UNCHANGED vars
  BY <1>1, <1>8 DEF vars
<1> QED
  BY <1>2, <1>3, <1>4, <1>5, <1>6, <1>7, <1>8 DEF Next

\* A node that has an asset keeps having one, and one that succeeds gets one.
LEMMA AssetsStay ==
  ASSUME TypeOK, InputsInv, [Next]_vars, NEW n \in Nodes
  PROVE  HasAsset(n) \/ (status[n] # "succeeded" /\ status'[n] = "succeeded") => HasAsset(n)'
<1>1. ASSUME NEW w \in Workers, RenderSucceeds(w) PROVE HasAsset(n)' \/ (status'[n] = status[n] /\ ~HasAsset(n))
  <2>1. worker[w].node \in Nodes /\ Loaded(w)
    BY <1>1 DEF TypeOK, RenderSucceeds, Loaded
  <2>2. worker[w].inputs[worker[w].node] # NoAsset
    BY <2>1 DEF InputsInv
  <2>3. CASE n = worker[w].node
    BY <1>1, <2>2, <2>3 DEF RenderSucceeds, HasAsset, TypeOK
  <2>4. CASE n # worker[w].node
    BY <1>1, <2>4 DEF RenderSucceeds, HasAsset, TypeOK, Statuses
  <2> QED
    BY <2>3, <2>4
<1> QED
  BY <1>1, AssetMoves DEF HasAsset

\* The daemon's work list grows by what its snapshot shows as ready, and it works on a node
\* of that list.
LEMMA WorkListMoves ==
  ASSUME TypeOK, [Next]_vars
  PROVE  /\ \A n \in daemon'.todo : n \in daemon.todo \/ n \in ReadyNodes(daemon.seen)
         /\ (daemon.pc \in {"mark", "send", "revert"} => daemon.node \in daemon.todo) =>
              (daemon'.pc \in {"mark", "send", "revert"} => daemon'.node \in daemon'.todo)
<1> DEFINE Goal ==
      /\ \A n \in daemon'.todo : n \in daemon.todo \/ n \in ReadyNodes(daemon.seen)
      /\ (daemon.pc \in {"mark", "send", "revert"} => daemon.node \in daemon.todo) =>
           (daemon'.pc \in {"mark", "send", "revert"} => daemon'.node \in daemon'.todo)
<1>1. daemon \in DaemonType /\ DaemonIdle.pc = "scan" /\ DaemonIdle.todo = {}
  BY DEF TypeOK, DaemonIdle
<1>2. CASE UNCHANGED daemon
  BY <1>2
<1>3. CASE daemon' = DaemonIdle
  BY <1>1, <1>3
<1>4. ASSUME NEW n \in Nodes, TickReadNode(n) \/ Reserve(n) \/ Pause(n) PROVE Goal
  BY <1>1, <1>3, <1>4 DEF TickReadNode, Reserve, Pause, DaemonType
<1>5. CASE TickBegin \/ TickRecover \/ TickResume \/ TickPark \/ HandOff \/ Block \/ PlanDispatch
  BY <1>1, <1>3, <1>5 DEF TickBegin, TickRecover, TickResume, TickPark, SnapshotTaken, HandOff,
     Block, PlanDispatch, DaemonType
<1>6. CASE MarkDispatched \/ SendRenderFails
  BY <1>1, <1>6 DEF MarkDispatched, SendRenderFails, DaemonType
<1>7. CASE SendRender
  BY <1>1, <1>3, <1>7 DEF SendRender, AfterDispatch, DaemonType
<1>8. CASE RevertDispatch \/ SendComposite \/ SendCompositeFails \/ DaemonAbort
  BY <1>3, <1>8 DEF RevertDispatch, SendComposite, SendCompositeFails, DaemonAbort
<1>9. DaemonStep \/ DaemonAbort => Goal
  BY <1>4, <1>5, <1>6, <1>7, <1>8 DEF DaemonStep
<1> QED
  BY <1>2, <1>9, OtherStepsKeepDaemon

\* A message in the queue is of the node the daemon sends, or was returned by its worker.
LEMMA QueueMoves ==
  ASSUME TypeOK, [Next]_vars, NEW n \in Nodes, renderQueue'[n] > 0
  PROVE  \/ renderQueue[n] > 0
         \/ daemon.pc = "send" /\ daemon.node = n
         \/ \E w \in Workers : Renders(w, n)
<1> DEFINE Goal == \/ renderQueue[n] > 0
                   \/ daemon.pc = "send" /\ daemon.node = n
                   \/ \E w \in Workers : Renders(w, n)
<1>1. CASE UNCHANGED renderQueue
  BY <1>1
<1>2. CASE DaemonStep
  <2>1. CASE SendRender \/ SendRenderFails
    BY <2>1 DEF SendRender, SendRenderFails, TypeOK
  <2> QED
    BY <1>1, <1>2, <2>1 DEF DaemonStep, TickReadNode, Reserve, Pause, TickBegin, TickRecover,
       TickResume, TickPark, HandOff, Block, PlanDispatch, MarkDispatched, RevertDispatch,
       SendComposite, SendCompositeFails
<1>3. ASSUME NEW w \in Workers, WorkerStep(w) PROVE Goal
  <2>1. ASSUME NEW m \in Nodes, TakeRender(w, m) PROVE Goal
    BY <2>1 DEF TakeRender, TypeOK
  <2> QED
    BY <1>1, <1>3, <2>1 DEF WorkerStep, LoadNode, Submit, RecordCost, RecordBilledFailure,
       RenderSucceeds, RenderFails, ArchiveFails, BilledRenderFails, LandFailed
<1>4. CASE Fault
  <2>1. ASSUME NEW w \in Workers, WorkerCrash(w) \/ Redeliver(w) PROVE Goal
    BY <2>1 DEF WorkerCrash, Redeliver, Renders, TypeOK
  <2> QED
    BY <1>1, <1>4, <2>1 DEF Fault, DaemonAbort, CompositorCrash
<1>5. ASSUME NEW r \in Retriers, RetrierStep(r) PROVE Goal
  BY <1>1, <1>5 DEF RetrierStep, RetryStart, RetryDecide, RetryCollect, ResetNode
<1>6. CASE CompositorStep
  BY <1>1, <1>6 DEF CompositorStep, TakeComposite, SetFinalUrl, SetComplete, CompositeFails
<1>7. ASSUME NEW e \in Editors, EditorStep(e) PROVE Goal
  BY <1>1, <1>7 DEF EditorStep, EditStart, EditCheck, EditCommit
<1>8. ASSUME NEW v \in Viewers, ViewerStep(v) PROVE Goal
  BY <1>1, <1>8 DEF ViewerStep, ViewPhase, ViewFinalUrl
<1>9. CASE UNCHANGED vars
  BY <1>1, <1>9 DEF vars
<1> QED
  BY <1>2, <1>3, <1>4, <1>5, <1>6, <1>7, <1>8, <1>9 DEF Next

\* A worker keeps its node and, once loaded, its inputs, until it is done; it takes a node
\* from the queue and reads its inputs when it loads them.
LEMMA WorkerMoves ==
  ASSUME TypeOK, [Next]_vars, NEW w \in Workers
  PROVE  \/ worker'[w].pc = "idle"
         \/ /\ worker'[w].node = worker[w].node /\ worker[w].pc # "idle"
            /\ \/ Loaded(w)' => Loaded(w) /\ worker'[w].inputs = worker[w].inputs
               \/ LoadNode(w) /\ worker'[w].inputs = InputsOf(worker[w].node)
         \/ \E n \in Nodes : TakeRender(w, n) /\ worker'[w].node = n /\ ~Loaded(w)'
<1> DEFINE Goal ==
         \/ worker'[w].pc = "idle"
         \/ /\ worker'[w].node = worker[w].node /\ worker[w].pc # "idle"
            /\ \/ Loaded(w)' => Loaded(w) /\ worker'[w].inputs = worker[w].inputs
               \/ LoadNode(w) /\ worker'[w].inputs = InputsOf(worker[w].node)
         \/ \E n \in Nodes : TakeRender(w, n) /\ worker'[w].node = n /\ ~Loaded(w)'
<1>1. worker \in [Workers -> WorkerType] /\ worker[w] \in WorkerType /\ WorkerIdle.pc = "idle"
  BY DEF TypeOK, WorkerIdle
<1>2. CASE worker'[w] = worker[w]
  BY <1>1, <1>2 DEF Loaded
<1>3. ASSUME NEW v \in Workers, WorkerStep(v), v # w PROVE worker'[w] = worker[w]
  BY <1>1, <1>3 DEF WorkerStep, TakeRender, LoadNode, Submit, RecordCost, RenderSucceeds,
     RenderFails, RecordBilledFailure, BilledRenderFails, ArchiveFails, LandFailed
<1>4. CASE WorkerStep(w)
  <2>1. ASSUME NEW n \in Nodes, TakeRender(w, n) PROVE Goal
    BY <1>1, <2>1 DEF TakeRender, WorkerIdle, Loaded
  <2>2. CASE LoadNode(w)
    BY <1>1, <2>2 DEF LoadNode, WorkerType
  <2>3. CASE Submit(w) \/ RecordCost(w) \/ RecordBilledFailure(w)
    BY <1>1, <2>3 DEF Submit, RecordCost, RecordBilledFailure, WorkerType, Loaded
  <2>4. CASE RenderSucceeds(w) \/ RenderFails(w) \/ ArchiveFails(w) \/ BilledRenderFails(w)
    BY <1>1, <2>4 DEF RenderSucceeds, RenderFails, ArchiveFails, BilledRenderFails, LandFailed
  <2> QED
    BY <1>4, <2>1, <2>2, <2>3, <2>4 DEF WorkerStep
<1>5. CASE Fault
  <2>1. ASSUME NEW v \in Workers, WorkerCrash(v) PROVE Goal
    BY <1>1, <1>2, <2>1 DEF WorkerCrash
  <2> QED
    BY <1>2, <1>5, <2>1 DEF Fault, DaemonAbort, CompositorCrash, Redeliver
<1>6. CASE DaemonStep
  BY <1>2, <1>6 DEF DaemonStep, TickReadNode, Reserve, Pause, TickBegin, TickRecover,
     TickResume, TickPark, HandOff, Block, PlanDispatch, MarkDispatched, SendRender,
     SendRenderFails, RevertDispatch, SendComposite, SendCompositeFails
<1>7. CASE CompositorStep
  BY <1>2, <1>7 DEF CompositorStep, TakeComposite, SetFinalUrl, SetComplete, CompositeFails
<1>8. ASSUME NEW r \in Retriers, RetrierStep(r) PROVE UNCHANGED worker
  BY <1>8 DEF RetrierStep, RetryStart, RetryDecide, RetryCollect, ResetNode
<1>9. ASSUME NEW e \in Editors, EditorStep(e) PROVE UNCHANGED worker
  BY <1>9 DEF EditorStep, EditStart, EditCheck, EditCommit
<1>10. ASSUME NEW v \in Viewers, ViewerStep(v) PROVE UNCHANGED worker
  BY <1>10 DEF ViewerStep, ViewPhase, ViewFinalUrl
<1>11. CASE UNCHANGED vars
  BY <1>2, <1>11 DEF vars
<1> QED
  BY <1>2, <1>3, <1>4, <1>5, <1>6, <1>7, <1>8, <1>9, <1>10, <1>11 DEF Next

\* Whose references have assets keeps them.
LEMMA ReferencesStay ==
  ASSUME TypeOK, InputsInv, [Next]_vars, NEW n \in Nodes, ReferencesHaveAssets(n)
  PROVE  ReferencesHaveAssets(n)'
<1>1. References[n] \subseteq Nodes
  BY RunAssumption
<1> QED
  BY <1>1, AssetsStay DEF ReferencesHaveAssets

\* A worker that loads its node finds the assets of its references.
LEMMA LoadedInputs ==
  ASSUME TypeOK, InputsInv, NEW w \in Workers, LoadNode(w),
         NEW m \in References[worker[w].node] \cup {worker[w].node}
  PROVE  InputsOf(worker[w].node)[m] # NoAsset
<1>1. worker[w].node \in Nodes /\ worker[w].pc # "idle"
  BY DEF LoadNode, TypeOK
<1>2. m \in Nodes
  BY <1>1, RunAssumption
<1>3. spec[worker[w].node] # NoAsset
  BY <1>1 DEF TypeOK, NoAsset
<1>4. m \in References[worker[w].node] => made[m][m] # NoAsset
  BY <1>1 DEF InputsInv, ReferencesHaveAssets, HasAsset
<1> QED
  BY <1>2, <1>3, <1>4 DEF InputsOf

\* Every step keeps the references of whatever is under way in place.
LEMMA InputsStep ==
  ASSUME ReferencesAreDependencies, TypeOK, InputsInv, [Next]_vars
  PROVE  InputsInv'
<1>1. ASSUME NEW n \in Nodes, "succeeded" \in {status'[n], daemon'.seen[n]}
      PROVE  HasAsset(n)'
  <2>1. status[n] = "succeeded" \/ daemon.seen[n] = "succeeded" => HasAsset(n)
    BY DEF InputsInv
  <2>2. daemon'.seen[n] = "succeeded" => daemon.seen[n] = "succeeded" \/ status[n] = "succeeded"
    BY SeenMoves
  <2> QED
    BY <1>1, <2>1, <2>2, AssetsStay
<1>2. ASSUME NEW n \in daemon'.todo PROVE ReferencesHaveAssets(n)'
  <2>1. n \in Nodes
    BY TypeStep DEF TypeOK, DaemonType
  <2>2. CASE n \in daemon.todo
    BY <2>1, <2>2, ReferencesStay DEF InputsInv
  <2>3. CASE n \in ReadyNodes(daemon.seen)
    <3>1. \A m \in References[n] : m \in Deps(n) /\ m \in Nodes
      BY <2>1, RunAssumption DEF ReferencesAreDependencies, Deps
    <3>2. ReferencesHaveAssets(n)
      BY <2>3, <3>1 DEF ReadyNodes, DepsSucceeded, InputsInv, ReferencesHaveAssets
    <3> QED
      BY <2>1, <3>2, ReferencesStay
  <2> QED
    BY <2>2, <2>3, WorkListMoves
<1>3. daemon'.pc \in {"mark", "send", "revert"} => daemon'.node \in daemon'.todo
  BY WorkListMoves DEF InputsInv
<1>4. ASSUME NEW n \in Nodes, renderQueue'[n] > 0 PROVE ReferencesHaveAssets(n)'
  <2>1. ReferencesHaveAssets(n)
    BY <1>4, QueueMoves DEF InputsInv, Renders
  <2> QED
    BY <2>1, ReferencesStay
<1>5. ASSUME NEW w \in Workers, worker'[w].pc # "idle"
      PROVE  ReferencesHaveAssets(worker[w].node)'
  <2>1. PICK n \in Nodes : n = worker'[w].node
    BY <1>5, TypeStep DEF TypeOK
  <2>2. ReferencesHaveAssets(n)
    BY <1>5, <2>1, WorkerMoves DEF InputsInv, TakeRender
  <2> QED
    BY <2>1, <2>2, ReferencesStay
<1>6. ASSUME NEW w \in Workers, Loaded(w)',
             NEW m \in References[worker'[w].node] \cup {worker'[w].node}
      PROVE  worker'[w].inputs[m] # NoAsset
  <2>1. worker'[w].pc # "idle"
    BY <1>6 DEF Loaded
  <2> QED
    BY <1>6, <2>1, WorkerMoves, LoadedInputs DEF InputsInv
<1> QED
  BY <1>1, <1>2, <1>3, <1>4, <1>5, <1>6 DEF InputsInv

\* InputsInv holds in every instance whose references are among its dependencies, whatever
\* is retried, redelivered, refused or cut off.
THEOREM InputsAreSound == ASSUME ReferencesAreDependencies PROVE Spec => []InputsInv
<1>1. Init => InputsInv
  BY RunAssumption DEF Init, InputsInv, HasAsset, Nothing, NoAsset, DaemonIdle, NoSnapshot, WorkerIdle, Loaded
<1>2. TypeOK /\ InputsInv /\ [Next]_vars => InputsInv'
  BY InputsStep
<1> QED
  BY <1>1, <1>2, TypeCorrect, PTL DEF Spec

\* InputsReady: no render is submitted without one of its reference images, although the
\* daemon decides from a snapshot, and a message may wait, be returned or be delivered twice
\* while retries reset the nodes it needs.
THEOREM RendersHaveInputs == ASSUME ReferencesAreDependencies PROVE Spec => []InputsReady
<1>1. InputsInv => InputsReady
  BY DEF InputsInv, InputsReady, Loaded
<1> QED
  BY <1>1, InputsAreSound, PTL

-----------------------------------------------------------------------------
(* The last frame of a stream. *)

\* The final cut is written by SetFinalUrl alone, and the compositor gets to its last step
\* through that.
LEMMA CutMoves ==
  ASSUME [Next]_vars
  PROVE  \/ SetFinalUrl
         \/ /\ UNCHANGED finalCut
            /\ UNCHANGED compositor \/ TakeComposite \/ compositor' = CompositorIdle
<1> DEFINE Kept == UNCHANGED <<finalCut, compositor>>
<1>1. CASE DaemonStep
  BY <1>1 DEF DaemonStep, TickReadNode, Reserve, Pause, TickBegin, TickRecover,
     TickResume, TickPark, HandOff, Block, PlanDispatch, MarkDispatched, SendRender,
     SendRenderFails, RevertDispatch, SendComposite, SendCompositeFails
<1>2. ASSUME NEW w \in Workers, WorkerStep(w) PROVE Kept
  BY <1>2 DEF WorkerStep, TakeRender, LoadNode, Submit, RecordCost, RenderSucceeds, RenderFails,
     RecordBilledFailure, BilledRenderFails, ArchiveFails, LandFailed
<1>3. CASE CompositorStep \/ Fault
  BY <1>3 DEF CompositorStep, TakeComposite, SetFinalUrl, SetComplete, CompositeFails,
     Fault, DaemonAbort, CompositorCrash, WorkerCrash, Redeliver
<1>4. ASSUME NEW r \in Retriers, RetrierStep(r) PROVE Kept
  BY <1>4 DEF RetrierStep, RetryStart, RetryDecide, RetryCollect, ResetNode
<1>5. ASSUME NEW e \in Editors, EditorStep(e) PROVE Kept
  BY <1>5 DEF EditorStep, EditStart, EditCheck, EditCommit
<1>6. ASSUME NEW v \in Viewers, ViewerStep(v) PROVE Kept
  BY <1>6 DEF ViewerStep, ViewPhase, ViewFinalUrl
<1>7. CASE UNCHANGED vars
  BY <1>7 DEF vars
<1> QED
  BY <1>1, <1>2, <1>3, <1>4, <1>5, <1>6, <1>7 DEF Next

\* A stream moves by its own two steps.
LEMMA ViewerMoves ==
  ASSUME TypeOK, [Next]_vars, NEW v \in Viewers
  PROVE  \/ viewer'[v] = viewer[v]
         \/ viewer'[v] = ViewerIdle
         \/ viewer'[v] = [viewer[v] EXCEPT !.pc = "url", !.phase = phase]
         \/ /\ viewer[v].phase = "complete"
            /\ viewer'[v] = [viewer[v] EXCEPT !.pc = "closed", !.cut = finalCut]
<1> DEFINE Goal ==
         \/ viewer'[v] = viewer[v]
         \/ viewer'[v] = ViewerIdle
         \/ viewer'[v] = [viewer[v] EXCEPT !.pc = "url", !.phase = phase]
         \/ /\ viewer[v].phase = "complete"
            /\ viewer'[v] = [viewer[v] EXCEPT !.pc = "closed", !.cut = finalCut]
<1>1. CASE UNCHANGED viewer
  BY <1>1
<1>2. ASSUME NEW u \in Viewers, ViewerStep(u) PROVE Goal
  BY <1>2 DEF ViewerStep, ViewPhase, ViewFinalUrl, TypeOK
<1>3. CASE DaemonStep
  BY <1>1, <1>3 DEF DaemonStep, TickReadNode, Reserve, Pause, TickBegin, TickRecover,
     TickResume, TickPark, HandOff, Block, PlanDispatch, MarkDispatched, SendRender,
     SendRenderFails, RevertDispatch, SendComposite, SendCompositeFails
<1>4. ASSUME NEW w \in Workers, WorkerStep(w) PROVE UNCHANGED viewer
  BY <1>4 DEF WorkerStep, TakeRender, LoadNode, Submit, RecordCost, RenderSucceeds, RenderFails,
     RecordBilledFailure, BilledRenderFails, ArchiveFails, LandFailed
<1>5. CASE CompositorStep \/ Fault
  BY <1>1, <1>5 DEF CompositorStep, TakeComposite, SetFinalUrl, SetComplete, CompositeFails,
     Fault, DaemonAbort, CompositorCrash, WorkerCrash, Redeliver
<1>6. ASSUME NEW r \in Retriers, RetrierStep(r) PROVE UNCHANGED viewer
  BY <1>6 DEF RetrierStep, RetryStart, RetryDecide, RetryCollect, ResetNode
<1>7. ASSUME NEW e \in Editors, EditorStep(e) PROVE UNCHANGED viewer
  BY <1>7 DEF EditorStep, EditStart, EditCheck, EditCommit
<1>8. CASE UNCHANGED vars
  BY <1>1, <1>8 DEF vars
<1> QED
  BY <1>2, <1>3, <1>4, <1>5, <1>6, <1>7, <1>8, <1>1 DEF Next

\* Whoever has seen "complete", or is about to write it, comes after the final cut.
FrameInv ==
  /\ phase = "complete" \/ compositor.pc = "finish" => finalCut # Nothing
  /\ \A v \in Viewers :
       /\ viewer[v].phase = "complete" => finalCut # Nothing
       /\ viewer[v].pc = "closed" => viewer[v].cut # Nothing

\* Every step keeps the final cut before the word of it.
LEMMA FrameStep == ASSUME TypeOK, FrameInv, [Next]_vars PROVE FrameInv'
<1>1. Nothing' = Nothing
  BY DEF Nothing
<1>2. SetFinalUrl => finalCut' # Nothing
  <2> SUFFICES ASSUME SetFinalUrl PROVE compositor.cut # Nothing
    BY DEF SetFinalUrl
  <2>1. PICK n \in Timeline : compositor.cut[n] # NoAsset
    BY DEF SetFinalUrl, CanComposite
  <2> QED
    BY <2>1, RunAssumption DEF Nothing
<1>3. finalCut # Nothing => finalCut' # Nothing
  BY <1>2, CutMoves
<1>4. compositor'.pc = "finish" => finalCut' # Nothing
  BY <1>2, <1>3, CutMoves DEF TakeComposite, CompositorIdle, FrameInv
<1>5. phase' = "complete" => finalCut' # Nothing
  BY <1>3, PhaseMoves DEF PhaseMove, SetComplete, FrameInv
<1>6. ASSUME NEW v \in Viewers
      PROVE  /\ viewer'[v].phase = "complete" => finalCut' # Nothing
             /\ viewer'[v].pc = "closed" => viewer'[v].cut # Nothing
  <2>1. viewer[v] \in ViewerType /\ ViewerIdle.phase = "none" /\ ViewerIdle.pc = "read"
    BY DEF TypeOK, ViewerIdle
  <2> QED
    BY <1>3, <2>1, ViewerMoves DEF FrameInv, ViewerType
<1> QED
  BY <1>1, <1>4, <1>5, <1>6 DEF FrameInv

\* LastFrameHasCut: a stream that closes has shown the film, whoever retries, and however
\* often the composite is sent, fails or is taken up again by another process.
THEOREM LastFrameShowsCut == Spec => []LastFrameHasCut
<1>1. Init => FrameInv
  BY DEF Init, FrameInv, CompositorIdle, ViewerIdle
<1>2. TypeOK /\ FrameInv /\ [Next]_vars => FrameInv'
  BY FrameStep
<1>3. FrameInv => LastFrameHasCut
  BY DEF FrameInv, LastFrameHasCut
<1> QED
  BY <1>1, <1>2, <1>3, TypeCorrect, PTL DEF Spec

-----------------------------------------------------------------------------
(* What is shown is current. *)

\* A succeeded node was made from its current prompt and from the current image of each
\* reference it read, which nobody renders again; what a worker has loaded, what the
\* compositor has loaded and what it has published are what Redis says now.
CurrentInv ==
  /\ \A n \in Nodes : status[n] = "dispatched" => DepsSucceeded(status, n)
  /\ \A n \in Nodes : status[n] = "succeeded" =>
       /\ made[n][n] = spec[n]
       /\ \A m \in References[n] \ {n} : made[n][m] # NoAsset =>
            made[n][m] = made[m][m] /\ status[m] = "succeeded"
  /\ \A w \in Workers : Loaded(w) =>
       /\ worker[w].inputs[worker[w].node] = spec[worker[w].node]
       /\ \A m \in References[worker[w].node] \ {worker[w].node} :
            worker[w].inputs[m] = made[m][m]
  /\ \A n \in Timeline : compositor.pc # "idle" => compositor.cut[n] = made[n][n]
  /\ \A n \in Timeline : phase = "complete" \/ compositor.pc = "finish" =>
       finalCut[n] = made[n][n]

\* The asset of a node changes when a worker lands the node, which was dispatched until then.
LEMMA AssetOfNode ==
  ASSUME TypeOK, RunInv, [Next]_vars, NEW n \in Nodes
  PROVE  \/ /\ made'[n] = made[n]
            /\ status'[n] = "succeeded" => status[n] = "succeeded"
         \/ /\ status[n] = "dispatched"
            /\ UNCHANGED spec
            /\ \E w \in Workers : /\ Renders(w, n) /\ Loaded(w)
                                  /\ made'[n] = worker[w].inputs
<1> DEFINE Goal ==
         \/ /\ made'[n] = made[n]
            /\ status'[n] = "succeeded" => status[n] = "succeeded"
         \/ /\ status[n] = "dispatched"
            /\ UNCHANGED spec
            /\ \E w \in Workers : /\ Renders(w, n) /\ Loaded(w)
                                  /\ made'[n] = worker[w].inputs
<1>1. ASSUME NEW w \in Workers, RenderSucceeds(w) PROVE Goal
  <2>1. worker[w].pc # "idle" /\ Loaded(w) /\ worker[w].node \in Nodes
    BY <1>1 DEF RenderSucceeds, Loaded, TypeOK
  <2>2. CASE n = worker[w].node
    <3>1. Renders(w, n)
      BY <2>1, <2>2 DEF Renders
    <3>2. status[n] = "dispatched"
      BY <3>1 DEF RunInv, LockHeld, Executing
    <3>3. made'[n] = worker[w].inputs /\ UNCHANGED spec
      BY <1>1, <2>2 DEF RenderSucceeds, TypeOK
    <3> QED
      BY <2>1, <3>1, <3>2, <3>3
  <2>3. CASE n # worker[w].node
    BY <1>1, <2>3 DEF RenderSucceeds, TypeOK, Statuses
  <2> QED
    BY <2>2, <2>3
<1> QED
  BY <1>1, AssetMoves

\* The content of a node is edited while nobody renders the node and it has not succeeded.
LEMMA SpecOfNode ==
  ASSUME TypeOK, RunInv, [Next]_vars, NEW n \in Nodes
  PROVE  spec'[n] = spec[n] \/ (UNCHANGED status /\ status[n] \in FailedStatus \cup {"pending"})
<1> DEFINE Goal == spec'[n] = spec[n] \/ (UNCHANGED status /\ status[n] \in FailedStatus \cup {"pending"})
<1>1. CASE DaemonStep
  BY <1>1 DEF DaemonStep, TickReadNode, Reserve, Pause, TickBegin, TickRecover,
     TickResume, TickPark, HandOff, Block, PlanDispatch, MarkDispatched, SendRender,
     SendRenderFails, RevertDispatch, SendComposite, SendCompositeFails
<1>2. ASSUME NEW w \in Workers, WorkerStep(w) PROVE UNCHANGED spec
  BY <1>2 DEF WorkerStep, TakeRender, LoadNode, Submit, RecordCost, RenderSucceeds,
     RenderFails, RecordBilledFailure, BilledRenderFails, ArchiveFails, LandFailed
<1>3. CASE CompositorStep \/ Fault
  BY <1>3 DEF CompositorStep, TakeComposite, SetFinalUrl, SetComplete, CompositeFails,
     Fault, DaemonAbort, CompositorCrash, WorkerCrash, Redeliver
<1>4. ASSUME NEW r \in Retriers, RetrierStep(r) PROVE UNCHANGED spec
  BY <1>4 DEF RetrierStep, RetryStart, RetryDecide, RetryCollect, ResetNode
<1>5. ASSUME NEW e \in Editors, EditorStep(e) PROVE Goal
  <2>1. CASE EditCommit(e)
    <3>1. CASE n = editor[e].node /\ status[n] \in editor[e].allowed
      BY <2>1, <3>1 DEF EditCommit, RunInv, EditsUnrendered
    <3>2. CASE ~(n = editor[e].node /\ status[n] \in editor[e].allowed)
      BY <2>1, <3>2 DEF EditCommit, TypeOK
    <3> QED
      BY <3>1, <3>2
  <2> QED
    BY <1>5, <2>1 DEF EditorStep, EditStart, EditCheck
<1>6. ASSUME NEW v \in Viewers, ViewerStep(v) PROVE UNCHANGED spec
  BY <1>6 DEF ViewerStep, ViewPhase, ViewFinalUrl
<1>7. CASE UNCHANGED vars
  BY <1>7 DEF vars
<1> QED
  BY <1>1, <1>2, <1>3, <1>4, <1>5, <1>6, <1>7 DEF Next

\* Nothing happens any more to the content and the asset of a node that has succeeded.
LEMMA SucceededStays ==
  ASSUME TypeOK, RunInv, [Next]_vars, NEW n \in Nodes, status[n] = "succeeded"
  PROVE  status'[n] = "succeeded" /\ spec'[n] = spec[n] /\ made'[n] = made[n]
<1>1. status'[n] = "succeeded"
  BY StatusMoves DEF StatusMove, ReadyNodes, FailedStatus
<1> QED
  BY <1>1, AssetOfNode, SpecOfNode DEF FailedStatus

\* A node is marked when its dependencies have succeeded, and they stay so.
LEMMA DispatchedStep ==
  ASSUME TypeOK, RunInv, CurrentInv, [Next]_vars, NEW n \in Nodes, status'[n] = "dispatched"
  PROVE  DepsSucceeded(status, n)'
<1>1. DepsSucceeded(status, n)
  <2>1. status[n] = "dispatched" \/ n \in ReadyNodes(status)
    BY StatusMoves DEF StatusMove, FailedStatus
  <2> QED
    BY <2>1 DEF CurrentInv, ReadyNodes
<1> QED
  BY <1>1, SucceededStays DEF DepsSucceeded, Deps

\* What a worker has loaded stays current until the worker is done with it.
LEMMA LoadedStep ==
  ASSUME ReferencesAreDependencies, TypeOK, RunInv, CurrentInv, [Next]_vars,
         NEW w \in Workers, Loaded(w)', NEW n \in Nodes, worker'[w].node = n
  PROVE  /\ worker'[w].inputs[n] = spec'[n]
         /\ \A m \in References[n] \ {n} : worker'[w].inputs[m] = made'[m][m]
<1> DEFINE Goal == /\ worker'[w].inputs[n] = spec'[n]
                   /\ \A m \in References[n] \ {n} : worker'[w].inputs[m] = made'[m][m]
<1>1. worker'[w].node = worker[w].node /\ worker[w].pc # "idle"
  BY WorkerMoves DEF Loaded
<1>2. status[n] = "dispatched"
  BY <1>1 DEF RunInv, LockHeld, Executing, Renders
<1>3. References[n] \subseteq Nodes
  BY RunAssumption
<1>4. CASE Loaded(w) /\ worker'[w].inputs = worker[w].inputs
  <2>1. spec'[n] = spec[n]
    BY <1>2, SpecOfNode DEF FailedStatus
  <2>2. \A m \in References[n] : status[m] = "succeeded"
    BY <1>2, <1>3 DEF CurrentInv, DepsSucceeded, Deps, ReferencesAreDependencies
  <2> QED
    BY <1>1, <1>3, <1>4, <2>1, <2>2, SucceededStays DEF CurrentInv
<1>5. CASE LoadNode(w) /\ worker'[w].inputs = InputsOf(worker[w].node)
  BY <1>1, <1>3, <1>5 DEF LoadNode, InputsOf
<1> QED
  BY <1>4, <1>5, WorkerMoves DEF Loaded

\* A node that has succeeded shows what it is asked for and what its references are.
LEMMA SucceededStep ==
  ASSUME ReferencesAreDependencies, TypeOK, RunInv, CurrentInv, [Next]_vars,
         NEW n \in Nodes, status'[n] = "succeeded"
  PROVE  /\ made'[n][n] = spec'[n]
         /\ \A m \in References[n] \ {n} : made'[n][m] # NoAsset =>
              made'[n][m] = made'[m][m] /\ status'[m] = "succeeded"
<1>1. References[n] \subseteq Nodes
  BY RunAssumption
<1>2. CASE status[n] = "succeeded"
  BY <1>1, <1>2, SucceededStays DEF CurrentInv
<1>3. CASE status[n] # "succeeded"
  <2>1. status[n] = "dispatched" /\ UNCHANGED spec
    BY <1>3, AssetOfNode
  <2>2. PICK w \in Workers : Renders(w, n) /\ Loaded(w) /\ made'[n] = worker[w].inputs
    BY <1>3, AssetOfNode
  <2>3. \A m \in References[n] : status[m] = "succeeded"
    BY <1>1, <2>1 DEF CurrentInv, DepsSucceeded, Deps, ReferencesAreDependencies
  <2> QED
    BY <1>1, <2>1, <2>2, <2>3, SucceededStays DEF CurrentInv, Renders
<1> QED
  BY <1>2, <1>3

\* The compositor loads what Redis says, which is frozen by then, and publishes it.
LEMMA CutStep ==
  ASSUME TypeOK, RunInv, CurrentInv, [Next]_vars, NEW n \in Timeline
  PROVE  /\ compositor'.pc # "idle" => compositor'.cut[n] = made'[n][n]
         /\ phase' = "complete" \/ compositor'.pc = "finish" => finalCut'[n] = made'[n][n]
<1>1. n \in Nodes
  BY RunAssumption
<1>2. compositor.pc # "idle" \/ phase = "complete" => made'[n] = made[n]
  BY <1>1, SucceededStays DEF RunInv, PhaseIsSound, AllSucceeded
<1>3. compositor \in CompositorType
  BY DEF TypeOK
<1>4. CASE SetFinalUrl
  <2>1. /\ compositor.pc = "render" /\ finalCut' = compositor.cut /\ phase' = phase
        /\ compositor'.cut = compositor.cut
    BY <1>3, <1>4 DEF SetFinalUrl, CompositorType
  <2> QED
    BY <1>2, <2>1 DEF CurrentInv
<1>5. CASE TakeComposite
  <2>1. /\ compositor'.pc = "render" /\ compositor'.cut[n] = made[n][n]
        /\ UNCHANGED <<phase, made, finalCut>>
    BY <1>1, <1>5 DEF TakeComposite
  <2> QED
    BY <2>1 DEF CurrentInv
<1>6. CASE UNCHANGED finalCut /\ (UNCHANGED compositor \/ compositor' = CompositorIdle)
  <2>1. phase' = "complete" => phase = "complete" \/ compositor.pc = "finish"
    BY PhaseMoves DEF PhaseMove, SetComplete
  <2> QED
    BY <1>2, <1>6, <2>1 DEF CurrentInv, CompositorIdle
<1> QED
  BY <1>4, <1>5, <1>6, CutMoves

\* CurrentInv holds in every orderly run: with one caller of retry at a time and no message
\* delivered twice.
THEOREM AssetsAreSound ==
  ASSUME OrderlyRun, ReferencesAreDependencies PROVE Spec => []CurrentInv
<1>1. Init => CurrentInv
  BY RunAssumption DEF Init, CurrentInv, Nothing, NoAsset, Loaded, WorkerIdle, CompositorIdle
<1>2. TypeOK /\ RunInv /\ CurrentInv /\ [Next]_vars => CurrentInv'
  <2> SUFFICES ASSUME TypeOK, RunInv, CurrentInv, [Next]_vars PROVE CurrentInv'
    OBVIOUS
  <2>1. \A w \in Workers : Loaded(w)' => worker'[w].node \in Nodes
    BY TypeStep DEF TypeOK, Loaded
  <2> QED
    BY <2>1, DispatchedStep, LoadedStep, SucceededStep, CutStep DEF CurrentInv
<1> QED
  BY <1>1, <1>2, RunIsSound, PTL DEF Spec

\* RendersAreCurrent: no edit slips in between the worker's read of the content and its
\* success, and no reference is rendered again behind a clip that shows it.
THEOREM SucceededIsCurrent ==
  ASSUME OrderlyRun, ReferencesAreDependencies PROVE Spec => []RendersAreCurrent
<1>1. CurrentInv => RendersAreCurrent
  BY RunAssumption DEF CurrentInv, RendersAreCurrent
<1> QED
  BY <1>1, AssetsAreSound, PTL

\* CutIsCurrent: the film of a complete run shows every clip of the timeline, in its last
\* edited form.
THEOREM FilmIsCurrent ==
  ASSUME OrderlyRun, ReferencesAreDependencies PROVE Spec => []CutIsCurrent
<1>1. TypeOK /\ RunInv /\ CurrentInv => CutIsCurrent
  <2> SUFFICES ASSUME TypeOK, RunInv, CurrentInv, phase = "complete", NEW n \in Timeline
               PROVE  finalCut[n] = spec[n] /\ HasAsset(n)
    BY DEF CutIsCurrent
  <2>1. n \in Nodes /\ status[n] = "succeeded"
    BY RunAssumption DEF RunInv, PhaseIsSound, AllSucceeded
  <2>2. spec[n] # NoAsset
    BY <2>1 DEF TypeOK, NoAsset
  <2> QED
    BY <2>1, <2>2 DEF CurrentInv, HasAsset
<1> QED
  BY <1>1, AssetsAreSound, RunIsSound, PTL

-----------------------------------------------------------------------------
(***************************************************************************)
(* How much a run may overspend.  The check before a dispatch reserves     *)
(* nothing; what bounds the overspend is that each check covers the node   *)
(* it is made for, and that a node has one unbilled render at a time.  The *)
(* sum of the costs is a fold over a set: what it computes is shown first, *)
(* each time from a smallest set on which it would not.                    *)
(***************************************************************************)

\* Nodes whose render has been checked or sent and is not billed yet.
Unbilled(n) ==
  \/ renderQueue[n] > 0
  \/ daemon.pc \in {"mark", "send", "revert"} /\ daemon.node = n
  \/ \E w \in Workers : worker[w].pc \in {"load", "submit", "poll"} /\ worker[w].node = n

Expected == {n \in Nodes : Unbilled(n)}

\* What is spent and what is still to be billed exceed the budget by less than one render of
\* each node.
BudgetInv ==
  LET sum == spent + CostOf(Expected) IN sum = 0 \/ sum < Budget + TotalCost

\* A task that dies between the record of its cost and its last write is delivered, and
\* billed, again without a check.
NoCrashLeft == left["taskCrash"] = 0

\* What the theorem below assumes of an instance: a package is a list of nodes, and no task
\* dies holding its message.
FinitePackage == IsFiniteSet(Nodes)
NoCrash == Bounds["taskCrash"] = 0

-----------------------------------------------------------------------------
(* The sum of costs. *)

\* A set of subsets of a finite set has a member without a smaller one: the form of
\* induction over finite sets used below.
LEMMA SmallestSet ==
  ASSUME NEW S, IsFiniteSet(S), NEW T \in SUBSET SUBSET S, T # {}
  PROVE  \E x \in T : \A y \in T : y \subseteq x => y = x
<1>1. IsWellFoundedOn(StrictSubsetOrdering(S), FiniteSubsetsOf(S))
  BY FS_StrictSubsetOrderingWellFounded
<1>2. T \subseteq FiniteSubsetsOf(S)
  BY FS_Subset DEF FiniteSubsetsOf
<1>3. \E x \in T : \A y \in T : <<y, x>> \notin StrictSubsetOrdering(S)
  BY <1>1, <1>2, WFMin
<1> QED
  BY <1>3 DEF StrictSubsetOrdering

\* The node a fold takes next, and what the fold over the subsets of S satisfies.
Pick(s) == CHOOSE n \in s : TRUE

Sums(S, g) ==
  g = [s \in SUBSET S |-> IF s = {} THEN 0 ELSE Cost[Pick(s)] + g[s \ {Pick(s)}]]

SumOver(S) == CHOOSE g : Sums(S, g)

\* CostOf is the fold: its definition with the operators of the community modules unfolded.
LEMMA CostOfIsSum == \A S : CostOf(S) = SumOver(S)[S]
BY DEF CostOf, MapThenSumSet, MapThenFoldSet, Pick, Sums, SumOver

\* What such a function is at a set.
LEMMA SumsAt ==
  ASSUME NEW S, NEW g, Sums(S, g), NEW s \in SUBSET S
  PROVE  /\ s = {} => g[s] = 0
         /\ s # {} => g[s] = Cost[Pick(s)] + g[s \ {Pick(s)}]
BY DEF Sums

\* The node taken is in the set.
LEMMA PickIn == ASSUME NEW s, s # {} PROVE Pick(s) \in s
BY DEF Pick

\* Two such functions agree where both are defined.
LEMMA SumsAgree ==
  ASSUME NEW S, NEW U, IsFiniteSet(S), NEW g, NEW h, Sums(S, g), Sums(U, h),
         NEW t, t \subseteq S, t \subseteq U
  PROVE  g[t] = h[t]
<1> DEFINE Bad == {s \in SUBSET S : s \in SUBSET U /\ g[s] # h[s]}
<1> SUFFICES ASSUME Bad # {} PROVE FALSE
  OBVIOUS
<1>1. PICK x \in Bad : \A y \in Bad : y \subseteq x => y = x
  <2>1. Bad \in SUBSET SUBSET S
    OBVIOUS
  <2> HIDE DEF Bad
  <2> QED
    BY <2>1, SmallestSet
<1>2. x # {}
  BY <1>1, SumsAt
<1>3. Pick(x) \in x
  BY <1>2, PickIn
<1>4. x \ {Pick(x)} \notin Bad
  BY <1>1, <1>3
<1>5. g[x \ {Pick(x)}] = h[x \ {Pick(x)}]
  BY <1>4
<1> QED
  BY <1>1, <1>2, <1>5, SumsAt

\* So the sum of a set may be taken in a larger one.
LEMMA SumsInside ==
  \A S, T : T \subseteq S /\ IsFiniteSet(T) /\ Sums(S, SumOver(S)) /\ Sums(T, SumOver(T))
           => SumOver(T)[T] = SumOver(S)[T]
<1>1. \A S, T, g, h : IsFiniteSet(T) /\ Sums(T, g) /\ Sums(S, h) /\ T \subseteq S
                      => g[T] = h[T]
  <2>1. \A S, T, g, h, t : IsFiniteSet(T) /\ Sums(T, g) /\ Sums(S, h) /\ t \subseteq T /\ t \subseteq S
                           => g[t] = h[t]
    BY SumsAgree
  <2>2. \A T : T \subseteq T
    OBVIOUS
  <2> QED
    BY <2>1, <2>2, SMTT(60)
<1> QED
  BY <1>1, SMTT(60)

\* The sum of a non-empty set over itself.
LEMMA SumsSelf ==
  ASSUME NEW S, S # {}, Sums(S, SumOver(S))
  PROVE  SumOver(S)[S] = Cost[Pick(S)] + SumOver(S)[S \ {Pick(S)}]
<1>1. S \in SUBSET S
  OBVIOUS
<1> QED
  BY <1>1, SumsAt

\* There is such a function over every finite set.
LEMMA SumsExist ==
  ASSUME NEW S, IsFiniteSet(S)
  PROVE  Sums(S, SumOver(S))
<1> DEFINE Bad == {s \in SUBSET S : ~ \E g : Sums(s, g)}
<1>1. ASSUME Bad # {} PROVE FALSE
  <2>1. PICK x \in Bad : \A y \in Bad : y \subseteq x => y = x
    <3>1. Bad \in SUBSET SUBSET S
      OBVIOUS
    <3> HIDE DEF Bad
    <3> QED
      BY <1>1, <3>1, SmallestSet
  <2>2. ASSUME NEW s \in SUBSET x, s # x PROVE Sums(s, SumOver(s)) /\ IsFiniteSet(s)
    <3>1. s \notin Bad
      BY <2>1, <2>2
    <3>2. \E g : Sums(s, g)
      BY <3>1, <2>1
    <3> QED
      BY <3>2, FS_Subset, <2>1 DEF SumOver
  <2> DEFINE g == [s \in SUBSET x |->
                     IF s = {} THEN 0 ELSE Cost[Pick(s)] + SumOver(s \ {Pick(s)})[s \ {Pick(s)}]]
  <2>3. ASSUME NEW s \in SUBSET x, s # {}
        PROVE  g[s \ {Pick(s)}] = SumOver(s \ {Pick(s)})[s \ {Pick(s)}]
    <3> DEFINE t == s \ {Pick(s)}
               u == t \ {Pick(t)}
    <3>1. Pick(s) \in s
      BY <2>3, PickIn
    <3>2. t \in SUBSET x /\ t # x
      BY <3>1
    <3>3. CASE t = {}
      BY <3>2, <3>3, <2>2, SumsAt
    <3>4. CASE t # {}
      <4>1. g[t] = Cost[Pick(t)] + SumOver(u)[u]
        BY <3>2, <3>4
      <4>2. Pick(t) \in t
        BY <3>4, PickIn
      <4>3. u \in SUBSET x /\ u # x /\ u \in SUBSET t /\ u \in SUBSET u
        BY <3>2, <4>2
      <4>4. Sums(u, SumOver(u)) /\ IsFiniteSet(u) /\ Sums(t, SumOver(t))
        BY <4>3, <3>2, <2>2
      <4>5. SumOver(t)[t] = Cost[Pick(t)] + SumOver(t)[u]
        BY <3>4, <4>4, SumsSelf
      <4>6. SumOver(u)[u] = SumOver(t)[u]
        <5> HIDE DEF u, t
        <5> QED
          BY <4>3, <4>4, SumsInside
      <4> QED
        BY <4>1, <4>5, <4>6
    <3> QED
      BY <3>3, <3>4
  <2>4. Sums(x, g)
    BY <2>3 DEF Sums
  <2> QED
    BY <2>1, <2>4
<1>2. S \in SUBSET S
  OBVIOUS
<1>3. \E g : Sums(S, g)
  BY <1>1, <1>2
<1> QED
  BY <1>3 DEF SumOver

\* What the nodes of a set cost, from any member: the fold does not depend on its order.
LEMMA CostOfStep ==
  ASSUME FinitePackage, NEW S \in SUBSET Nodes
  PROVE  /\ S = {} => CostOf(S) = 0
         /\ S # {} => CostOf(S) = Cost[Pick(S)] + CostOf(S \ {Pick(S)})
<1> DEFINE T == S \ {Pick(S)}
<1>1. IsFiniteSet(S) /\ IsFiniteSet(T)
  BY FS_Subset DEF FinitePackage
<1>2. Sums(S, SumOver(S)) /\ Sums(T, SumOver(T))
  BY <1>1, SumsExist
<1>3. T \in SUBSET S /\ T \in SUBSET T /\ S \in SUBSET S
  OBVIOUS
<1>4. SumOver(T)[T] = SumOver(S)[T]
  <2> HIDE DEF T
  <2> QED
    BY <1>1, <1>2, <1>3, SumsInside
<1>5. CASE S = {}
  BY <1>2, <1>3, <1>5, SumsAt, CostOfIsSum
<1>6. CASE S # {}
  <2>1. SumOver(S)[S] = Cost[Pick(S)] + SumOver(S)[T]
    BY <1>2, <1>6, SumsSelf
  <2>2. CostOf(S) = SumOver(S)[S] /\ CostOf(T) = SumOver(T)[T]
    BY CostOfIsSum
  <2> QED
    BY <1>4, <1>6, <2>1, <2>2
<1> QED
  BY <1>5, <1>6

\* The costs of a set add up to a number of cents.
LEMMA CostOfType ==
  ASSUME FinitePackage, NEW S \in SUBSET Nodes
  PROVE  CostOf(S) \in Nat
<1> DEFINE Bad == {s \in SUBSET Nodes : CostOf(s) \notin Nat}
<1> SUFFICES ASSUME Bad # {} PROVE FALSE
  OBVIOUS
<1>1. PICK x \in Bad : \A y \in Bad : y \subseteq x => y = x
  <2>1. Bad \in SUBSET SUBSET Nodes
    OBVIOUS
  <2> HIDE DEF Bad
  <2> QED
    BY <2>1, SmallestSet DEF FinitePackage
<1>2. x # {}
  <2>1. CostOf({}) = 0
    BY CostOfStep
  <2> QED
    BY <1>1, <2>1
<1>3. Pick(x) \in x
  BY <1>2, PickIn
<1>4. CostOf(x \ {Pick(x)}) \in Nat
  BY <1>1, <1>3
<1>5. CostOf(x) = Cost[Pick(x)] + CostOf(x \ {Pick(x)}) /\ Cost[Pick(x)] \in Nat
  BY <1>1, <1>2, <1>3, CostOfStep, RunAssumption
<1> QED
  BY <1>1, <1>4, <1>5

\* One more node costs what it costs.
LEMMA CostOfAdd ==
  ASSUME FinitePackage, NEW S \in SUBSET Nodes, NEW n \in Nodes \ S
  PROVE  CostOf(S \cup {n}) = CostOf(S) + Cost[n]
<1> DEFINE Good(s, m) == CostOf(s \cup {m}) = CostOf(s) + Cost[m]
           Bad == {s \in SUBSET Nodes : \E m \in Nodes \ s : ~Good(s, m)}
<1> SUFFICES ASSUME Bad # {} PROVE FALSE
  OBVIOUS
<1>1. PICK x \in Bad : \A y \in Bad : y \subseteq x => y = x
  <2>1. Bad \in SUBSET SUBSET Nodes
    OBVIOUS
  <2> HIDE DEF Bad
  <2> QED
    BY <2>1, SmallestSet DEF FinitePackage
<1>2. PICK m \in Nodes \ x : ~Good(x, m)
  BY <1>1
<1> DEFINE u == x \cup {m}
           p == Pick(u)
<1>3. u \in SUBSET Nodes /\ u # {} /\ p \in u /\ CostOf(u) = Cost[p] + CostOf(u \ {p})
  BY <1>1, <1>2, CostOfStep, PickIn
<1>4. CostOf(x) \in Nat /\ Cost[m] \in Nat /\ Cost[p] \in Nat
  BY <1>1, <1>2, <1>3, CostOfType, RunAssumption
<1>5. CASE p = m
  <2>1. u \ {p} = x
    BY <1>2, <1>5
  <2> QED
    BY <1>2, <1>3, <1>4, <2>1
<1>6. CASE p # m
  <2> DEFINE y == x \ {p}
  <2>1. p \in x /\ y \in SUBSET Nodes /\ y # x /\ m \in Nodes \ y /\ p \in Nodes \ y
    BY <1>1, <1>2, <1>3, <1>6
  <2>2. y \notin Bad
    BY <1>1, <2>1
  <2>3. Good(y, m) /\ Good(y, p)
    BY <2>1, <2>2
  <2>4. u \ {p} = y \cup {m} /\ x = y \cup {p}
    BY <2>1, <1>6
  <2>5. CostOf(u \ {p}) = CostOf(y) + Cost[m] /\ CostOf(x) = CostOf(y) + Cost[p]
    BY <2>3, <2>4
  <2>6. CostOf(y) \in Nat
    BY <2>1, CostOfType
  <2> QED
    BY <1>2, <1>3, <1>4, <2>5, <2>6
<1> QED
  BY <1>5, <1>6

\* More nodes cost no less.
LEMMA CostOfGrows ==
  ASSUME FinitePackage, NEW S \in SUBSET Nodes, NEW T \in SUBSET S
  PROVE  CostOf(T) <= CostOf(S)
<1> DEFINE Bad == {s \in SUBSET Nodes : T \subseteq s /\ ~(CostOf(T) <= CostOf(s))}
<1> SUFFICES ASSUME Bad # {} PROVE FALSE
  OBVIOUS
<1>1. PICK x \in Bad : \A y \in Bad : y \subseteq x => y = x
  <2>1. Bad \in SUBSET SUBSET Nodes
    OBVIOUS
  <2> HIDE DEF Bad
  <2> QED
    BY <2>1, SmallestSet DEF FinitePackage
<1>2. CostOf(T) \in Nat /\ CostOf(x) \in Nat
  BY <1>1, CostOfType
<1>3. x # T
  BY <1>1, <1>2
<1>4. PICK n \in x : n \notin T
  BY <1>1, <1>3
<1>5. x \ {n} \in SUBSET Nodes /\ n \in Nodes \ (x \ {n}) /\ x = (x \ {n}) \cup {n}
  BY <1>1
<1>6. x \ {n} \notin Bad /\ T \subseteq x \ {n}
  BY <1>1, <1>4
<1>7. CostOf(T) <= CostOf(x \ {n})
  BY <1>5, <1>6
<1>8. CostOf(x) = CostOf(x \ {n}) + Cost[n]
  BY <1>5, CostOfAdd
<1>9. CostOf(x \ {n}) \in Nat /\ Cost[n] \in Nat
  BY <1>5, CostOfType, RunAssumption
<1> QED
  BY <1>1, <1>2, <1>7, <1>8, <1>9

-----------------------------------------------------------------------------
(* Who waits for a bill. *)

\* The set of nodes with a bill to come only shrinks, or grows by the node a check just
\* covered, or loses the node that was just billed.
ExpectedMove ==
  \/ UNCHANGED spent /\ Expected' \subseteq Expected
  \/ \E n \in Nodes : /\ UNCHANGED spent /\ spent + Cost[n] <= Budget
                      /\ n \notin Expected /\ Expected' \subseteq Expected \cup {n}
  \/ \E n \in Expected : /\ spent' = spent + Cost[n]
                         /\ Expected' \subseteq Expected \ {n}

\* The first form, node by node.
LEMMA FewerExpected ==
  ASSUME UNCHANGED spent, \A n \in Nodes : Unbilled(n)' => Unbilled(n)
  PROVE  ExpectedMove
BY DEF ExpectedMove, Expected

\* The check of the daemon is for a node that is ready in Redis, which nobody executes.
LEMMA ReserveExpects ==
  ASSUME TypeOK, RunInv, NEW n \in Nodes, Reserve(n)
  PROVE  ExpectedMove
<1>1. n \in ReadyNodes(status) /\ daemon.pc = "dispatch"
  BY DEF Reserve, RunInv, TickIsSound, DaemonSends
<1>2. ~Executing(n)
  BY <1>1 DEF RunInv, LockHeld, ReadyNodes
<1>3. n \notin Expected
  BY <1>1, <1>2 DEF Expected, Unbilled, Executing, Renders
<1>4. daemon'.node = n /\ UNCHANGED <<renderQueue, worker, spent>> /\ spent + Cost[n] <= Budget
  BY DEF Reserve, TypeOK, DaemonType, WithinBudget
<1>5. Expected' \subseteq Expected \cup {n}
  BY <1>4 DEF Expected, Unbilled
<1> QED
  BY <1>3, <1>4, <1>5 DEF ExpectedMove

\* The daemon expects no bill but of the node it checks; of a message it sends it expected
\* the bill before.
LEMMA DaemonExpects == ASSUME TypeOK, RunInv, DaemonStep PROVE ExpectedMove
<1>1. CASE /\ UNCHANGED <<spent, renderQueue, worker>>
           /\ daemon'.pc \notin {"mark", "send", "revert"}
  BY <1>1, FewerExpected DEF Unbilled
<1>2. CASE /\ UNCHANGED <<spent, renderQueue, worker>>
           /\ daemon.pc \in {"mark", "send", "revert"} /\ daemon'.node = daemon.node
  BY <1>2, FewerExpected DEF Unbilled
<1>3. daemon \in DaemonType /\ DaemonIdle.pc = "scan"
  BY DEF TypeOK, DaemonIdle
<1>4. ASSUME NEW n \in Nodes, TickReadNode(n) \/ Reserve(n) \/ Pause(n) PROVE ExpectedMove
  BY <1>1, <1>3, <1>4, ReserveExpects DEF TickReadNode, Pause, DaemonType
<1>5. CASE TickBegin \/ TickRecover \/ TickResume \/ TickPark
  BY <1>1, <1>3, <1>5 DEF TickBegin, TickRecover, TickResume, TickPark, DaemonType
<1>6. CASE HandOff \/ Block \/ PlanDispatch \/ SendComposite \/ SendCompositeFails
  BY <1>1, <1>3, <1>6 DEF HandOff, Block, PlanDispatch, SendComposite, SendCompositeFails,
     DaemonType
<1>7. CASE MarkDispatched
  BY <1>2, <1>3, <1>7 DEF MarkDispatched, DaemonType
<1>8. CASE RevertDispatch
  BY <1>1, <1>3, <1>8 DEF RevertDispatch
<1>9. CASE SendRenderFails
  <2>1. ~Use("lateSendFailure")
    BY DEF RunInv, OneDelivery, Use
  <2> QED
    BY <1>2, <1>3, <1>9, <2>1 DEF SendRenderFails, DaemonType
<1>10. CASE SendRender
  <2>1. daemon'.pc \notin {"mark", "send", "revert"} /\ UNCHANGED <<spent, worker>>
    BY <1>3, <1>10 DEF SendRender, AfterDispatch, DaemonType
  <2>2. ASSUME NEW n \in Nodes PROVE Unbilled(n)' => Unbilled(n)
    BY <1>10, <2>1 DEF SendRender, Unbilled, TypeOK
  <2> QED
    BY <2>1, <2>2, FewerExpected
<1> QED
  BY <1>4, <1>5, <1>6, <1>7, <1>8, <1>9, <1>10 DEF DaemonStep

\* A bill is one that was expected, and the only one of its node.
LEMMA BillIsExpected ==
  ASSUME TypeOK, RunInv, NEW w \in Workers, worker[w].pc = "poll",
         spent' = spent + Cost[worker[w].node], UNCHANGED <<renderQueue, daemon>>,
         NEW pc \in {"archive", "billed"}, worker' = [worker EXCEPT ![w].pc = pc]
  PROVE  ExpectedMove
<1> DEFINE n == worker[w].node
<1>1. n \in Nodes /\ Renders(w, n) /\ n \in Expected
  BY DEF TypeOK, Renders, Expected, Unbilled
<1>2. ~(renderQueue[n] > 0) /\ ~DaemonSends(n) /\ \A v \in Workers : Renders(v, n) => v = w
  BY <1>1 DEF RunInv, LockHeld, TypeOK
<1>3. ~(daemon.pc = "mark" /\ daemon.node = n)
  BY <1>1 DEF RunInv, LockHeld, Executing, TickIsSound, DaemonSends, ReadyNodes
<1>4. /\ worker'[w].pc \notin {"load", "submit", "poll"}
      /\ \A v \in Workers : v # w => worker'[v] = worker[v]
  BY DEF TypeOK, WorkerType
<1>5. ~Unbilled(n)'
  BY <1>2, <1>3, <1>4 DEF Unbilled, DaemonSends, Renders
<1>6. \A m \in Nodes : Unbilled(m)' => Unbilled(m)
  BY <1>4 DEF Unbilled
<1>7. Expected' \subseteq Expected \ {n}
  BY <1>5, <1>6 DEF Expected
<1> QED
  BY <1>1, <1>7 DEF ExpectedMove

\* A worker takes over the bill of the message it takes, and presents it once.
LEMMA WorkerExpects ==
  ASSUME TypeOK, RunInv, NEW w \in Workers, WorkerStep(w)
  PROVE  ExpectedMove
<1>1. worker \in [Workers -> WorkerType] /\ worker[w] \in WorkerType /\ WorkerIdle.pc = "idle"
  BY DEF TypeOK, WorkerIdle
<1>2. ASSUME NEW n \in Nodes, TakeRender(w, n) PROVE ExpectedMove
  <2>1. /\ renderQueue[n] > 0 /\ UNCHANGED <<spent, daemon>>
        /\ \A m \in Nodes : renderQueue'[m] > 0 => renderQueue[m] > 0
        /\ worker'[w].node = n
        /\ \A v \in Workers : v # w => worker'[v] = worker[v]
    BY <1>1, <1>2 DEF TakeRender, TypeOK, WorkerIdle
  <2> QED
    BY <2>1, FewerExpected DEF Unbilled
<1>3. CASE LoadNode(w) \/ Submit(w)
  <2>1. /\ worker[w].pc \in {"load", "submit"} /\ worker'[w].node = worker[w].node
        /\ \A v \in Workers : v # w => worker'[v] = worker[v]
        /\ UNCHANGED <<spent, daemon, renderQueue>>
    BY <1>1, <1>3 DEF LoadNode, Submit, WorkerType
  <2> QED
    BY <2>1, FewerExpected DEF Unbilled
<1>4. CASE RecordCost(w) \/ RecordBilledFailure(w)
  BY <1>4, BillIsExpected DEF RecordCost, RecordBilledFailure
<1>5. CASE RenderSucceeds(w) \/ RenderFails(w) \/ ArchiveFails(w) \/ BilledRenderFails(w)
  <2>1. /\ worker'[w].pc = "idle"
        /\ \A v \in Workers : v # w => worker'[v] = worker[v]
        /\ UNCHANGED <<spent, daemon, renderQueue>>
    BY <1>1, <1>5 DEF RenderSucceeds, RenderFails, ArchiveFails, BilledRenderFails, LandFailed
  <2> QED
    BY <2>1, FewerExpected DEF Unbilled
<1> QED
  BY <1>2, <1>3, <1>4, <1>5 DEF WorkerStep

\* Every step is such a move while no task dies.
LEMMA ExpectedMoves ==
  ASSUME TypeOK, RunInv, NoCrashLeft, [Next]_vars
  PROVE  ExpectedMove
<1>1. CASE UNCHANGED <<spent, renderQueue, daemon, worker>>
  BY <1>1, FewerExpected DEF Unbilled
<1>2. CASE Fault
  <2>1. ~Use("taskCrash") /\ ~Use("redelivery")
    BY DEF NoCrashLeft, RunInv, OneDelivery, Use
  <2>2. CASE DaemonAbort
    <3>1. daemon'.pc \notin {"mark", "send", "revert"} /\ UNCHANGED <<spent, renderQueue, worker>>
      BY <2>2 DEF DaemonAbort, DaemonIdle
    <3> QED
      BY <3>1, FewerExpected DEF Unbilled
  <2> QED
    BY <1>2, <2>1, <2>2 DEF Fault, CompositorCrash, WorkerCrash, Redeliver
<1>3. CASE CompositorStep
  BY <1>1, <1>3 DEF CompositorStep, TakeComposite, SetFinalUrl, SetComplete, CompositeFails
<1>4. ASSUME NEW r \in Retriers, RetrierStep(r) PROVE ExpectedMove
  BY <1>1, <1>4 DEF RetrierStep, RetryStart, RetryDecide, RetryCollect, ResetNode
<1>5. ASSUME NEW e \in Editors, EditorStep(e) PROVE ExpectedMove
  BY <1>1, <1>5 DEF EditorStep, EditStart, EditCheck, EditCommit
<1>6. ASSUME NEW v \in Viewers, ViewerStep(v) PROVE ExpectedMove
  BY <1>1, <1>6 DEF ViewerStep, ViewPhase, ViewFinalUrl
<1>7. CASE UNCHANGED vars
  BY <1>1, <1>7 DEF vars
<1> QED
  BY <1>2, <1>3, <1>4, <1>5, <1>6, <1>7, DaemonExpects, WorkerExpects DEF Next

-----------------------------------------------------------------------------
(* What is spent. *)

\* A check leaves room for the node it is made for; the others with a bill to come cost
\* less than all nodes together.
LEMMA BudgetStep ==
  ASSUME FinitePackage, TypeOK, RunInv, NoCrashLeft, BudgetInv, [Next]_vars
  PROVE  BudgetInv'
<1> DEFINE E == Expected
           F == Expected'
           total == CostOf(Nodes)
<1>1. E \in SUBSET Nodes /\ F \in SUBSET Nodes
  BY DEF Expected
<1>2. spent \in Nat /\ Budget \in Nat /\ total \in Nat
  BY CostOfType, RunAssumption DEF TypeOK
<1>3. ExpectedMove
  BY ExpectedMoves
<1>4. BudgetInv <=> (spent + CostOf(E) = 0 \/ spent + CostOf(E) < Budget + total)
  BY DEF BudgetInv, TotalCost
<1>5. BudgetInv' <=> (spent' + CostOf(F) = 0 \/ spent' + CostOf(F) < Budget + total)
  BY DEF BudgetInv, TotalCost
<1>6. ASSUME NEW S \in SUBSET Nodes, NEW T \in SUBSET S
      PROVE  CostOf(S) \in Nat /\ CostOf(T) \in Nat /\ CostOf(T) <= CostOf(S)
  BY <1>6, CostOfType, CostOfGrows
<1>7. ASSUME NEW S \in SUBSET Nodes, NEW n \in Nodes \ S
      PROVE  CostOf(S \cup {n}) = CostOf(S) + Cost[n] /\ CostOf(S) \in Nat /\ Cost[n] \in Nat
  BY <1>7, CostOfType, CostOfAdd, RunAssumption
<1>8. CASE UNCHANGED spent /\ F \subseteq E
  <2> HIDE DEF E, F, total
  <2>1. CostOf(E) \in Nat /\ CostOf(F) \in Nat /\ CostOf(F) <= CostOf(E)
    BY <1>1, <1>6, <1>8
  <2> QED
    BY <1>2, <1>4, <1>5, <1>8, <2>1
<1>9. ASSUME NEW n \in Nodes, UNCHANGED spent, spent + Cost[n] <= Budget, n \notin E,
             F \subseteq E \cup {n}
      PROVE  BudgetInv'
  <2> HIDE DEF E, F, total
  <2> DEFINE G == E \cup {n}
  <2>1. G \in SUBSET Nodes /\ F \in SUBSET G /\ Nodes \in SUBSET Nodes
    BY <1>1, <1>9
  <2>2. CostOf(G) = CostOf(E) + Cost[n] /\ CostOf(E) \in Nat /\ Cost[n] \in Nat
    BY <1>1, <1>7, <1>9
  <2> HIDE DEF G
  <2>3. CostOf(F) \in Nat /\ CostOf(F) <= CostOf(G) /\ CostOf(G) <= total
    BY <1>6, <2>1 DEF total
  <2>4. /\ spent' + CostOf(F) \in Nat
        /\ spent' + CostOf(F) <= spent + CostOf(E) + Cost[n]
        /\ spent + CostOf(E) + Cost[n] <= Budget + CostOf(E)
        /\ CostOf(E) <= total - Cost[n]
    BY <1>2, <1>9, <2>2, <2>3
  <2>5. CASE Cost[n] = 0
    BY <1>2, <1>4, <1>5, <2>2, <2>4, <2>5
  <2>6. CASE Cost[n] # 0
    BY <1>2, <1>5, <2>2, <2>4, <2>6
  <2> QED
    BY <2>5, <2>6
<1>10. ASSUME NEW n \in E, spent' = spent + Cost[n], F \subseteq E \ {n} PROVE BudgetInv'
  <2> HIDE DEF E, F, total
  <2> DEFINE G == E \ {n}
  <2>1. G \in SUBSET Nodes /\ F \in SUBSET G /\ n \in Nodes \ G /\ G \cup {n} = E
    BY <1>1, <1>10
  <2>2. CostOf(G \cup {n}) = CostOf(G) + Cost[n] /\ CostOf(G) \in Nat /\ Cost[n] \in Nat
    BY <1>7, <2>1
  <2>3. CostOf(F) \in Nat /\ CostOf(F) <= CostOf(G)
    BY <1>6, <2>1
  <2>4. CostOf(E) = CostOf(G) + Cost[n]
    BY <2>1, <2>2
  <2> HIDE DEF G
  <2>5. spent' + CostOf(F) \in Nat /\ spent' + CostOf(F) <= spent + CostOf(E)
    BY <1>2, <1>10, <2>2, <2>3, <2>4
  <2>6. spent + CostOf(E) \in Nat /\ Budget + total \in Nat
    BY <1>2, <2>2, <2>4
  <2> QED
    BY <1>4, <1>5, <2>5, <2>6
<1> QED
  BY <1>3, <1>8, <1>9, <1>10 DEF ExpectedMove

\* A fresh run has spent nothing and expects no bill.
LEMMA BudgetInit == ASSUME FinitePackage, Init PROVE BudgetInv
<1>1. Expected = {}
  BY DEF Init, Expected, Unbilled, DaemonIdle, WorkerIdle
<1>2. CostOf({}) = 0
  BY CostOfStep
<1> QED
  BY <1>1, <1>2 DEF BudgetInv, Init

\* While no task dies and no message is delivered twice, what is spent and still to be
\* billed stays below the budget and one render of every node.
THEOREM BudgetIsSound ==
  ASSUME OrderlyRun, FinitePackage, NoCrash
  PROVE  Spec => []BudgetInv
<1>1. Init => BudgetInv /\ NoCrashLeft
  BY BudgetInit DEF NoCrash, NoCrashLeft, Init
<1>2. TypeOK /\ RunInv /\ NoCrashLeft /\ BudgetInv /\ [Next]_vars => (NoCrashLeft /\ BudgetInv)'
  <2> SUFFICES ASSUME TypeOK, RunInv, NoCrashLeft, BudgetInv, [Next]_vars
               PROVE  NoCrashLeft' /\ BudgetInv'
    OBVIOUS
  <2>1. NoCrashLeft'
    BY LeftOnlyDrops, TypeStep, Kinds DEF NoCrashLeft, TypeOK
  <2> QED
    BY <2>1, BudgetStep
<1> QED
  BY <1>1, <1>2, RunIsSound, PTL DEF Spec

\* CostTracker.reserve reserves nothing, and still the run overspends by less than one
\* render of each node.
THEOREM OverspendStaysBounded ==
  ASSUME OrderlyRun, FinitePackage, NoCrash
  PROVE  Spec => []OverspendIsBounded
<1>1. TypeOK /\ BudgetInv => OverspendIsBounded
  <2> SUFFICES ASSUME TypeOK, BudgetInv PROVE OverspendIsBounded
    OBVIOUS
  <2>1. Expected \in SUBSET Nodes /\ Nodes \in SUBSET Nodes
    BY DEF Expected
  <2>2. CostOf(Expected) \in Nat /\ CostOf(Nodes) \in Nat /\ spent \in Nat /\ Budget \in Nat
    BY <2>1, CostOfType, RunAssumption DEF TypeOK
  <2> QED
    BY <2>2 DEF BudgetInv, OverspendIsBounded, TotalCost
<1> QED
  BY <1>1, BudgetIsSound, TypeCorrect, PTL
=============================================================================
