---------------------------- MODULE MCRenderRun ----------------------------
(***************************************************************************)
(* RenderRun on the package of services/scheduler/tests/test_daemon.py: a  *)
(* reference image, a narration, and a clip that waits for the image.      *)
(***************************************************************************)
EXTENDS RenderRun, TLC

CONSTANTS ref_a, narration, shot_a

MCNodes == {ref_a, narration, shot_a}
MCDependsOn == (ref_a :> {}) @@ (narration :> {}) @@ (shot_a :> {ref_a})
MCReferences == MCDependsOn
MCTimeline == {narration, shot_a}
MCCost == [n \in MCNodes |-> 1]

\* Two nodes that wait for nothing, so that one tick checks and sends both.
PairNodes == {ref_a, narration}
PairDependsOn == [n \in PairNodes |-> {}]
PairCost == [n \in PairNodes |-> 1]

\* A clip and the image it waits for.
ChainNodes == {ref_a, shot_a}
ChainDependsOn == (ref_a :> {}) @@ (shot_a :> {ref_a})
ChainCost == [n \in ChainNodes |-> 1]

UpTo(most) ==
  [k \in BoundedKinds |-> IF k \in DOMAIN most THEN most[k] ELSE 0]

\* A user retries and edits while renders fail, billed or not.
RecoveryBounds == UpTo([retry |-> 1, edit |-> 1, providerFailure |-> 2])

\* The broker fails; two users retry at once.
FaultBounds == UpTo([retry |-> 2, providerFailure |-> 1, sendFailure |-> 1,
                     lateSendFailure |-> 1, redelivery |-> 1])

\* A user retries once, and a worker or the compositor dies and comes back.
LiveBounds == UpTo([retry |-> 1, providerFailure |-> 1, sendFailure |-> 1, taskCrash |-> 1])

\* Renders are paid for and fail; the daemon and the compositor are cut off.
BudgetBounds == UpTo([retry |-> 2, providerFailure |-> 4, daemonAbort |-> 1,
                      handoffFailure |-> 1, compositeFailure |-> 1])

\* Two retries at once, one failed render.
RetryRaceBounds == UpTo([retry |-> 2, providerFailure |-> 1])

Symmetry == Permutations(Workers)
=============================================================================
