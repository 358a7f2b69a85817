SPECIFICATION Spec
CONSTANTS
  ref_a = ref_a
  narration = narration
  shot_a = shot_a
  Idle = Idle
  Nodes <- MCNodes
  DependsOn <- MCDependsOn
  References <- MCReferences
  Timeline <- MCTimeline
  Cost <- MCCost
  Budget = 3
  Workers = {w1, w2}
  Retriers = {r1}
  Editors = {e1}
  Viewers = {}
  Bounds <- RecoveryBounds
SYMMETRY Symmetry
INVARIANTS
  RendersOnce
  RendersAreCurrent
  CutIsCurrent
PROPERTIES
  SucceededIsKept
  HandedOffIsFrozen
  ImplementsLifecycle
