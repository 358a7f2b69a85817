SPECIFICATION Spec
CONSTANTS
  ref_a = ref_a
  narration = narration
  shot_a = shot_a
  Idle = Idle
  Nodes <- MCNodes
  DependsOn <- MCDependsOn
  References <- MCReferences
  Timeline <- MCTimeline
  Cost <- MCCost
  Budget = 3
  Workers = {w1}
  Retriers = {r1, r2}
  Editors = {}
  Viewers = {}
  Bounds <- RetryRaceBounds
PROPERTIES
  SucceededIsKept
