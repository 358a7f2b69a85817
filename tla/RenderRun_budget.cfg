SPECIFICATION Spec
CONSTANTS
  ref_a = ref_a
  narration = narration
  shot_a = shot_a
  Idle = Idle
  Nodes <- PairNodes
  DependsOn <- PairDependsOn
  References <- PairDependsOn
  Timeline <- PairNodes
  Cost <- PairCost
  Budget = 2
  Workers = {w1, w2}
  Retriers = {r1}
  Editors = {}
  Viewers = {v1}
  Bounds <- BudgetBounds
SYMMETRY Symmetry
INVARIANTS
  OverspendIsBounded
  LastFrameHasCut
