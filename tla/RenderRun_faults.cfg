SPECIFICATION Spec
CONSTANTS
  ref_a = ref_a
  narration = narration
  shot_a = shot_a
  Idle = Idle
  Nodes <- ChainNodes
  DependsOn <- ChainDependsOn
  References <- ChainDependsOn
  Timeline <- ChainNodes
  Cost <- ChainCost
  Budget = 2
  Workers = {w1, w2}
  Retriers = {r1, r2}
  Editors = {}
  Viewers = {}
  Bounds <- FaultBounds
SYMMETRY Symmetry
INVARIANTS
  NoLostDispatch
  InputsReady
  HandedOffOnce
