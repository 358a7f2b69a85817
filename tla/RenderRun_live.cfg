SPECIFICATION FairSpec
CONSTANTS
  ref_a = ref_a
  narration = narration
  shot_a = shot_a
  Idle = Idle
  Nodes <- MCNodes
  DependsOn <- MCDependsOn
  References <- MCReferences
  Timeline <- MCTimeline
  Cost <- MCCost
  Budget = 3
  Workers = {w1}
  Retriers = {r1}
  Editors = {}
  Viewers = {}
  Bounds <- LiveBounds
PROPERTIES
  ReadyIsDispatched
  DispatchLands
  FinishedIsCut
  StalledIsBlocked
