SPECIFICATION MCSpec
CONSTANTS
  None = None
  a1 = a1
  a2 = a2
  j1 = j1
  j2 = j2
  good = good
  better = better
  Projects = {v1, v2, v3}
  Film = v1
  Contents = {good, better}
  ValidContents = {good, better}
  Savers = {}
  Approvers = {a1, a2}
  Jobs = {j1, j2}
  MaxRevisions = 2
INVARIANTS
  AssetsMatchSpec
PROPERTIES
  ApprovedIsImmutable
  ApproveAnswers
  RevisionLands
CHECK_DEADLOCK FALSE
