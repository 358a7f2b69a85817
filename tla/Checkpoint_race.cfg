SPECIFICATION Spec
CONSTANTS
  None = None
  Projects = {v1}
  Film = v1
  Contents = {good, better}
  ValidContents = {good, better}
  Savers = {s1}
  Approvers = {a1}
  Jobs = {}
  MaxRevisions = 0
PROPERTIES
  ApprovedIsImmutable
CHECK_DEADLOCK FALSE
