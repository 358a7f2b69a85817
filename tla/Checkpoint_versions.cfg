SPECIFICATION Spec
CONSTANTS
  None = None
  Projects = {v1, v2, v3}
  Film = v1
  Contents = {good, bad}
  ValidContents = {good}
  Savers = {s1}
  Approvers = {a1, a2}
  Jobs = {j1, j2}
  MaxRevisions = 2
SYMMETRY Symmetry
INVARIANTS
  VersionsUnique
  SuccessorsOfApproved
  ApprovedIsValid
PROPERTIES
  LineageIsStable
CHECK_DEADLOCK FALSE
