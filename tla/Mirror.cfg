SPECIFICATION Spec
CONSTANTS
  Contents = {c1, c2}
  Writers = {w1, w2}
  Owner = owner
  None = None
  MaxWrites = 4
  MaxOutages = 1
SYMMETRY Symmetry
INVARIANTS
  MirrorsConverge
  HistoryHolds
PROPERTIES
  MirrorHeals
CHECK_DEADLOCK FALSE
