SPECIFICATION Spec
CONSTANTS
  Requests = {r1, r2}
  Texts = {t1, t2}
  MaxRows = 1
  MaxKeys = 3
  FaultKinds = {"db", "io"}
  MaxFaults = 1
SYMMETRY RequestSymmetry
CHECK_DEADLOCK FALSE
INVARIANTS RowsHaveTheirText SentIsOnRecord
PROPERTY SettledIsFrozen
