SPECIFICATION RotationSpec
CONSTANTS
  Requests = {r1, r2}
  MaxKeys = 4
INVARIANTS SignaturesVerify PendingElsewhere
