SPECIFICATION GuardSpec
CONSTANTS
  IPs = {i1, i2, i3}
  Listed = {i3}
  Sessions = {s1, s2}
  TarpitThreshold = 2
  BlockThreshold = 3
  MaxAge = 2
  MaxWriteErrors = 1
  MaxRestarts = 2
  MaxFailures = 4
INVARIANTS NeverUndercounts BlocksAreOnFile
