SPECIFICATION ReloadSpec
CONSTANTS
  Modes = {"manual", "auto"}
  Orders = {"key_first"}
  MaxVersion = 3
  MaxStarts = 2
INVARIANT ServedPairMatches
PROPERTY RenewalIsServed
CHECK_DEADLOCK FALSE
