SPECIFICATION FairSpec
CONSTANTS
  Messages = {m1, m2}
  Nodes = {n1}
  Origin <- MCOrigin
  MaxAttempts = 3
  Limit = 1
  TickSteps <- MCTickSteps
  OverdueCap = 10
  FaultKinds = {"crash", "db", "io", "hang"}
  MaxFaults = 2
INVARIANTS TypeOK UndeliveredIsKept AttemptsBounded TriesWithinBudget
PROPERTIES KeepsPromise EveryJobSettles
