SPECIFICATION Spec
CONSTANTS
  Users = {admin, u1}
  Admin = admin
  Browsers = {b1}
  Requests = {q1, q2}
  Forwards = {f1, f2}
  AliasIds = {a1, a2}
  Names = {n1, n2, n3}
  Reserved = {n3}
  Domains = {d1}
  Senders = {s1}
  Keys = {k1}
  MaxAliases = 1
  MaxLogins = 2
  MaxUses = 4
  FaultKinds = {"db", "crash"}
  MaxFaults = 1
  None = None
SYMMETRY RequestSymmetry
CHECK_DEADLOCK FALSE
INVARIANTS
  ActsForItsSender
  AliasLimit
  TokensKeepTheirMeaning
