SPECIFICATION Spec
CONSTANTS
  m1 = m1
  m2 = m2
  m3 = m3
  p1 = p1
  a1 = a1
  a2 = a2
  admin = admin
  user = user
  None = None
  Mails = {m1, m2, m3}
  Replies = {p1}
  Present = {m1}
  Aliases = {a1, a2}
  q1 = q1
  q2 = q2
  Requests = {q1, q2}
  AliasOf <- MCAliasOf
  UserOf <- MCUserOf
  Author <- MCAuthor
  Refs <- MCRefs
  Attached = {m2, p1}
  Admins = {admin}
  FaultKinds = {"db", "io", "crash"}
  MaxFaults = 1
  MaxUses = 2
SYMMETRY RequestSymmetry
INVARIANTS MailIsComplete EveryMailIsReachable ConversationsStayTogether ReadMeansShown
PROPERTY RetentionSparesKeptMail
