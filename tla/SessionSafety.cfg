SPECIFICATION Spec
CONSTANTS
  s1 = s1
  s2 = s2
  a1 = a1
  a2 = a2
  r1 = r1
  short = short
  long = long
  Senders = {s1, s2}
  Aliases = {a1, a2}
  AutoForward = {a1}
  Mappings = {r1}
  Authorized <- MCAuthorized
  Lines = {short, long}
  Bytes <- MCBytes
  MaxMemory = 3
  MaxTotal = 6
  WriterCap = 2
  MaxLines = 3
  MaxMails = 2
CHECK_DEADLOCK FALSE
INVARIANTS NeverPanics FiledUnderRecipient WholeBodyKept RelayIsAuthorized
