SPECIFICATION Spec
CONSTANTS
  Recipients = {"plain", "digits", "newline", "nodomain"}
  Codes = {421, 450, 501, 535, 550, 553}
CHECK_DEADLOCK FALSE
INVARIANTS ResultMatchesServer CredentialsProtected
