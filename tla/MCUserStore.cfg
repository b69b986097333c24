SPECIFICATION Spec
CONSTANTS
  None = None
  Emails = {demo, e1, e2}
  DefaultAdmin = demo
  Roles = {"admin", "viewer"}
  Names = {"", "n"}
  Passwords = {"p"}
  Accounts = {a1, a2, a3}
SYMMETRY Symmetry
INVARIANTS
  OneKeyPerAccount
  AnsweredMeansSaved
  DeletedStaysDeleted
PROPERTY LedgerSpec
CHECK_DEADLOCK FALSE
