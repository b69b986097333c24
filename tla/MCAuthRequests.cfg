SPECIFICATION ReqSpec
CONSTANTS
  None = None
  Emails = {demo, e1, e2}
  DefaultAdmin = demo
  Roles = {"admin", "operator", "viewer"}
  Names = {""}
  Passwords = {"p"}
  Accounts = {a1, a2, a3}
  Workers = {w1, w2}
SYMMETRY Symmetry
INVARIANTS
  AdminSurvives
CHECK_DEADLOCK FALSE
