SPECIFICATION Spec
CONSTANTS
  None = None
  Calls = {c1, c2}
  Pages = {p1, p2}
  Tokens = {t1, t2, t3, t4}
SYMMETRY Symmetry
INVARIANTS
  WrittenOnce
  RetryRepairs
PROPERTY CallsComeToAnEnd
