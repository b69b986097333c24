SPECIFICATION Spec
CONSTANTS
  None = None
  Tabs = {t1, t2, t3}
SYMMETRY Symmetry
INVARIANTS
  TypeOK
  StaysOut
PROPERTY StaysIn
