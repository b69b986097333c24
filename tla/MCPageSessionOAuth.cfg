SPECIFICATION Spec
CONSTANTS
  None = None
  Tabs = {t1}
PROPERTY SignInClearsFlag
