SPECIFICATION Spec
CONSTANTS
  IPs = {ip1}
  maxAttempts = 2
  Window = 3
  SweepEvery = 6
  MaxTime = 6
  MaxTries = 3
  None = None
INVARIANT SlidingWindow
CHECK_DEADLOCK FALSE
