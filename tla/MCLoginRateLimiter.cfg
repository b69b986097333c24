SPECIFICATION Spec
CONSTANTS
  IPs = {ip1, ip2}
  maxAttempts = 2
  Window = 2
  SweepEvery = 4
  MaxTime = 7
  MaxTries = 3
  None = None
SYMMETRY Symmetry
INVARIANTS
  AtMostTwoBuckets
  LockoutEnds
  BucketsAreRecent
PROPERTY JanitorInvisible
CHECK_DEADLOCK FALSE
