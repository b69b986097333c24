SPECIFICATION OscSpec
CONSTANTS
  RingSize = 4
  Window = 3
  Samples <- MCSamples
  MemTotal = 500
  IntMax = 100000
INVARIANT WindowFits
