SPECIFICATION FairSpec
CONSTANTS
  c1 = c1
  c2 = c2
  Clients = {c1, c2}
  Prompt = {c1}
  RingSize = 2
  ChanCap = 1
  MaxTicks = 3
PROPERTIES
  LoopNeverStalls
  GoneIsUnsubscribed
  QueuedIsFed
