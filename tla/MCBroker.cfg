SPECIFICATION Spec
CONSTANTS
  Clients = {c1, c2}
  Prompt = {}
  RingSize = 3
  ChanCap = 2
  MaxTicks = 5
SYMMETRY Symmetry
INVARIANTS
  RingHoldsLatest
  FeedInOrder
  FirstSnapshotsKept
  StepBackBounded
PROPERTY FeedSpec
