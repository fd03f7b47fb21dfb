SPECIFICATION PathSpec
CONSTANTS
  w1 = w1
  w2 = w2
  Workers <- TwoWorkers
  Depth = 1
  Streams = 2
  Weight <- Weights
  Quantum = 2
  Length <- Lengths
  Resumed <- Prefixes
CHECK_DEADLOCK FALSE
INVARIANTS DeficitBounded NobodyStarves RangesAreExact SuccessMeansComplete
PROPERTIES ImplementsDelivery SenderEnds
