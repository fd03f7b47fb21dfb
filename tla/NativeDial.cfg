SPECIFICATION Spec
CONSTANTS
  Sender = Sender
  Receiver = Receiver
  Candidates = {"c1"}
  LANCandidates = {"c1", "c2"}
  Crossing = TRUE
INVARIANTS NothingLeftOpen RoutesMatch
