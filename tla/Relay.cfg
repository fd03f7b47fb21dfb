SPECIFICATION FairSpec
CONSTANTS
  Count = 2
  SenderAttempts = 2
  ReceiverAttempts = 2
CHECK_DEADLOCK FALSE
INVARIANTS ServerKeepsPairs LivePipesAreCurrent
PROPERTY PeersEnd
