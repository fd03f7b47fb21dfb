SPECIFICATION FairSpec
CONSTANTS
  Size <- OneFile
  SenderPipes = 3
  ReceiverPipes = 3
  Striping = {TRUE}
  Policies = {"overwrite", "skip", "rename"}
  Existing <- Lookalikes
  Leftover <- Foreign
  Edits <- Rewritten
  MaxChunk = 2
  MaxCopies = 2
  MaxAttempts = 2
  MaxBreaks = 1
  MaxCrashes = 0
  MaxEdits = 1
CHECK_DEADLOCK FALSE
INVARIANTS FinalIsWhole SuccessMeansDelivered
PROPERTY TransferEnds
