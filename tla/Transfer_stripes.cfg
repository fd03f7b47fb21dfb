SPECIFICATION Spec
CONSTANTS
  Size <- TwoFiles
  SenderPipes = 3
  ReceiverPipes = 3
  Striping = {TRUE, FALSE}
  Policies = {"overwrite"}
  Existing <- NoContents
  Leftover <- Foreign
  Edits <- NoContents
  MaxChunk = 1
  MaxCopies = 0
  MaxAttempts = 2
  MaxBreaks = 1
  MaxCrashes = 1
  MaxEdits = 0
CHECK_DEADLOCK FALSE
INVARIANTS NoRefusal PartIsSource
