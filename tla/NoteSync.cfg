SPECIFICATION Spec
CONSTANTS
  Stores = {s1, s2}
  Interactive = {s2}
  Returning = {s1}
  Attempts = 2
  Edits = 2
  Clock = {1}
  Texts = {0, 1}
  Depth = 2
  Faults = 1
CHECK_DEADLOCK FALSE
INVARIANTS ConvergedTogether QuietIsSettled ShownIsOwn DraftKeepsEdits
