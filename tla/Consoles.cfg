SPECIFICATION Spec
CONSTANTS
    Requests = {q1, q2}
    Texts = {0, 1}
    MaxWebTasks = 2
    MaxTuiTasks = 1
    MaxSessions = 2
    MaxEdits = 2
    MaxTaskPolls = 2
    MaxNotePolls = 1
    Overtakings = 1
INVARIANTS ActivitiesAreApart TypedIsKept
PROPERTY EditorSettles
CHECK_DEADLOCK FALSE
