SPECIFICATION Spec
CONSTANTS
    Procs = {p1, p2}
    Pads = {1, 2}
    DraftKeys = {"k1", "k2"}
    Scopes = {1, 2}
    MaxItems = 1
    MaxDrafts = 1
    MaxProfiles = 1
    Threshold = 2
    Cooldown = 1
    TTL = 1
    Calls = 3
    MaxClock = 2
    Faults = 1
INVARIANTS KeptStays DeferIsEarned
PROPERTY CallsReturn
CHECK_DEADLOCK FALSE
