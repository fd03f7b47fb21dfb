SPECIFICATION FairSpec
CONSTANTS
  Clients = {c1, c2}
  Records = {r1}
  NoRecord = NoRecord
  Cleaner = Cleaner
  Free = Free
  MaxClients = 2
  TTL = 1
  MaxTime = 1
  MaxHubs = 2
  MaxGen = 2
  MaxCrashes = 1
CHECK_DEADLOCK FALSE
INVARIANTS JoinedHubIsCurrent AcceptedIsDurable
PROPERTIES NoLostUpdate UpdateEnds ExpiredFileRemoved
