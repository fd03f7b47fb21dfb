SPECIFICATION QuotaSpec
CONSTANTS
  c1 = c1
  c2 = c2
  u1 = u1
  u2 = u2
  r1 = r1
  r2 = r2
  Clients <- Addresses
  Host <- HostOf
  Users <- Credentials
  RelayAddrs <- RelayAddresses
  MaxTotal = 2
  MaxPerUser = 1
  MaxPerIP = 2
  Limit <- Limits
  EgressWindow = 2
  CleanupInterval = 1
  MaxPackets = 1
  MaxAllocations = 3
  MaxClock = 3
SYMMETRY Alike
CHECK_DEADLOCK FALSE
INVARIANTS QuotaHeld EgressIsMetered
