SPECIFICATION FairSpec
CONSTANTS
  s1 = s1
  s2 = s2
  r1 = r1
  l1 = l1
  Endpoints = {s1, s2, r1, l1}
  RoleOf <- Rivals
  TTL = 0
  MaxPending = 1
  Capacity = 3
  MaxTime = 1
  MaxRooms = 3
  MaxConns = 3
CHECK_DEADLOCK FALSE
INVARIANTS NoSendOnClosedQueue SignalsStayInGeneration RoomsAreSound
PROPERTY ExpiredRoomsCloseUnlessEvicted
