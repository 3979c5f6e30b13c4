CONSTANTS
  a = a
  b = b
  r1 = r1
  None = None
  Room = {r1}
  Guest = {a, b}
  MaxRooms = 1
  MaxCalls = 1
  MaxGenerations = 2
  MaxFailures = 1
SPECIFICATION FairSpec
INVARIANTS
  GuestTypeOK
  NewCallIsSpared
PROPERTIES
  OccupiedRoomIsKept
  CallEndsWithRoom
CHECK_DEADLOCK FALSE
