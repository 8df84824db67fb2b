SPECIFICATION FairServerSpec
CONSTANTS
  Updates = {a, b, c}
  Rooms = {r1}
  CompactAfter = 3
  Sockets = {s1, s2}
  NoRoom = NoRoom
PROPERTIES
  WaitingEnds
  EditsReachStore
  IdleRoomsFold
CHECK_DEADLOCK FALSE
