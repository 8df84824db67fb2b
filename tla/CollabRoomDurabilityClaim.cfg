SPECIFICATION ServerSpec
CONSTANTS
  Updates = {a, b}
  Rooms = {r1}
  CompactAfter = 1
  Sockets = {s1}
  NoRoom = NoRoom
PROPERTIES
  NoCommittedEditIsEverLost
CHECK_DEADLOCK FALSE
