SPECIFICATION ServerSpec
CONSTANTS
  Updates = {a, b}
  Rooms = {r1, r2}
  CompactAfter = 2
  Sockets = {s1, s2}
  NoRoom = NoRoom
SYMMETRY Symmetry
INVARIANTS
  IInv
  LiveRoomHoldsStore
  FoldCoversTruncation
  CleanRoomIsFolded
  ServerTypeOK
  OneRoomAtATime
  MembersAreServed
PROPERTIES
  CommittedEditsSurvive
  ImplementsDocument
  OverlapOnlyFromTeardown
CHECK_DEADLOCK FALSE
