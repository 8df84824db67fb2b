SPECIFICATION Spec
CONSTANTS
  Clients = {a, b}
  MaxEdits = 1
  MaxConnects = 2
  MaxRestarts = 0
SYMMETRY Symmetry
INVARIANTS
  AttachedConverge
CHECK_DEADLOCK FALSE
