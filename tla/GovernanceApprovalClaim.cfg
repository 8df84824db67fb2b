SPECIFICATION Spec
CONSTANTS
  Actors = {a, b}
  Role <- AllArchitects
  Texts = {x, y}
  MaxCalls = 4
  MaxRev = 2
  Absent = Absent
SYMMETRY Symmetry
INVARIANTS
  ApprovedAsReviewed
CHECK_DEADLOCK FALSE
