SPECIFICATION Spec
CONSTANTS
  p = p
  q = q
  Refs = {p, q}
  Links <- OneLink
  Plans <- TwoPlans
  Runners = {i, k}
  Attempts = 2
  MaxRuns = 2
  MaxTroubles = 2
  None = None
SYMMETRY Symmetry
INVARIANTS
  OneDocumentPerRef
CHECK_DEADLOCK FALSE
