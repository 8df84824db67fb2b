SPECIFICATION GenerationSpec
CONSTANTS
  p = p
  q = q
  Refs = {p, q}
  Links <- OneLink
  Plans <- TwoPlans
  Runners = {i, k}
  Attempts = 2
  MaxRuns = 2
  MaxTroubles = 2
  None = None
  MaxFiles = 3
  Markdown = {1, 2}
  SlugOf <- SameSlug
  MaxIngests = 2
  MaxPushes = 1
  MaxCrashes = 1
  Nothing = Nothing
  Cards = {c1, c2}
  MaxSteps = 2
  MaxTurns = 2
  MaxMoves = 4
  Passages = {b1, b2}
  MaxRefines = 2
  MaxSelects = 2
  MaxSuggested = 2
  NoPassage = NoPassage
  Drafts = {d1, d2}
  MaxOpens = 3
INVARIANTS
  RecordIsTrue
  ImportHolds
  RefinementsFit
PROPERTIES
  RecordsStay
  ProposalsRunOnce
  DraftsAreWhole
CHECK_DEADLOCK FALSE
