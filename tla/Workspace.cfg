SPECIFICATION WorkspaceSpec
CONSTANTS
  Docs = {d, e}
  BodyTexts = {t}
  MaxWrites = 2
  NoBody = NoBody
  MaxChars = 3
  MaxRetypes = 2
  Callers = {u1, u2}
  Bases = {s}
  OwnerNames = {o}
  TemplateSize = 2
  MaxDocs = 3
  MaxTreeCalls = 4
  NoDoc = NoDoc
  Entries = {e1, e2}
  Values = {v}
  Tickets = {t1, t2}
  MaxMutations = 4
  NoEntry = NoEntry
  Servers = {k1, k2}
  Clients = {c1, c2}
  Edits = {x1, x2}
  MaxRooms = 3
  MaxLost = 1
  MaxBlocks = 2
  Phrases = {w1, w2}
  EmbedRuns = {r1, r2}
  MaxSaves = 2
  NoText = NoText
  d1 = d1
  d2 = d2
  d3 = d3
  d4 = d4
  q1 = q1
  q2 = q2
  Specs = {d1, d2, d3}
  Queries = {q1, q2}
  Blank = Blank
  TextOrder <- WordsFind
  ChunkOrder <- ChunksFind
  MaxMoves = 2
  MaxTurns = 1
  NoAnswer = NoAnswer
  Damping = 60
  TextLimit = 40
  ChunkLimit = 60
  ResultLimit = 20
  Sheets = {d1, d2, d3, d4}
  Couplings <- Web
  HopLimit = 3
  Statuses = {"DRAFT", "APPROVED"}
  NoStatus = NoStatus
  MaxUpsets = 1
  MaxExports = 1
  Papers = {d1, d2, d3}
  Refers <- Ring
  Bulks = {1, 4}
  Passage = 1
  HitOrder <- Found
  Hops = 2
  Budget = 10
  PerItem = 3
  Overhead = 1
  Clipped = 1
  MaxNotes = 1
  MaxRewrites = 1
  MaxJobs = 2
  MaxPolls = 2
  MaxEffects = 5
  ChordTimeout = 2
  MaxPresses = 5
  MaxClock = 4
  MaxTravels = 1
  n1 = n1
  n2 = n2
  n3 = n3
  NodeRefs = {n1, n2, n3}
  NoParent = NoParent
  MaxNodes = 3
  Wished <- SomeEdges
  BlockIds = {i1, i2}
  NoId = NoId
  Wordings = {"x", "y"}
  MaxOfVersion = 3
INVARIANTS
  AnchorsHold
  TreeHolds
  ReplicasConverge
  KeysReachTheirCommand
  ShownIsCurrent
  FoundIsCurrent
  GivenOutIsWhole
  DerivedIsExact
PROPERTIES
  BodiesHoldTogether
CHECK_DEADLOCK FALSE
