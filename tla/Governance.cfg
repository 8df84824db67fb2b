SPECIFICATION GovernedSpec
CONSTANTS
  Actors = {a, b}
  Role <- AllArchitects
  Texts = {x, y}
  MaxCalls = 4
  MaxRev = 2
  Absent = Absent
  Proposals = {s1}
  Reviewers = {r1, r2}
  MaxBlocks = 3
  Words = {w1, w2}
  Draft = w1
  MaxEdits = 2
  Writers = {p1, p2}
  MaxComments = 3
  NoComment = NoComment
  Users = {m1, m2, m3}
  Grantable = {"OWNER", "ENGINEER"}
  Founders = {m1, m2}
  MaxChanges = 3
  NoRole = NoRole
  MaxItems = 2
  MaxStreams = 2
  Linkers = {l1, l2}
  MaxChangesOfPR = 2
  MaxDeliveries = 2
  NoLink = NoLink
  ahead = i1
  Replicas = {i1, i2}
  Requests = {q1, q2}
  Ahead <- OneAhead
  Skew = 1
  Capacity = 4
  Cost = 2
  TicksPerSecond = 2
  Headroom = 2
  MaxTime = 6
  Nobody = Nobody
SYMMETRY Symmetry
INVARIANTS
  HistoryHolds
  NothingApprovedUnreviewed
  OwnersRemain
  ThreadsStayWhole
  InboxIsCurrent
  LinksFollowPulls
  BudgetHolds
PROPERTIES
  DecisionsStand
CHECK_DEADLOCK FALSE
