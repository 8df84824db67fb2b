SPECIFICATION ExportSpec
CONSTANTS
  d1 = d1
  d2 = d2
  d3 = d3
  d4 = d4
  Sheets = {d1, d2}
  Couplings <- Pair
  HopLimit = 2
  Statuses = {"DRAFT", "APPROVED"}
  NoStatus = NoStatus
  MaxUpsets = 2
  MaxExports = 1
INVARIANTS
  ExportShowsLiveStatus
CHECK_DEADLOCK FALSE
