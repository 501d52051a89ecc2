SPECIFICATION Spec
CONSTANTS
  Ids <- MCIds
  Statuses = {"open", "fixed"}
  Chips = {"fixed"}
  ScannerOf <- MCScannerOf
  PageSize = 1
  MaxClick = 2
  MaxCommit = 1
  MaxOutage = 1
  ana = ana
  bob = bob
  Analysts = {ana, bob}
SYMMETRY MCSymmetry
INVARIANTS
  TypeOK
  TableMatchesFilters
  RowsFitCount
  OneExplanation
PROPERTIES
  TicksSurvive
CHECK_DEADLOCK FALSE
