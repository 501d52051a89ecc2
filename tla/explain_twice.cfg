\* Two analysts open the drawer of one finding.
SPECIFICATION Spec
CONSTANTS
  Ids <- MCIds
  Statuses = {"open", "fixed"}
  Chips = {"fixed"}
  ScannerOf <- MCScannerOf
  PageSize = 1
  MaxClick = 0
  MaxCommit = 0
  MaxOutage = 0
  ana = ana
  bob = bob
  Analysts = {ana, bob}
INVARIANT
  ExplainedOnce
CHECK_DEADLOCK FALSE
