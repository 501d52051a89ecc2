\* Two workers on the same queue, whose transactions meet on the same rows.
SPECIFICATION Spec
CONSTANTS
  cve1 = cve1
  cve2 = cve2
  leak = leak
  w1 = w1
  w2 = w2
  MaxScan = 3
  Workers = {w1, w2}
  Analysts = {a1}
  Fingerprints <- MCTrivyOnly
  SourceOf <- MCSourceOf
  Alertable <- MCAlertable
  Reports <- MCRacingReports
  NoReport = NoReport
  NoRequest = NoRequest
  MaxTriage = 0
  MaxKill = 1
  LateTimeout = FALSE
INVARIANTS
  OnePlacePerScan
  OneAlertPerFinding
  NoTraceUnlessPublished
SYMMETRY WorkerSymmetry
CHECK_DEADLOCK FALSE
