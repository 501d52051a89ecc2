\* RQ's job timeout may strike between the commit and the end of the job.
SPECIFICATION Spec
CONSTANTS
  cve1 = cve1
  cve2 = cve2
  leak = leak
  w1 = w1
  w2 = w2
  MaxScan = 3
  Workers = {w1}
  Analysts = {a1}
  Fingerprints <- MCTrivyOnly
  SourceOf <- MCSourceOf
  Alertable <- MCAlertable
  Reports <- MCRacingReports
  NoReport = NoReport
  NoRequest = NoRequest
  MaxTriage = 0
  MaxKill = 1
  LateTimeout = TRUE
INVARIANT
  NoTraceUnlessPublished
CHECK_DEADLOCK FALSE
