\* Progress and the ledger: deaths of a job, failures at any step, the job timeout
\* after the commit, waits for row locks, two sources.
SPECIFICATION FairSpec
CONSTANTS
  cve1 = cve1
  cve2 = cve2
  leak = leak
  w1 = w1
  w2 = w2
  MaxScan = 2
  Workers = {w1, w2}
  Analysts = {a1}
  Fingerprints <- MCFingerprints
  SourceOf <- MCSourceOf
  Alertable <- MCAlertable
  Reports <- MCLiveReports
  NoReport = NoReport
  NoRequest = NoRequest
  MaxTriage = 1
  MaxKill = 1
  LateTimeout = TRUE
INVARIANT
  DecisionJournaled
PROPERTIES
  ImplementsLedger
  AcceptedScanEnds
CHECK_DEADLOCK FALSE
