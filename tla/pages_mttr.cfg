\* Scans close and reopen findings that the journal knows nothing of.
SPECIFICATION Spec
CONSTANTS
  Assets <- MCAssets
  Reports <- MCReports
  Published <- MCPublished
  BatchSize = 1
  Instants <- MCInstants
  Limit <- MCLimit
  Decisions <- MCDecisions
  Criticalities <- MCCriticalities
  MaxScan = 2
  MaxTriage = 2
  MaxBulk = 1
  MaxOutage = 0
  PageSizes = {2}
INVARIANT
  MttrCountsTheFixed
CHECK_DEADLOCK FALSE
