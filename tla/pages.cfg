SPECIFICATION Spec
CONSTANTS
  Assets <- MCAssets
  Reports <- MCReports
  Published <- MCPublished
  BatchSize = 1
  Instants <- MCInstants
  Limit <- MCLimit
  Decisions <- MCDecisions
  Criticalities <- MCCriticalities
  MaxScan = 2
  MaxTriage = 2
  MaxBulk = 1
  MaxOutage = 1
  PageSizes = {2}
INVARIANTS
  TypeOK
  OpenCountsAgree
  ThreatCountsAgree
  OverdueAgree
  
  RankingsAgree
  PagesPartition
  DatesAgree
  ComplianceIsWhatWasFlagged
  OneRowPerIdentity
PROPERTIES
  PastFlowOnlyMoves
  HygieneRisesByRepair
  RiskFallsOnlyByNews
CHECK_DEADLOCK FALSE
