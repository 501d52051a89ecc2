SPECIFICATION FairSpec
CONSTANTS
  f1 = f1
  f2 = f2
  f3 = f3
  r1 = r1
  r2 = r2
  w1 = w1
  Findings <- MCFindings
  SourceOf <- MCSourceOf
  Names <- MCNames
  Requests = {r1, r2}
  Process <- MCProcess
  Workers = {w1}
  OpsOf <- MCOpsOf
  Known <- MCKnown
  MaxFail = 1
  Job = w1
  Target <- MCTarget
  ReportOf <- MCReportOf
  WithCve = {"trivy"}
  DastEnabled = FALSE
  MaxKill = 1
INVARIANTS
  TypeOK
  DeadlockNeedsAScan
  CreatedOnce
  SuccessMeansScanned
  LeftoversHaveACause
PROPERTIES
  IsOneFlight
  EveryWaitEnds
CHECK_DEADLOCK FALSE
