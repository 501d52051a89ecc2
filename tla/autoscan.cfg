SPECIFICATION FairSpec
CONSTANTS
  image = image
  repo = repo
  Targets <- MCTargets
  Scheduled <- MCScheduled
  Watched <- MCWatched
  Hooks = {h1}
  Scheduler = scheduler
  Workers = {w1}
  MaxRequest = 1
  MaxAbort = 1
  MaxKill = 1
INVARIANTS
  TypeOK
  BusyUnlessStranded
  OneCronJob
PROPERTIES
  ImplementsLife
  DueTargetIsScanned
CHECK_DEADLOCK FALSE
