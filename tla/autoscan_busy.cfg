\* No webhook, no scan on demand, no exception, no crash: the tick alone.
SPECIFICATION Spec
CONSTANTS
  image = image
  repo = repo
  Targets <- MCTargets
  Scheduled <- MCScheduled
  Watched <- MCWatched
  Hooks = {h1}
  Scheduler = scheduler
  Workers = {w1}
  MaxRequest = 0
  MaxAbort = 0
  MaxKill = 0
INVARIANT
  BusyMeansInFlight
CHECK_DEADLOCK FALSE
