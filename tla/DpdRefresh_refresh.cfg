CONSTANTS
  a = a
  Devices = {a}
  Branch <- MCBranch
  Runners = {sched, web}
  Scheduler = sched
  Idle = Idle
  Stale = 1
  ChunkDays = 1
  DefaultTimes = {2}
  Chosen <- MCChosen
  Horizon = 6
  Forever = 100
  DayLength = 3
  ContractHour = 2
  MaxRuns = 2
  MaxTroubles = 1
SPECIFICATION Spec
INVARIANTS OneRun HolesAreBlamed
PROPERTIES CatchesUp RereadCloses
CHECK_DEADLOCK FALSE
