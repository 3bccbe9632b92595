SPECIFICATION Spec
CONSTANTS
  Forever = 99
  DayLength = 2
  ContractHour = 1
  Meters = {1, 2}
  Histories <- MCHistories
  FirstHistory <- FirstLine
  SetBack = {0}
  api = api
  scheduler = scheduler
  Workers = {api, scheduler}
  Idle = Idle
  Stale = 1
  ChunkDays = 1
  PurgeRanges <- MCRanges
  Horizon = 4
  MaxJobs = 3
  MaxTroubles = 1
SYMMETRY Alike
INVARIANTS MarkedDayIsSummed SumIsOfItsHours LineHasNoHole
PROPERTIES InitIsExact
CHECK_DEADLOCK FALSE
