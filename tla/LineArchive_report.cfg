SPECIFICATION ArchiveSpec
CONSTANTS
  Forever = 99
  DayLength = 4
  ContractHour = 2
  Lines = {"ref", "line"}
  References = {"ref"}
  Rings <- CRings
  Logs <- CLogs
  Plausible = {1, 2, 3}
  Twice = {4}
  Hollow = {6}
  StaleAfter = 3
  Clock = 8
  Clearings <- CClearings
  MaxExports = 2
  MaxRuns = 2
  MaxPurges = 1
INVARIANTS ReportIsTheRecord DaysAddUp ReportedIsFinal
CHECK_DEADLOCK FALSE
