CONSTANTS
  LastVersion = 2
  Migrates = {1, 2}
  Rebuilds = {2}
  Edited = {"backend"}
  Null = Null
  Torn = Torn
  MaxJobs = 2
  MaxTroubles = 3
  MaxWrites = 1
SPECIFICATION Spec
INVARIANTS OutcomeIsTrue NoSilentLoss SchedulerKnowsSchema
CHECK_DEADLOCK FALSE
