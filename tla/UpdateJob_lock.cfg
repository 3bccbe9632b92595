CONSTANTS
  Runs = {r1, r2, r3}
  Null = Null
  StaleSeconds = 2
  MaxTroubles = 3
SPECIFICATION Spec
INVARIANTS FitRunOwns SweepIsSafe
PROPERTIES IsALease
CHECK_DEADLOCK FALSE
