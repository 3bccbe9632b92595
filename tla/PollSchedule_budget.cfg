CONSTANTS
  RetryPause = 1
  MaxAttemptsPerSlot = 2
  FailureWindow = 5
  Lookback = 20
  ClaimTimeout = 2
  Crons <- Daily
  Null = Null
  Horizon = 7
  MaxPresses = 2
  MaxWithdrawals = 1
  MaxLosses = 1
  MaxEdits = 1
SPECIFICATION Spec
INVARIANTS SlotSettled RequestOnce
CHECK_DEADLOCK FALSE
