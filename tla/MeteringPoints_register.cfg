CONSTANTS
  Points = {p1, p2}
  d1 = d1
  d2 = d2
  Devices = {d1, d2}
  Sessions = {s1, s2}
  Names = {1, 2}
  Null = Null
  Histories <- MCHistories
  Epoch = 0
  Horizon = 10
  Forever = 100
  DayLength = 4
  ContractHour = 2
  MaxRequests = 2
  MaxFiles = 1
SPECIFICATION Spec
SYMMETRY Symmetry
INVARIANTS OneDeviceAtATime DailyReadIsAttribution
PROPERTIES FreshEditKeepsPlaces FreshEditIsExact PurgeIsWhole RoundTripKeeps
CHECK_DEADLOCK FALSE
