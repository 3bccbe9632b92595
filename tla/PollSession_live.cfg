CONSTANTS
  Agents = {a1, a2}
  Cards = {c1}
  Workers = {w1}
  Null = Null
  ClaimTimeout = 1
  CancelWindow = 1
  Overrunners = {}
  MaxDisruptions = 1
SPECIFICATION FairSpec
PROPERTIES RequestAnswered SlotAnswered
