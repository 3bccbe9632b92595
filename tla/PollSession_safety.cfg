CONSTANTS
  Agents = {a1, a2}
  Cards = {c1}
  Workers = {w1, w2}
  Null = Null
  ClaimTimeout = 1
  CancelWindow = 1
  Overrunners = {a1, a2}
  MaxDisruptions = 2
SPECIFICATION Spec
SYMMETRY Symmetry
INVARIANTS OneCallPerCard LoserStops
