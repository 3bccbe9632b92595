CONSTANTS
  f1 = f1  f2 = f2  p1 = p1  p2 = p2
  Files = {f1, f2}
  Paths = {p1, p2}
  PathOf <- TwoPaths
  None = None
  RetryAfter = 1
  ForgetAfter = 2
  Kinds = {"whole", "cut"}
  MaxCopies <- Recopied
  MaxTroubles = 1
SPECIFICATION FairSpec
INVARIANTS OnlyBlamedAreShutOut
PROPERTIES AgainElsewhere EveryArchiveIsRead
