SPECIFICATION FairSpec
CONSTANTS
  fitted = fitted
  metering = metering
  spare = spare
  Meters = {fitted, metering, spare}
  Site = Site
  Line = Line
  Elsewhere = Elsewhere
  Standing <- MCStanding
  Telling = {metering, spare}
  Nobody = Nobody
  Nowhere = Nowhere
  Depth = 3
  HoursBack = 3
  Horizon = 4
  MaxMoves = 1
  MaxTroubles = 1
INVARIANTS HolesAreTheLines
PROPERTIES MisfiledOnlyBetweenTheReads ModemIsTheTruth EveryHourIsRead
