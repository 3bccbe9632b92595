CONSTANTS
  site = site
  central = central
  Servers = {site, central}
  d1 = d1
  d2 = d2
  Null = Null
  FromFile = FromFile
  New = New
  Moments = {1, 2}
  Devices = {d1, d2}
  Start <- MCStart
  Histories <- MCHistories
  BranchNames = {1, 3}
  LumgNames = {1, 3}
  CalcNames = {1, 2}
  Addresses = {1, 2, 3}
  LineNos = {1, 2}
  MaxEdits = 1
  MaxSteps = 5
SPECIFICATION TransferSpec
INVARIANTS ImportCarries SecondImportIsSilent LeftoversAreTold
PROPERTIES OthersUntouched
CHECK_DEADLOCK FALSE
