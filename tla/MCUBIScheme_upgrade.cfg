SPECIFICATION Spec
CONSTANTS
  NoScheme = noScheme
  ThisScheme = thisScheme
  OtherScheme = otherScheme
  InitialAward = 1
  AwardAmounts = {1}
  Users = {u1}
  Hour = 1
  Day = 2
  Noon = 1
  MaxInactiveDays = 1
  InitialCycleLength = 0
  CycleLengths = {1}
  PeriodStart = 0
  PeriodEnd = 3
  UpgradeAward = 2
  Deposits = {1}
  MaxFunds = 2
  MaxTime = 4
PROPERTY
  UpgradeMovesOldFunds
