SPECIFICATION StartedSpec
CONSTANTS
  NoScheme = noScheme
  ThisScheme = thisScheme
  OtherScheme = otherScheme
  InitialAward = 1
  AwardAmounts = {1}
  Users = {u1, u2}
  Hour = 1
  Day = 2
  Noon = 1
  MaxInactiveDays = 1
  InitialCycleLength = 2
  CycleLengths = {1}
  PeriodStart = 0
  PeriodEnd = 6
  UpgradeAward = 2
  Deposits = {6}
  MaxFunds = 7
  MaxTime = 6
SYMMETRY UserSymmetry
INVARIANT
  TotalClaimsTracked
