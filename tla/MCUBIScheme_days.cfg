SPECIFICATION StartedSpec
CONSTANTS
  NoScheme = noScheme
  ThisScheme = thisScheme
  OtherScheme = otherScheme
  InitialAward = 1
  AwardAmounts = {1}
  Users = {u1, u2}
  Hour = 2
  Day = 4
  Noon = 2
  MaxInactiveDays = 1
  InitialCycleLength = 2
  CycleLengths = {1}
  PeriodStart = 0
  PeriodEnd = 12
  UpgradeAward = 2
  Deposits = {6}
  MaxFunds = 7
  MaxTime = 16
SYMMETRY UserSymmetry
INVARIANTS
  NoUserCountedTwice
  CycleIsFunded
  CycleOverrunsByOneDay
  ClaimRecordsAgree
PROPERTIES
  FishedAfterInactivity
  ShareFixedForTheDay
  PoolFixedForTheCycle
