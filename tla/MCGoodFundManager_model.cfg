SPECIFICATION Spec
CONSTANTS
  s1 = s1
  s2 = s2
  Stakers <- MCStakers
  DAIAmounts = {1, 6}
  StakeInterval = 1
  MaxStaked = 7
  MaxRate = 2
  MaxBlock = 2
  MaxWeight = 4
  RatioWord = 8
  OneGD = 1
  InitialSupply = 2
  InitialReserve = 4
  Expansions <- MCExpansions
  MaxSupply = 8
  MaxReserve = 7
  PurchaseReturn <- MCPurchaseReturn
  SaleReturn <- MCSaleReturn
  InitialInterval = 1
  Intervals = {2}
  ContributionRatios <- MCContributionRatios
  DonationRatio = 2
  CDaiAmounts = {2}
  GDAmounts = {2, 3}
INVARIANTS
  TypeOK
PROPERTIES
  CurveStaysValid
  PrincipalIsKept
  BackingIsKept
  SupplyFollowsToken
CONSTRAINT Bound
SYMMETRY MCSymmetry
