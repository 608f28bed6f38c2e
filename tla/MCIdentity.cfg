SPECIFICATION Spec
CONSTANTS
  Accounts = {deployer, u1, u2}
  Zero = zero
  DIDs = {noDID, d1}
  NoDID = noDID
  Deployer = deployer
  Day = 1
  InitialPeriod = 0
  Periods = {0, 1}
  Word = 4
  MaxTime = 2
CONSTRAINT Bound
SYMMETRY Users
INVARIANTS
  TypeOK
  CountMatchesWhitelist
  DIDIndexAgrees
PROPERTIES
  ContractCountKept
  DIDReleasedByRemoval
  ContractsLeaveBothLists
  ReinstatedByAuthentication
