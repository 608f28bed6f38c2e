SPECIFICATION TokenSpec
CONSTANTS
  receiverFee = receiverFee
  senderFee = senderFee
  u = u
  Accounts = {deployer, u, c}
  Zero = zero
  Deployer = deployer
  Contracts = {c}
  Cap = 4
  Formulas = {receiverFee, senderFee}
  Percentage <- OneOfThree
  SenderPays <- SenderOnly
  Hundred = 3
  Word = 64
  Amounts = {1, 3}
CONSTRAINT Bound
INVARIANTS
  TokenTypeOK
  BalancesAddUp
PROPERTIES
  AllowanceCoversCost
  DAOTransfersAreExact
