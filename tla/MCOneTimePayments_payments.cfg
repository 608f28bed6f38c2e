SPECIFICATION PaymentsSpec
CONSTANTS
  receiverFee = receiverFee
  senderFee = senderFee
  p = p
  q = q
  u = u
  scheme = scheme
  PaymentIds = {p, q}
  KeyHolders <- Keys
  Avatar = deployer
  Accounts = {deployer, u, scheme}
  Zero = zero
  Deployer = deployer
  Contracts = {scheme}
  Cap = 4
  Formulas = {receiverFee, senderFee}
  Percentage <- OneOfThree
  SenderPays <- SenderOnly
  Hundred = 3
  Word = 64
  Amounts = {1, 3}
CONSTRAINT OneAllowance
INVARIANTS
  TypeOK
PROPERTIES
  SolvencyKept
  PaidOnceToItsOwner
