----------------------------- MODULE MCGoodDollar -----------------------------
(* Bounds for model-checking GoodDollar: three accounts move G$ while the  *)
(* deployer keeps all roles, and two hand the roles and the settings       *)
(* around while there is one G$ at most.                                   *)
EXTENDS GoodDollar

CONSTANTS receiverFee, senderFee, u
OneOfThree == [f \in Formulas |-> 1]
SenderOnly == [f \in Formulas |-> f = senderFee]

(* Bound of the ledger's part: at most one allowance is open at a time, of *)
(* at most 4 G$, and nobody is blacklisted.                                *)
LedgerMoves ==
  /\ Cardinality({<<a, s>> \in Accounts \X Accounts : allowances[a][s] > 0}) <= 1
  /\ \A a, s \in Accounts : allowances[a][s] <= 4
  /\ owner = Deployer /\ minters = {Deployer} /\ pausers = {Deployer}
  /\ bridgeContract = Zero /\ blacklist = {}
  /\ formulaStatus = [f \in Formulas |-> "noAvatar"]

(* Bound of the roles' part: one G$, no allowances, one formula's standing *)
(* changes, and u takes no part.                                           *)
RolesMove ==
  /\ totalSupply <= 1 /\ \A a, s \in Accounts : allowances[a][s] = 0
  /\ formulaStatus[receiverFee] = "noAvatar" /\ bridgeContract = Zero
  /\ blacklist = {} /\ daoContracts = {} /\ balances[u] = 0
  /\ u \notin minters \union pausers \union {owner} /\ feeRecipient = Deployer

Bound == LedgerMoves \/ RolesMove
===============================================================================
