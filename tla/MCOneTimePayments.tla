-------------------------- MODULE MCOneTimePayments ---------------------------
(* Bounds for model-checking OneTimePayments: the token is in use, its     *)
(* roles stay, and the deployer stands for the avatar, too.                *)
EXTENDS OneTimePayments, TLC

CONSTANTS receiverFee, senderFee, p, q, u
OneOfThree == [f \in Formulas |-> 1]
SenderOnly == [f \in Formulas |-> f = senderFee]
Keys == p :> {u} @@ q :> {u, Deployer}

(* Bound: no allowance but one by the user, of at most 3 G$.               *)
OneAllowance ==
  \A a, s \in Accounts :
    allowances[a][s] > 0 => a = u /\ s = Deployer /\ allowances[a][s] <= 3

PaymentsInit ==
  /\ balances = [a \in Accounts |-> 0]
  /\ allowances = [a \in Accounts |-> [s \in Accounts |-> 0]]
  /\ totalSupply = 0
  /\ formula \in Formulas /\ feeRecipient = Deployer
  /\ owner = Deployer /\ minters = {Deployer} /\ pausers = {Deployer}
  /\ paused = FALSE /\ bridgeContract = Zero
  /\ blacklist = {} /\ daoContracts = {}
  /\ formulaStatus = [f \in Formulas |-> "registered"]
  /\ payments = [id \in PaymentIds |->
       [hasPayment |-> FALSE, paymentAmount |-> 0, paymentSender |-> Zero]]
  /\ schemeOwner = Deployer /\ registered = TRUE

PaymentsNext ==
  \/ PaymentNext
  \/ /\ \/ HolderNext(Users, Users)
        \/ DAOContractsChange(scheme)
        \/ \E f \in Formulas : setFormula(Deployer, f)
        \/ pause(Deployer) \/ unpause(Deployer)
     /\ UNCHANGED paymentVars

PaymentsSpec == PaymentsInit /\ [][PaymentsNext]_vars
===============================================================================
