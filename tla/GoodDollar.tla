------------------------------ MODULE GoodDollar ------------------------------
(***************************************************************************)
(* The G$ token: contracts/token/GoodDollar.sol with ERC677Token,          *)
(* ERC677BridgeToken, IdentityGuard and FormulaHolder, on OpenZeppelin's   *)
(* pausable ERC20. Every transfer asks the fee formula for a fee and the   *)
(* identity contract whether the sender of the transaction is exempt; the  *)
(* fee is a transfer of its own, made before the transfer proper and out   *)
(* of the same balance and allowance.                                      *)
(*                                                                         *)
(* Every public function is one action; its first parameter is the caller. *)
(* A call that reverts is an action that is not enabled.                   *)
(***************************************************************************)
EXTENDS Sums

CONSTANTS
  Accounts,    \* the addresses that hold G$
  Zero,        \* address(0)
  Deployer,    \* the account that deploys the token
  Contracts,   \* the accounts with code
  Cap,         \* the cap of the supply, none if 0
  Formulas,    \* the fee formula contracts
  Percentage,  \* the percentage each formula was deployed with
  SenderPays,  \* senderPays: FALSE in FeeFormula, TRUE in SenderFeeFormula
  Hundred,     \* 100, the whole of a percentage
  Word,        \* 2^256
  Amounts      \* bound: the amounts of a call

ASSUME GoodDollarAssumption ==
  /\ IsFiniteSet(Accounts) /\ Deployer \in Accounts /\ Zero \notin Accounts
  /\ Contracts \subseteq Accounts
  /\ Cap \in Nat /\ Word \in Nat \ {0} /\ Hundred \in Nat \ {0}
  /\ Percentage \in [Formulas -> 0 .. Hundred - 1]
  /\ SenderPays \in [Formulas -> BOOLEAN]
  /\ Amounts \subseteq Nat

VARIABLES
  balances, allowances, totalSupply,  \* ERC20; allowances[owner][spender]
  formula,                            \* FormulaHolder
  feeRecipient,
  owner, minters, pausers, paused,    \* Ownable, MinterRole, Pausable
  bridgeContract,                     \* ERC677BridgeToken
  blacklist, daoContracts,            \* what the identity contract answers
  formulaStatus                       \* each formula: has it an avatar, is it registered

ledger == <<balances, allowances, totalSupply>>
settings == <<formula, feeRecipient, bridgeContract>>
tokenRoles == <<owner, minters, pausers, paused>>
identity == <<blacklist, daoContracts>>
tokenVars == <<ledger, settings, tokenRoles, identity, formulaStatus>>

-----------------------------------------------------------------------------
(* getTxFees of FeeFormula, which rounds the fee, and of SenderFeeFormula, *)
(* which rounds the value first.                                           *)
getTxFees(value) ==
  IF SenderPays[formula]
  THEN (value \div Hundred) * Percentage[formula]
  ELSE (value * Percentage[formula]) \div Hundred

MutFeeForEverybody(c, value) == getTxFees(value)
MutFeeOfSenderOnly(c, value) ==
  IF c \in daoContracts \/ ~SenderPays[formula] THEN 0 ELSE getTxFees(value)
FeeDue(c, value) == IF c \in daoContracts THEN 0 ELSE getTxFees(value)

(* What is left to transfer once processFees has taken the fee.            *)
Remainder(c, value) ==
  IF SenderPays[formula] THEN value ELSE value - FeeDue(c, value)

(* OpenZeppelin's _transfer: two updates, one after the other.             *)
Moved(b, from, to, n) == [[b EXCEPT ![from] = @ - n] EXCEPT ![to] = @ + n]

CanTransfer == ~paused

(* processFees: the fee's own transfer, by super.transfer if the payer is  *)
(* the caller and by super.transferFrom otherwise.                         *)
CanPayFee(c, payer, value) ==
  LET fee == FeeDue(c, value) IN
    fee > 0 =>
      /\ feeRecipient # Zero
      /\ fee <= balances[payer]
      /\ IF SenderPays[formula] THEN value + fee <= balances[payer] ELSE fee <= value
MutFeeNotDebited(c, payer, value) ==
  IF FeeDue(c, value) = 0
  THEN balances
  ELSE [balances EXCEPT ![feeRecipient] = @ + FeeDue(c, value)]
AfterFee(c, payer, value) ==
  IF FeeDue(c, value) = 0
  THEN balances
  ELSE Moved(balances, payer, feeRecipient, FeeDue(c, value))

MutSpentWithoutFee(c, from, value) == Remainder(c, value)
SpentAllowance(c, from, value) ==
  Remainder(c, value) + IF c = from THEN 0 ELSE FeeDue(c, value)

UnderCap(value) == Cap > 0 => totalSupply + value <= Cap

CanBurn(from, value) == value <= balances[from]

-----------------------------------------------------------------------------
TokenInit ==
  /\ balances = [a \in Accounts |-> 0]
  /\ allowances = [a \in Accounts |-> [s \in Accounts |-> 0]]
  /\ totalSupply = 0
  /\ formula \in Formulas
  /\ feeRecipient \in Accounts \union {Zero}
  /\ owner = Deployer /\ minters = {Deployer} /\ pausers = {Deployer}
  /\ paused = FALSE /\ bridgeContract = Zero
  /\ blacklist = {} /\ daoContracts = {}
  /\ formulaStatus = [f \in Formulas |-> "noAvatar"]

(* The balances after a transfer of `value`, its fee included; the payer   *)
(* may be the recipient, and either may be the fee's recipient.            *)
Pay(c, from, to, value) ==
  /\ CanTransfer
  /\ CanPayFee(c, from, value)
  /\ Remainder(c, value) <= AfterFee(c, from, value)[from]
  /\ balances' = Moved(AfterFee(c, from, value), from, to, Remainder(c, value))
  /\ UNCHANGED <<totalSupply, settings, tokenRoles, identity, formulaStatus>>

transfer(c, to, value) ==
  Pay(c, c, to, value) /\ UNCHANGED allowances

(* The token's part of transferAndCall; a recipient with code is called    *)
(* last, when the token's state is final, and may make it revert.          *)
transferAndCall(c, to, value) == transfer(c, to, value)

transferFrom(c, from, to, value) ==
  /\ SpentAllowance(c, from, value) <= allowances[from][c]
  /\ allowances' = [allowances EXCEPT ![from][c] = @ - SpentAllowance(c, from, value)]
  /\ Pay(c, from, to, value)

SetAllowance(from, s, value) ==
  /\ CanTransfer
  /\ allowances' = [allowances EXCEPT ![from][s] = value]
  /\ UNCHANGED <<balances, totalSupply, settings, tokenRoles, identity, formulaStatus>>

approve(c, s, value) == SetAllowance(c, s, value)

increaseAllowance(c, s, addedValue) ==
  /\ allowances[c][s] + addedValue < Word
  /\ SetAllowance(c, s, allowances[c][s] + addedValue)

decreaseAllowance(c, s, subtractedValue) ==
  /\ subtractedValue <= allowances[c][s]
  /\ SetAllowance(c, s, allowances[c][s] - subtractedValue)

(* Neither mint nor burn looks at the pause.                               *)
mint(c, to, value) ==
  /\ c \in minters
  /\ to \notin blacklist
  /\ UnderCap(value)
  /\ totalSupply + value < Word
  /\ balances' = [balances EXCEPT ![to] = @ + value]
  /\ totalSupply' = totalSupply + value
  /\ UNCHANGED <<allowances, settings, tokenRoles, identity, formulaStatus>>

_burn(from, value) ==
  /\ CanBurn(from, value)
  /\ balances' = [balances EXCEPT ![from] = @ - value]
  /\ totalSupply' = totalSupply - value
  /\ UNCHANGED <<settings, tokenRoles, identity, formulaStatus>>

burn(c, value) ==
  /\ c \notin blacklist
  /\ _burn(c, value)
  /\ UNCHANGED allowances

MutBurnFromUnchecked(c, from, value) ==
  /\ c \notin blacklist /\ from \notin blacklist
  /\ allowances' = [allowances EXCEPT ![from][c] = @ - value]
  /\ _burn(from, value)
burnFrom(c, from, value) ==
  /\ c \notin blacklist /\ from \notin blacklist
  /\ value <= allowances[from][c]
  /\ allowances' = [allowances EXCEPT ![from][c] = @ - value]
  /\ _burn(from, value)

-----------------------------------------------------------------------------
(* The settings of the owner and the minters.                              *)
(* isRegistered() reverts for a formula without an avatar; its answer is   *)
(* not looked at.                                                          *)
setFormula(c, f) ==
  /\ c = owner
  /\ formulaStatus[f] # "noAvatar"
  /\ formula' = f
  /\ UNCHANGED <<ledger, feeRecipient, bridgeContract, tokenRoles, identity, formulaStatus>>

setFeeRecipient(c, a) ==
  /\ c = owner
  /\ feeRecipient' = a
  /\ UNCHANGED <<ledger, formula, bridgeContract, tokenRoles, identity, formulaStatus>>

(* Another, registered, identity contract: any lists at all.               *)
setIdentity(c) ==
  /\ c = owner
  /\ blacklist' \in SUBSET Accounts
  /\ daoContracts' \in SUBSET Contracts
  /\ UNCHANGED <<ledger, settings, tokenRoles, formulaStatus>>

setBridgeContract(c, a) ==
  /\ c \in minters /\ a \in Contracts
  /\ bridgeContract' = a
  /\ UNCHANGED <<ledger, formula, feeRecipient, tokenRoles, identity, formulaStatus>>

transferOwnership(c, a) ==
  /\ c = owner
  /\ owner' = a
  /\ UNCHANGED <<ledger, settings, minters, pausers, paused, identity, formulaStatus>>

renounceOwnership(c) ==
  /\ c = owner
  /\ owner' = Zero
  /\ UNCHANGED <<ledger, settings, minters, pausers, paused, identity, formulaStatus>>

addMinter(c, a) ==
  /\ c \in minters /\ a \notin minters
  /\ minters' = minters \union {a}
  /\ UNCHANGED <<ledger, settings, owner, pausers, paused, identity, formulaStatus>>

renounceMinter(c) ==
  /\ c \in minters
  /\ minters' = minters \ {c}
  /\ UNCHANGED <<ledger, settings, owner, pausers, paused, identity, formulaStatus>>

addPauser(c, a) ==
  /\ c \in pausers /\ a \notin pausers
  /\ pausers' = pausers \union {a}
  /\ UNCHANGED <<ledger, settings, owner, minters, paused, identity, formulaStatus>>

renouncePauser(c) ==
  /\ c \in pausers
  /\ pausers' = pausers \ {c}
  /\ UNCHANGED <<ledger, settings, owner, minters, paused, identity, formulaStatus>>

pause(c) ==
  /\ c \in pausers /\ ~paused
  /\ paused' = TRUE
  /\ UNCHANGED <<ledger, settings, owner, minters, pausers, identity, formulaStatus>>

unpause(c) ==
  /\ c \in pausers /\ paused
  /\ paused' = FALSE
  /\ UNCHANGED <<ledger, settings, owner, minters, pausers, identity, formulaStatus>>

-----------------------------------------------------------------------------
(* The environment: the identity contract's lists, and the formulas' place *)
(* in the DAO; setAvatar cannot take an avatar away again.                 *)
BlacklistChanges(a) ==
  /\ blacklist' = (blacklist \union {a}) \ (blacklist \intersect {a})
  /\ UNCHANGED <<ledger, settings, tokenRoles, daoContracts, formulaStatus>>

DAOContractsChange(a) ==
  /\ daoContracts' = (daoContracts \union {a}) \ (daoContracts \intersect {a})
  /\ UNCHANGED <<ledger, settings, tokenRoles, blacklist, formulaStatus>>

FormulaStatusChanges(f, s) ==
  /\ formulaStatus' = [formulaStatus EXCEPT ![f] = s]
  /\ UNCHANGED <<ledger, settings, tokenRoles, identity>>

-----------------------------------------------------------------------------
(* What the accounts of C call; OneTimePayments, which makes its own calls *)
(* and receives some of transferAndCall's, is left out of C and R there.   *)
HolderNext(C, R) ==
  \E c \in C, value \in Amounts :
    \/ burn(c, value)
    \/ \E to \in Accounts :
         \/ transfer(c, to, value)
         \/ approve(c, to, value)
         \/ increaseAllowance(c, to, value)
         \/ decreaseAllowance(c, to, value)
         \/ burnFrom(c, to, value)
         \/ mint(c, to, value)
         \/ \E from \in Accounts : transferFrom(c, from, to, value)
    \/ \E to \in R : transferAndCall(c, to, value)

AdminNext(C) ==
  \E c \in C :
    \/ setIdentity(c)
    \/ renounceOwnership(c) \/ renounceMinter(c) \/ renouncePauser(c)
    \/ pause(c) \/ unpause(c)
    \/ \E f \in Formulas : setFormula(c, f)
    \/ \E a \in Accounts \union {Zero} : setFeeRecipient(c, a)
    \/ \E a \in Accounts :
         \/ setBridgeContract(c, a) \/ transferOwnership(c, a)
         \/ addMinter(c, a) \/ addPauser(c, a)

OutsideNext ==
  \/ \E a \in Accounts : BlacklistChanges(a)
  \/ \E a \in Contracts : DAOContractsChange(a)
  \/ \E f \in Formulas, s \in {"unregistered", "registered"} : FormulaStatusChanges(f, s)

TokenNext == HolderNext(Accounts, Accounts) \/ AdminNext(Accounts) \/ OutsideNext

TokenSpec == TokenInit /\ [][TokenNext]_tokenVars

-----------------------------------------------------------------------------
(* The types of the state.                                                 *)
TokenTypeOK ==
  /\ balances \in [Accounts -> Nat] /\ totalSupply \in Nat
  /\ allowances \in [Accounts -> [Accounts -> Nat]]
  /\ formula \in Formulas /\ feeRecipient \in Accounts \union {Zero}
  /\ owner \in Accounts \union {Zero}
  /\ minters \subseteq Accounts /\ pausers \subseteq Accounts /\ paused \in BOOLEAN
  /\ bridgeContract \in Contracts \union {Zero}
  /\ blacklist \subseteq Accounts /\ daoContracts \subseteq Contracts
  /\ formulaStatus \in [Formulas -> {"noAvatar", "unregistered", "registered"}]

(* No G$ appears or vanishes outside mint and burn: the balances add up to *)
(* the supply, however payer, recipient and the fee's recipient coincide.  *)
BalancesAddUp == SumOf(balances) = totalSupply

(* No sequence of mints and burns takes the supply beyond the cap.         *)
WithinCap == Cap > 0 => totalSupply <= Cap

(* A spender costs the owner of the G$ no more than the allowance it uses  *)
(* up, the fee included, whichever side of the transfer the fee falls on.  *)
AllowanceCoversCost ==
  [][\A c, from, to \in Accounts, value \in Amounts :
       c # from /\ transferFrom(c, from, to, value) =>
         balances[from] - balances'[from] <= allowances[from][c] - allowances'[from][c]]_tokenVars

(* What a DAO contract transfers arrives in full and costs nothing more:   *)
(* the schemes that keep accounts in G$ of their own rely on it.           *)
DAOTransfersAreExact ==
  [][\A c \in daoContracts, to \in Accounts, value \in Amounts :
       transfer(c, to, value) /\ to # c =>
         /\ balances'[c] = balances[c] - value
         /\ balances'[to] = balances[to] + value]_tokenVars

(* While the token is paused nobody gains what another holds: a balance    *)
(* grows only by what is minted. Nobody gains an allowance either.         *)
PausedFreezesHoldings ==
  [][paused =>
       \A a \in Accounts :
         /\ balances'[a] <= balances[a] \/ balances'[a] - balances[a] = totalSupply' - totalSupply
         /\ \A s \in Accounts : allowances'[a][s] <= allowances[a][s]]_tokenVars

(* What is renounced is gone for good: without an owner the fee settings   *)
(* and the identity contract stay, without minters the supply never grows, *)
(* without pausers the token stays as it is, paused or not.                *)
RenouncedForGood ==
  [][/\ owner = Zero => owner' = Zero /\ formula' = formula /\ feeRecipient' = feeRecipient
     /\ minters = {} =>
          minters' = {} /\ totalSupply' <= totalSupply /\ bridgeContract' = bridgeContract
     /\ pausers = {} => pausers' = {} /\ paused' = paused]_tokenVars

===============================================================================
