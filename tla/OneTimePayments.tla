--------------------------- MODULE OneTimePayments ---------------------------
(***************************************************************************)
(* One-time payments (contracts/dao/schemes/OneTimePayments.sol on         *)
(* FeelessScheme), composed with the token: G$ sent by transferAndCall is  *)
(* kept under an id, the address of a throw-away wallet, until somebody    *)
(* shows a signature by that wallet, or the sender cancels. All payments   *)
(* lie in the scheme's one G$ balance. Being a DAO contract the scheme     *)
(* pays out without fees; but that takes start(), whose call of the        *)
(* identity contract may fail unnoticed, and a listing that stays.         *)
(***************************************************************************)
EXTENDS GoodDollar

CONSTANTS
  scheme,     \* the address of the scheme
  PaymentIds, \* the addresses used as ids
  KeyHolders, \* for each id, the accounts with a signature of their address by it
  Avatar      \* the DAO

ASSUME OneTimePaymentsAssumption ==
  /\ scheme \in Contracts /\ Avatar \in Accounts \ {scheme}
  /\ IsFiniteSet(PaymentIds)
  /\ KeyHolders \in [PaymentIds -> SUBSET (Accounts \ {scheme})]

VARIABLES
  payments,    \* each id's Payment
  schemeOwner, \* Ownable
  registered   \* is the scheme registered in the DAO

paymentVars == <<payments, schemeOwner, registered>>
vars == <<tokenVars, paymentVars>>

Users == Accounts \ {scheme}
Payments == [hasPayment : BOOLEAN, paymentAmount : Nat, paymentSender : Accounts \union {Zero}]

-----------------------------------------------------------------------------
MutIdAlwaysFree(id) == TRUE
IdIsFree(id) == ~payments[id].hasPayment

(* onTokenTransfer(sender, value, id), called by the token                 *)
onTokenTransfer(sender, value, id) ==
  /\ registered
  /\ IdIsFree(id)
  /\ payments' = [payments EXCEPT ![id] =
       [hasPayment |-> TRUE, paymentAmount |-> value, paymentSender |-> sender]]
  /\ UNCHANGED <<schemeOwner, registered>>

(* transferAndCall to the scheme: what is kept is what is left of the fee  *)
MutKeptWithFee(c, value) == value
Kept(c, value) == Remainder(c, value)

deposit(c, value, id) ==
  /\ transferAndCall(c, scheme, value)
  /\ onTokenTransfer(c, Kept(c, value), id)

MutAnyRecord(id) == TRUE
IsOpen(id) == payments[id].hasPayment

(* The rest of the record stays; the transfer, by the scheme to the caller *)
(* of withdraw or cancel, pays fees unless the scheme is a DAO contract.   *)
_withdraw(c, id) ==
  /\ IsOpen(id)
  /\ payments' = [payments EXCEPT ![id].hasPayment = FALSE]
  /\ transfer(scheme, c, payments[id].paymentAmount)
  /\ UNCHANGED <<schemeOwner, registered>>

withdraw(c, id) ==
  /\ registered
  /\ c \in KeyHolders[id]
  /\ _withdraw(c, id)

cancel(c, id) ==
  /\ payments[id].paymentSender = c
  /\ _withdraw(c, id)

(* start(): a generic call of identity.addContract, which fails unnoticed  *)
(* when the scheme is listed already, or identity is paused or refuses;    *)
(* the scheme then belongs to the avatar all the same.                     *)
start(c, listed) ==
  /\ registered
  /\ c = schemeOwner
  /\ schemeOwner' = Avatar
  /\ daoContracts' = IF listed THEN daoContracts \union {scheme} ELSE daoContracts
  /\ UNCHANGED <<payments, registered>>
  /\ UNCHANGED <<ledger, settings, tokenRoles, blacklist, formulaStatus>>

-----------------------------------------------------------------------------
Init ==
  /\ TokenInit
  /\ payments = [id \in PaymentIds |->
       [hasPayment |-> FALSE, paymentAmount |-> 0, paymentSender |-> Zero]]
  /\ schemeOwner = Deployer
  /\ registered = FALSE

(* setAvatar, the DAO registering or unregistering the scheme              *)
RegistrationChanges ==
  /\ registered' = ~registered
  /\ UNCHANGED <<tokenVars, payments, schemeOwner>>

transferSchemeOwnership(c, a) ==
  /\ c = schemeOwner
  /\ schemeOwner' = a
  /\ UNCHANGED <<tokenVars, payments, registered>>

PaymentNext ==
  \/ \E c \in Users, id \in PaymentIds :
       \/ withdraw(c, id)
       \/ cancel(c, id)
       \/ \E value \in Amounts : deposit(c, value, id)
  \/ \E c \in Users, listed \in BOOLEAN : start(c, listed)
  \/ \E c, a \in Users : transferSchemeOwnership(c, a)
  \/ RegistrationChanges

(* The rest of the token's life, in which the scheme makes no call.        *)
TokenStep ==
  /\ HolderNext(Users, Users) \/ AdminNext(Users) \/ OutsideNext
  /\ UNCHANGED paymentVars

Next == PaymentNext \/ TokenStep

Spec == Init /\ [][Next]_vars

-----------------------------------------------------------------------------
(* The types of the state.                                                 *)
TypeOK ==
  /\ TokenTypeOK
  /\ payments \in [PaymentIds -> Payments]
  /\ schemeOwner \in Accounts \union {Zero}
  /\ registered \in BOOLEAN

(* What the scheme owes under its ids.                                     *)
Owed == [id \in PaymentIds |->
           IF payments[id].hasPayment THEN payments[id].paymentAmount ELSE 0]
Solvent == SumOf(Owed) <= balances[scheme]

(* The scheme pays its payments out as they are, or takes the fee out of   *)
(* them.                                                                   *)
PaysNoExtraFee == scheme \in daoContracts \/ ~SenderPays[formula]

(* As long as the scheme is exempt from fees or the receiver pays them,    *)
(* no call by anybody makes it owe more than it holds: the payments share  *)
(* one balance, and none is paid out of another's G$.                      *)
SolvencyKept == [][Solvent /\ PaysNoExtraFee => Solvent']_vars

(* What b gains when the scheme pays out value to a: what the fee leaves,  *)
(* and the fee where b receives it.                                        *)
Gain(b, a, value) ==
  (IF b = a THEN Remainder(scheme, value) ELSE 0)
    + (IF b = feeRecipient THEN FeeDue(scheme, value) ELSE 0)

(* The amount kept under id goes to the sender or to a holder of the key,  *)
(* and to nobody else but for the fee; of all records only the one of id   *)
(* changes, and only to be closed.                                         *)
PaidOut(id) ==
  /\ payments' = [payments EXCEPT ![id].hasPayment = FALSE]
  /\ \E a \in KeyHolders[id] \union {payments[id].paymentSender} :
       \A b \in Users : balances'[b] - balances[b] = Gain(b, a, payments[id].paymentAmount)

(* Each payment is paid out once, in full, to its sender or to a holder of *)
(* its key: a step either pays out one payment that was open, and closes   *)
(* it, or leaves every open payment as it was made and takes nothing from  *)
(* the scheme. A record that is closed keeps its amount and its sender,    *)
(* but pays nobody, whatever other payments the scheme then holds.         *)
PaidOnceToItsOwner ==
  [][\/ \E id \in PaymentIds : payments[id].hasPayment /\ PaidOut(id)
     \/ /\ balances'[scheme] >= balances[scheme]
        /\ \A id \in PaymentIds :
             payments[id].hasPayment => payments'[id] = payments[id]]_vars

===============================================================================
