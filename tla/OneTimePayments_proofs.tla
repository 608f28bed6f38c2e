------------------------ MODULE OneTimePayments_proofs ------------------------
(***************************************************************************)
(* Proofs about the one-time payments, on top of the token's: what the     *)
(* scheme owes under all ids is covered by its one balance, step by step,  *)
(* as long as it pays no fee on top of a payment. The scheme approves no   *)
(* spender, so only its own transfers, one per payment, take G$ from it.   *)
(***************************************************************************)
EXTENDS OneTimePayments, GoodDollar_proofs

PInv == IInv /\ TypeOK /\ \A s \in Accounts : allowances[scheme][s] = 0

LEMMA PaymentsInit == Init => PInv
<1> SUFFICES ASSUME Init PROVE PInv
  OBVIOUS
<1>1. IInv  BY InitInvariant DEF Init
<1>2. TypeOK
  BY <1>1, GoodDollarAssumption, OneTimePaymentsAssumption DEF Init, TypeOK, IInv, Payments
<1>3. \A s \in Accounts : allowances[scheme][s] = 0
  BY GoodDollarAssumption, OneTimePaymentsAssumption DEF Init, TokenInit
<1> QED  BY <1>1, <1>2, <1>3 DEF PInv

(* A call of the token by an account other than the scheme: it keeps the   *)
(* token's invariant, and takes nothing from the scheme.                   *)
LEMMA UsersStep ==
  ASSUME PInv, HolderNext(Users, Users)
  PROVE  /\ IInv' /\ \A s \in Accounts : allowances'[scheme][s] = 0
         /\ balances'[scheme] >= balances[scheme]
         /\ UNCHANGED <<settings, tokenRoles, identity, formulaStatus>>
<1> USE OneTimePaymentsAssumption, GoodDollarAssumption DEF Users
<1>1. scheme \in Accounts /\ Users \subseteq Accounts  OBVIOUS
<1>2. IInv /\ TokenTypeOK /\ \A s \in Accounts : allowances[scheme][s] = 0
  BY DEF PInv, IInv
<1>3. IInv'
  <2>1. HolderNext(Accounts, Accounts)  BY <1>1 DEF HolderNext
  <2> QED  BY <1>2, <2>1, HolderStep
<1>4. balances \in Balances /\ balances' \in Balances
  BY <1>2, <1>3 DEF IInv, TokenTypeOK, Balances
<1>5. balances[scheme] \in Nat /\ balances'[scheme] \in Nat  BY <1>1, <1>4 DEF Balances
<1> DEFINE Safe == /\ \A s \in Accounts : allowances'[scheme][s] = 0
                   /\ balances'[scheme] >= balances[scheme]
                   /\ UNCHANGED <<settings, tokenRoles, identity, formulaStatus>>
<1>6. PICK c \in Users, value \in Amounts :
        \/ burn(c, value)
        \/ \E to \in Accounts :
             \/ transfer(c, to, value)
             \/ approve(c, to, value)
             \/ increaseAllowance(c, to, value)
             \/ decreaseAllowance(c, to, value)
             \/ burnFrom(c, to, value)
             \/ mint(c, to, value)
             \/ \E from \in Accounts : transferFrom(c, from, to, value)
        \/ \E to \in Users : transferAndCall(c, to, value)
  BY DEF HolderNext
<1>7. value \in Nat /\ c \in Accounts /\ c # scheme  OBVIOUS
<1>8. ASSUME burn(c, value)  PROVE Safe
  BY <1>1, <1>2, <1>5, <1>7, <1>8 DEF burn, _burn, TokenTypeOK
<1>9. ASSUME NEW to \in Accounts, transfer(c, to, value) \/ transferAndCall(c, to, value)
      PROVE  Safe
  <2>1. Pay(c, c, to, value) /\ UNCHANGED allowances  BY <1>9 DEF transfer, transferAndCall
  <2>2. balances'[scheme] >= balances[scheme]
    BY <1>1, <1>2, <1>7, <2>1, PayEffect
  <2> QED  BY <1>2, <2>1, <2>2 DEF Pay
<1>10. ASSUME NEW to \in Accounts,
              approve(c, to, value) \/ increaseAllowance(c, to, value) \/ decreaseAllowance(c, to, value)
       PROVE  Safe
  BY <1>1, <1>2, <1>5, <1>7, <1>10
     DEF approve, increaseAllowance, decreaseAllowance, SetAllowance, TokenTypeOK
<1>11. ASSUME NEW from \in Accounts, burnFrom(c, from, value)  PROVE Safe
  BY <1>1, <1>2, <1>5, <1>7, <1>11 DEF burnFrom, _burn, TokenTypeOK
<1>12. ASSUME NEW to \in Accounts, mint(c, to, value)  PROVE Safe
  BY <1>1, <1>2, <1>5, <1>7, <1>12 DEF mint, TokenTypeOK
<1>13. ASSUME NEW to \in Accounts, NEW from \in Accounts, transferFrom(c, from, to, value)
       PROVE  Safe
  <2>1. Pay(c, from, to, value)  BY <1>13 DEF transferFrom
  <2>2. SpentAllowance(c, from, value) \in Nat  BY <1>2, <1>7, <1>13, TransferFromKeeps
  <2>3. SpentAllowance(c, from, value) <= allowances[from][c]  BY <1>13 DEF transferFrom
  <2>4. allowances' = [allowances EXCEPT ![from][c] =
                         allowances[from][c] - SpentAllowance(c, from, value)]
    BY <1>13 DEF transferFrom
  <2>5. \A s \in Accounts : allowances'[scheme][s] = 0
    BY <1>1, <1>2, <1>7, <2>2, <2>3, <2>4 DEF TokenTypeOK
  <2>6. CASE from # scheme
    <3>1. balances'[scheme] >= balances[scheme]  BY <1>1, <1>2, <1>7, <2>1, <2>6, PayEffect
    <3> QED  BY <2>1, <2>5, <3>1 DEF Pay
  <2>7. CASE from = scheme
    <3>1. SpentAllowance(c, from, value) = 0  BY <1>2, <1>7, <2>2, <2>3, <2>7
    <3>2. Remainder(c, value) + FeeDue(c, value) = 0
      BY <1>7, <2>7, <3>1 DEF SpentAllowance
    <3>3. balances[from] - balances'[from] <= Remainder(c, value) + FeeDue(c, value)
      BY <1>1, <1>2, <1>7, <2>1, PayEffect
    <3>4. balances'[scheme] >= balances[scheme]  BY <1>5, <2>7, <3>2, <3>3
    <3> QED  BY <2>1, <2>5, <3>4 DEF Pay
  <2> QED  BY <2>6, <2>7
<1> QED  BY <1>3, <1>6, <1>8, <1>9, <1>10, <1>11, <1>12, <1>13

-----------------------------------------------------------------------------
(* The scheme's own operations keep the invariant.                         *)
LEMMA PaymentsStep == PInv /\ [Next]_vars => PInv'
<1> SUFFICES ASSUME PInv, [Next]_vars PROVE PInv'
  OBVIOUS
<1> USE OneTimePaymentsAssumption, GoodDollarAssumption DEF Users
<1>1. IInv /\ TokenTypeOK /\ TypeOK /\ \A s \in Accounts : allowances[scheme][s] = 0
  BY DEF PInv, IInv
<1>2. scheme \in Accounts /\ Users \subseteq Accounts  OBVIOUS
<1>3. ASSUME UNCHANGED ledger, IInv', payments' \in [PaymentIds -> Payments],
             schemeOwner' \in Accounts \union {Zero}, registered' \in BOOLEAN
      PROVE  PInv'
  BY <1>1, <1>3 DEF PInv, IInv, TypeOK, ledger
<1>4. ASSUME TokenStep  PROVE PInv'
  <2>1. UNCHANGED paymentVars  BY <1>4 DEF TokenStep
  <2>2. CASE HolderNext(Users, Users)
    <3>1. IInv' /\ \A s \in Accounts : allowances'[scheme][s] = 0  BY <2>2, UsersStep
    <3> QED  BY <1>1, <2>1, <3>1 DEF PInv, IInv, TypeOK, paymentVars
  <2>3. CASE AdminNext(Users) \/ OutsideNext
    <3>1. AdminNext(Accounts) \/ OutsideNext  BY <1>2, <2>3 DEF AdminNext
    <3>2. IInv' /\ UNCHANGED ledger  BY <1>1, <3>1, OtherStep
    <3> QED  BY <1>1, <1>3, <2>1, <3>2 DEF TypeOK, paymentVars
  <2> QED  BY <1>4, <2>2, <2>3 DEF TokenStep
<1>5. ASSUME NEW c \in Users, NEW to \in Accounts, NEW a \in Accounts, NEW value \in Nat,
             transfer(a, to, value), payments' \in [PaymentIds -> Payments],
             UNCHANGED <<schemeOwner, registered>>
      PROVE  PInv'
  <2>1. IInv'  BY <1>1, <1>5, TransferKeeps
  <2>2. UNCHANGED allowances  BY <1>5 DEF transfer
  <2> QED  BY <1>1, <1>5, <2>1, <2>2 DEF PInv, IInv, TypeOK
<1>6. ASSUME NEW c \in Users, NEW id \in PaymentIds, NEW value \in Amounts, deposit(c, value, id)
      PROVE  PInv'
  <2>1. value \in Nat /\ c \in Accounts  OBVIOUS
  <2>2. transfer(c, scheme, value)  BY <1>6 DEF deposit, transferAndCall
  <2>3. Remainder(c, value) \in Nat  BY <1>1, <2>1, <2>2, FeePayment DEF transfer, Pay
  <2>4. payments' \in [PaymentIds -> Payments]
    BY <1>1, <1>6, <2>1, <2>3 DEF deposit, onTokenTransfer, Kept, TypeOK, Payments
  <2>5. UNCHANGED <<schemeOwner, registered>>  BY <1>6 DEF deposit, onTokenTransfer
  <2> QED  BY <1>2, <1>5, <2>1, <2>2, <2>4, <2>5
<1>7. ASSUME NEW c \in Users, NEW id \in PaymentIds, _withdraw(c, id)  PROVE PInv'
  <2>1. payments[id].paymentAmount \in Nat  BY <1>1 DEF TypeOK, Payments
  <2>2. payments' \in [PaymentIds -> Payments]
    BY <1>1, <1>7 DEF _withdraw, TypeOK, Payments
  <2>3. transfer(scheme, c, payments[id].paymentAmount) /\ UNCHANGED <<schemeOwner, registered>>
    BY <1>7 DEF _withdraw
  <2> QED  BY <1>2, <1>5, <2>1, <2>2, <2>3
<1>8. ASSUME NEW c \in Users, NEW listed \in BOOLEAN, start(c, listed)  PROVE PInv'
  <2>1. daoContracts' \subseteq Contracts  BY <1>1, <1>8 DEF start, TokenTypeOK
  <2>2. IInv'
    BY <1>1, <1>8, <2>1 DEF start, IInv, TokenTypeOK, BalancesAddUp, WithinCap, ledger,
       settings, tokenRoles
  <2> QED  BY <1>1, <1>3, <1>8, <2>2 DEF start, TypeOK
<1>9. ASSUME UNCHANGED tokenVars, payments' = payments,
             schemeOwner' \in Accounts \union {Zero}, registered' \in BOOLEAN
      PROVE  PInv'
  <2>1. IInv' /\ UNCHANGED ledger  BY <1>1, <1>9, OtherStep
  <2> QED  BY <1>1, <1>3, <1>9, <2>1 DEF TypeOK
<1>10. ASSUME RegistrationChanges  PROVE PInv'
  BY <1>1, <1>9, <1>10 DEF RegistrationChanges, TypeOK
<1>11. ASSUME NEW c \in Users, NEW a \in Users, transferSchemeOwnership(c, a)  PROVE PInv'
  BY <1>1, <1>2, <1>9, <1>11 DEF transferSchemeOwnership, TypeOK
<1>12. ASSUME UNCHANGED vars  PROVE PInv'
  BY <1>1, <1>9, <1>12 DEF vars, paymentVars, TypeOK
<1> QED
  BY <1>4, <1>6, <1>7, <1>8, <1>10, <1>11, <1>12 DEF Next, PaymentNext, withdraw, cancel

(* The invariant of the token and the scheme holds in every state.         *)
THEOREM PaymentsInvariant == Spec => []PInv
BY PaymentsInit, PaymentsStep, PTL DEF Spec

(* The token and the scheme always have their types.                       *)
THEOREM PaymentsTypes == Spec => []TypeOK
<1>1. PInv => TypeOK  BY DEF PInv
<1> QED  BY <1>1, PaymentsInvariant, PTL

-----------------------------------------------------------------------------
(* What a change of one payment does to the sum owed.                      *)
LEMMA OwedChange ==
  ASSUME TypeOK, NEW id \in PaymentIds, NEW n \in Nat,
         Owed' = [Owed EXCEPT ![id] = n]
  PROVE  /\ Owed \in [PaymentIds -> Nat]
         /\ SumOf(Owed) \in Nat /\ Owed[id] <= SumOf(Owed)
         /\ SumOf(Owed') = SumOf(Owed) - Owed[id] + n
<1>1. Owed \in [PaymentIds -> Nat]  BY DEF Owed, TypeOK, Payments
<1>2. IsFiniteSet(PaymentIds)  BY OneTimePaymentsAssumption
<1>3. SumOf(Owed) \in Nat /\ \A i \in PaymentIds : Owed[i] <= SumOf(Owed)
  BY <1>1, <1>2, SumBounds
<1>4. SumOf([Owed EXCEPT ![id] = n]) = SumOf(Owed) - Owed[id] + n
  BY <1>1, <1>2, SumUpdate, Zenon
<1>5. SumOf(Owed') = SumOf(Owed) - Owed[id] + n  BY <1>4, Zenon
<1> QED  BY <1>1, <1>3, <1>5

(* A deposit brings in at least what is owed for it.                       *)
LEMMA DepositSolvent ==
  ASSUME PInv, Solvent, NEW c \in Users, NEW id \in PaymentIds, NEW value \in Amounts,
         deposit(c, value, id)
  PROVE  Solvent'
<1> USE OneTimePaymentsAssumption, GoodDollarAssumption DEF Users
<1>1. TokenTypeOK /\ TypeOK  BY DEF PInv, IInv
<1>2. value \in Nat /\ c \in Accounts /\ scheme \in Accounts /\ c # scheme  OBVIOUS
<1>3. Pay(c, c, scheme, value)  BY DEF deposit, transferAndCall, transfer
<1>4. Remainder(c, value) \in Nat  BY <1>1, <1>2, <1>3, FeePayment DEF Pay
<1>5. balances'[scheme] >= balances[scheme] + Remainder(c, value) /\ balances' \in Balances
  BY <1>1, <1>2, <1>3, PayEffect
<1>6. Owed[id] = 0 /\ Owed' = [Owed EXCEPT ![id] = Remainder(c, value)]
  BY <1>1, <1>4 DEF deposit, onTokenTransfer, IdIsFree, Kept, Owed, TypeOK, Payments
<1>7. SumOf(Owed') = SumOf(Owed) + Remainder(c, value) /\ SumOf(Owed) \in Nat
  <2>1. PICK n \in Nat : n = Remainder(c, value)  BY <1>4
  <2>2. SumOf(Owed) \in Nat /\ SumOf(Owed') = SumOf(Owed) - Owed[id] + n
    BY <1>1, <1>6, <2>1, OwedChange
  <2> QED  BY <1>6, <2>1, <2>2
<1>8. balances[scheme] \in Nat /\ balances'[scheme] \in Nat
  BY <1>1, <1>2, <1>5 DEF TokenTypeOK, Balances
<1> QED  BY <1>4, <1>5, <1>7, <1>8 DEF Solvent

(* A payment takes no more out of the balance than was owed for it, as     *)
(* long as no fee comes on top.                                            *)
LEMMA WithdrawSolvent ==
  ASSUME PInv, Solvent, PaysNoExtraFee, NEW c \in Users, NEW id \in PaymentIds,
         _withdraw(c, id)
  PROVE  Solvent'
<1> USE OneTimePaymentsAssumption, GoodDollarAssumption DEF Users
<1> DEFINE amount == payments[id].paymentAmount
<1>1. TokenTypeOK /\ TypeOK  BY DEF PInv, IInv
<1>2. amount \in Nat  BY <1>1 DEF TypeOK, Payments
<1>3. Pay(scheme, scheme, c, amount)  BY DEF _withdraw, transfer
<1>4. FeeDue(scheme, amount) \in Nat  BY <1>1, <1>2, <1>3, FeePayment DEF Pay
<1>5. Remainder(scheme, amount) + FeeDue(scheme, amount) = amount
  BY <1>2, <1>4 DEF PaysNoExtraFee, Remainder, FeeDue
<1>6. balances[scheme] - balances'[scheme] <= amount /\ balances' \in Balances
  BY <1>1, <1>2, <1>3, <1>5, PayEffect
<1>7. Owed[id] = amount /\ Owed' = [Owed EXCEPT ![id] = 0]
  BY <1>1 DEF _withdraw, IsOpen, Owed, TypeOK, Payments
<1>8. /\ SumOf(Owed') = SumOf(Owed) - amount + 0 /\ SumOf(Owed) \in Nat
      /\ amount <= SumOf(Owed)
  <2> HIDE DEF amount
  <2> QED  BY <1>1, <1>7, OwedChange
<1>9. balances[scheme] \in Nat /\ balances'[scheme] \in Nat
  BY <1>1, <1>6 DEF TokenTypeOK, Balances
<1> HIDE DEF amount
<1> QED  BY <1>2, <1>6, <1>8, <1>9 DEF Solvent

(* The scheme holds what it owes, as long as it pays no fee on top of the  *)
(* payments: whatever anybody calls, in any order.                         *)
THEOREM PaymentsSolvency == Spec => SolvencyKept
<1> USE OneTimePaymentsAssumption DEF Users
<1>1. ASSUME PInv, Solvent, PaysNoExtraFee, [Next]_vars  PROVE Solvent'
  <2>1. TokenTypeOK /\ TypeOK /\ SumOf(Owed) \in Nat
    <3>1. Owed \in [PaymentIds -> Nat]  BY <1>1 DEF PInv, Owed, TypeOK, Payments
    <3> QED  BY <1>1, <3>1, SumBounds DEF PInv, IInv
  <2>2. balances[scheme] \in Nat  BY <2>1, GoodDollarAssumption DEF TokenTypeOK
  <2>3. ASSUME payments' = payments, balances'[scheme] >= balances[scheme],
               balances'[scheme] \in Nat
        PROVE  Solvent'
    <3>1. Owed' = Owed  BY <2>3 DEF Owed
    <3> QED  BY <1>1, <2>1, <2>2, <2>3, <3>1 DEF Solvent
  <2>4. PInv'  BY <1>1, PaymentsStep
  <2>5. balances'[scheme] \in Nat
    BY <2>4, GoodDollarAssumption DEF PInv, IInv, TokenTypeOK
  <2>6. CASE TokenStep
    <3>1. payments' = payments  BY <2>6 DEF TokenStep, paymentVars
    <3>2. balances'[scheme] >= balances[scheme]
      <4>1. CASE HolderNext(Users, Users)
        BY <1>1, <4>1, UsersStep
      <4>2. CASE AdminNext(Users) \/ OutsideNext
        <5>1. AdminNext(Accounts) \/ OutsideNext  BY <4>2 DEF AdminNext
        <5>2. UNCHANGED ledger  BY <1>1, <5>1, OtherStep DEF PInv
        <5> QED  BY <2>2, <5>2 DEF ledger
      <4> QED  BY <2>6, <4>1, <4>2 DEF TokenStep
    <3> QED  BY <2>3, <2>5, <3>1, <3>2
  <2>7. ASSUME UNCHANGED <<balances, payments>>  PROVE Solvent'
    BY <2>2, <2>3, <2>5, <2>7
  <2>8. ASSUME PaymentNext  PROVE Solvent'
    BY <1>1, <2>7, <2>8, DepositSolvent, WithdrawSolvent
       DEF PaymentNext, withdraw, cancel, start, transferSchemeOwnership, RegistrationChanges,
           ledger, tokenVars
  <2> QED  BY <1>1, <2>6, <2>7, <2>8 DEF Next, vars, tokenVars, ledger, paymentVars
<1>2. PInv /\ [Next]_vars => [Solvent /\ PaysNoExtraFee => Solvent']_vars
  BY <1>1
<1> QED  BY <1>2, PaymentsInvariant, PTL DEF SolvencyKept, Spec

(* A payment pays its amount, to the caller of withdraw or cancel.         *)
LEMMA WithdrawPaysOut ==
  ASSUME PInv, NEW c \in Users, NEW id \in PaymentIds, withdraw(c, id) \/ cancel(c, id)
  PROVE  payments[id].hasPayment /\ PaidOut(id)
<1> USE OneTimePaymentsAssumption, GoodDollarAssumption DEF Users
<1> DEFINE amount == payments[id].paymentAmount
<1>1. TokenTypeOK /\ TypeOK  BY DEF PInv, IInv
<1>2. _withdraw(c, id) /\ c \in KeyHolders[id] \union {payments[id].paymentSender}
  BY DEF withdraw, cancel
<1>3. amount \in Nat  BY <1>1 DEF TypeOK, Payments
<1>4. Pay(scheme, scheme, c, amount)  BY <1>2 DEF _withdraw, transfer
<1>5. ASSUME NEW b \in Users  PROVE balances'[b] - balances[b] = Gain(b, c, amount)
  <2>1. b \in Accounts /\ b # scheme /\ scheme \in Accounts /\ c \in Accounts
    OBVIOUS
  <2> HIDE DEF amount
  <2> QED  BY <1>1, <1>3, <1>4, <2>1, PayGains DEF Gain
<1> QED  BY <1>2, <1>5 DEF _withdraw, IsOpen, PaidOut

(* A payment is paid out once, in full, to its sender or to a holder of    *)
(* its key; no step but the payout of an open payment takes G$ from the    *)
(* scheme or changes an open record.                                       *)
THEOREM PaymentsPaidOnce == Spec => PaidOnceToItsOwner
<1> USE OneTimePaymentsAssumption, GoodDollarAssumption DEF Users
<1> DEFINE Pays == \E id \in PaymentIds : payments[id].hasPayment /\ PaidOut(id)
           Keeps == /\ balances'[scheme] >= balances[scheme]
                    /\ \A id \in PaymentIds :
                         payments[id].hasPayment => payments'[id] = payments[id]
<1>1. ASSUME PInv, Next  PROVE Pays \/ Keeps
  <2>1. TokenTypeOK /\ TypeOK /\ balances[scheme] \in Nat
    BY <1>1 DEF PInv, IInv, TokenTypeOK
  <2>2. CASE TokenStep
    <3>1. payments' = payments  BY <2>2 DEF TokenStep, paymentVars
    <3>2. CASE HolderNext(Users, Users)
      BY <1>1, <3>1, <3>2, UsersStep
    <3>3. CASE AdminNext(Users) \/ OutsideNext
      <4>1. AdminNext(Accounts) \/ OutsideNext  BY <3>3 DEF AdminNext
      <4>2. UNCHANGED ledger  BY <1>1, <4>1, OtherStep DEF PInv
      <4> QED  BY <2>1, <3>1, <4>2 DEF ledger
    <3> QED  BY <2>2, <3>2, <3>3 DEF TokenStep
  <2>3. ASSUME NEW c \in Users, NEW id \in PaymentIds, withdraw(c, id) \/ cancel(c, id)
        PROVE  Pays
    BY <1>1, <2>3, WithdrawPaysOut
  <2>4. ASSUME NEW c \in Users, NEW id \in PaymentIds, NEW value \in Amounts,
               deposit(c, value, id)
        PROVE  Keeps
    <3>1. value \in Nat /\ c \in Accounts /\ scheme \in Accounts /\ c # scheme  OBVIOUS
    <3>2. Pay(c, c, scheme, value)  BY <2>4 DEF deposit, transferAndCall, transfer
    <3>3. balances'[scheme] >= balances[scheme]  BY <2>1, <3>1, <3>2, PayEffect
    <3> QED  BY <2>1, <2>4, <3>3 DEF deposit, onTokenTransfer, IdIsFree, TypeOK
  <2>5. ASSUME UNCHANGED <<balances, payments>>  PROVE Keeps
    BY <2>1, <2>5
  <2>6. CASE PaymentNext
    BY <2>3, <2>4, <2>5, <2>6
       DEF PaymentNext, start, transferSchemeOwnership, RegistrationChanges, ledger, tokenVars
  <2> QED  BY <1>1, <2>2, <2>6 DEF Next
<1>2. PInv /\ [Next]_vars =>
        [\/ \E id \in PaymentIds : payments[id].hasPayment /\ PaidOut(id)
         \/ /\ balances'[scheme] >= balances[scheme]
            /\ \A id \in PaymentIds :
                 payments[id].hasPayment => payments'[id] = payments[id]]_vars
  BY <1>1
<1> QED  BY <1>2, PaymentsInvariant, PTL DEF PaidOnceToItsOwner, Spec
===============================================================================
