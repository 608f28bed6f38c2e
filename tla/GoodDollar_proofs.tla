--------------------------- MODULE GoodDollar_proofs ---------------------------
(***************************************************************************)
(* Proofs about the token, for any accounts, formulas, cap and amounts. A  *)
(* transfer is at most two moves of G$ inside the balances, and a move     *)
(* keeps their sum also when payer and recipient are the same account;     *)
(* everything else follows from the sum being the supply.                  *)
(***************************************************************************)
EXTENDS GoodDollar, Sums_proofs

IInv == TokenTypeOK /\ BalancesAddUp /\ WithinCap

Balances == [Accounts -> Nat]

(* Every fee is a natural number.                                          *)
LEMMA FeeIsNat ==
  ASSUME formula \in Formulas, NEW value \in Nat
  PROVE  getTxFees(value) \in Nat
<1>1. Percentage[formula] \in Nat /\ Hundred \in Nat /\ Hundred > 0
  BY GoodDollarAssumption
<1>2. ASSUME NEW m \in Nat, NEW h \in Nat, h > 0  PROVE m \div h \in Nat
  BY <1>2
<1>3. ASSUME NEW m \in Nat, NEW k \in Nat  PROVE m * k \in Nat
  BY <1>3
<1>4. value \div Hundred \in Nat  BY <1>1, <1>2
<1>5. (value \div Hundred) * Percentage[formula] \in Nat  BY <1>1, <1>3, <1>4
<1>6. (value * Percentage[formula]) \div Hundred \in Nat
  <2>1. value * Percentage[formula] \in Nat  BY <1>1, <1>3
  <2> QED  BY <1>1, <1>2, <2>1
<1> QED  BY <1>5, <1>6 DEF getTxFees

(* A move of G$ keeps their sum, also from an account to itself.           *)
LEMMA MoveKeepsSum ==
  ASSUME NEW b \in Balances, NEW from \in Accounts, NEW to \in Accounts,
         NEW n \in Nat, n <= b[from]
  PROVE  /\ Moved(b, from, to, n) \in Balances
         /\ SumOf(Moved(b, from, to, n)) = SumOf(b)
         /\ \A a \in Accounts : Moved(b, from, to, n)[a] =
              b[a] - (IF a = from THEN n ELSE 0) + (IF a = to THEN n ELSE 0)
<1> DEFINE less == [b EXCEPT ![from] = b[from] - n]
<1>0. IsFiniteSet(Accounts)  BY GoodDollarAssumption
<1>1. less \in Balances /\ b[from] - n \in Nat /\ less[to] \in Nat  BY DEF Balances
<1>2. SumOf(less) = SumOf(b) - b[from] + (b[from] - n)
  <2>1. \A k \in Nat : SumOf([b EXCEPT ![from] = k]) = SumOf(b) - b[from] + k
    BY <1>0, SumUpdate, Zenon DEF Balances
  <2> QED  BY <1>1, <2>1
<1>3. Moved(b, from, to, n) = [less EXCEPT ![to] = less[to] + n]
  BY DEF Moved, Balances
<1>4. Moved(b, from, to, n) \in Balances  BY <1>3 DEF Balances
<1>5. \A a \in Accounts : Moved(b, from, to, n)[a] =
        b[a] - (IF a = from THEN n ELSE 0) + (IF a = to THEN n ELSE 0)
  BY <1>3 DEF Balances
<1>6. SumOf([less EXCEPT ![to] = less[to] + n]) = SumOf(less) - less[to] + (less[to] + n)
  <2> HIDE DEF less
  <2>1. less[to] + n \in Nat  BY <1>1
  <2> QED  BY <1>0, <1>1, <2>1, SumUpdate, Zenon DEF Balances
<1>7. SumOf(b) \in Nat /\ SumOf(less) \in Nat
  <2> HIDE DEF less
  <2> QED  BY <1>0, <1>1, SumBounds DEF Balances
<1>8. SumOf(Moved(b, from, to, n)) = SumOf(b)
  <2>1. b[from] \in Nat  BY DEF Balances
  <2> HIDE DEF less
  <2> QED  BY <1>1, <1>2, <1>3, <1>6, <1>7, <2>1
<1> QED  BY <1>4, <1>5, <1>8

(* What processFees leaves behind, if it does not revert.                  *)
LEMMA FeePayment ==
  ASSUME TokenTypeOK, NEW c \in Accounts, NEW payer \in Accounts, NEW value \in Nat,
         CanPayFee(c, payer, value)
  PROVE  /\ FeeDue(c, value) \in Nat /\ Remainder(c, value) \in Nat
         /\ AfterFee(c, payer, value) \in Balances
         /\ SumOf(AfterFee(c, payer, value)) = SumOf(balances)
         /\ \A a \in Accounts :
              /\ a # payer => AfterFee(c, payer, value)[a] >= balances[a]
              /\ balances[a] - AfterFee(c, payer, value)[a] <= FeeDue(c, value)
         /\ feeRecipient = payer => AfterFee(c, payer, value) = balances
<1> DEFINE fee == FeeDue(c, value)
<1>1. fee \in Nat  BY FeeIsNat DEF FeeDue, TokenTypeOK
<1>2. Remainder(c, value) \in Nat
  BY <1>1 DEF CanPayFee, Remainder
<1>3. balances \in Balances  BY DEF TokenTypeOK, Balances
<1>4. CASE fee = 0
  <2>1. AfterFee(c, payer, value) = balances  BY <1>4 DEF AfterFee
  <2> QED  BY <1>1, <1>2, <1>3, <1>4, <2>1 DEF Balances
<1>5. CASE fee # 0
  <2>1. feeRecipient \in Accounts /\ fee <= balances[payer]
    BY <1>1, <1>5 DEF CanPayFee, TokenTypeOK
  <2>2. AfterFee(c, payer, value) = Moved(balances, payer, feeRecipient, fee)
    BY <1>5 DEF AfterFee
  <2> DEFINE moved == Moved(balances, payer, feeRecipient, fee)
  <2>3. /\ moved \in Balances /\ SumOf(moved) = SumOf(balances)
        /\ \A a \in Accounts : moved[a] =
             balances[a] - (IF a = payer THEN fee ELSE 0) + (IF a = feeRecipient THEN fee ELSE 0)
    <3> HIDE DEF fee
    <3> QED  BY <1>1, <1>3, <2>1, MoveKeepsSum
  <2> HIDE DEF moved, fee
  <2>4. feeRecipient = payer => moved = balances
    BY <1>1, <1>3, <2>3 DEF Balances
  <2>5. \A a \in Accounts :
          /\ a # payer => moved[a] >= balances[a]
          /\ balances[a] - moved[a] <= fee
    BY <1>1, <1>3, <2>1, <2>3 DEF Balances
  <2> QED  BY <1>1, <1>2, <2>2, <2>3, <2>4, <2>5 DEF fee, moved
<1> QED  BY <1>4, <1>5

(* The effect of a transfer on the balances: the sum stays, nobody but the *)
(* payer loses, and the payer loses the remainder and the fee at most.     *)
LEMMA PayEffect ==
  ASSUME TokenTypeOK, NEW c \in Accounts, NEW from \in Accounts, NEW to \in Accounts,
         NEW value \in Nat, Pay(c, from, to, value)
  PROVE  /\ balances' \in Balances
         /\ SumOf(balances') = SumOf(balances)
         /\ \A a \in Accounts \ {from} : balances'[a] >= balances[a]
         /\ balances[from] - balances'[from] <= Remainder(c, value) + FeeDue(c, value)
         /\ to # from => balances'[to] >= balances[to] + Remainder(c, value)
         /\ FeeDue(c, value) = 0 /\ to # from =>
              /\ balances'[from] = balances[from] - Remainder(c, value)
              /\ balances'[to] = balances[to] + Remainder(c, value)
<1> DEFINE b == AfterFee(c, from, value)
           rest == Remainder(c, value)
           fee == FeeDue(c, value)
<1>1. /\ fee \in Nat /\ rest \in Nat /\ b \in Balances /\ SumOf(b) = SumOf(balances)
      /\ \A a \in Accounts :
           (a # from => b[a] >= balances[a]) /\ balances[a] - b[a] <= fee
  BY FeePayment DEF Pay
<1>2. fee = 0 => b = balances  BY DEF AfterFee
<1>3. rest <= b[from] /\ balances' = Moved(b, from, to, rest)  BY DEF Pay
<1>4. balances \in Balances  BY DEF TokenTypeOK, Balances
<1> HIDE DEF b, rest, fee
<1>5. /\ balances' \in Balances /\ SumOf(balances') = SumOf(b)
      /\ \A a \in Accounts : balances'[a] =
           b[a] - (IF a = from THEN rest ELSE 0) + (IF a = to THEN rest ELSE 0)
  BY <1>1, <1>3, MoveKeepsSum
<1>6. \A a \in Accounts : b[a] \in Nat /\ balances[a] \in Nat /\ balances'[a] \in Nat
  BY <1>1, <1>4, <1>5 DEF Balances
<1>7. \A a \in Accounts \ {from} : balances'[a] >= balances[a]
  BY <1>1, <1>5, <1>6
<1>8. balances[from] - balances'[from] <= rest + fee
  BY <1>1, <1>5, <1>6
<1>9. to # from => balances'[to] >= balances[to] + rest
  BY <1>1, <1>5, <1>6
<1>10. fee = 0 /\ to # from => /\ balances'[from] = balances[from] - rest
                               /\ balances'[to] = balances[to] + rest
  BY <1>1, <1>2, <1>5, <1>6
<1> QED  BY <1>1, <1>5, <1>7, <1>8, <1>9, <1>10 DEF b, rest, fee

(* Whoever does not pay gains exactly the remainder as the recipient, and  *)
(* the fee as the fee's recipient.                                         *)
LEMMA PayGains ==
  ASSUME TokenTypeOK, NEW c \in Accounts, NEW from \in Accounts, NEW to \in Accounts,
         NEW value \in Nat, Pay(c, from, to, value), NEW a \in Accounts, a # from
  PROVE  balances'[a] - balances[a] =
           (IF a = to THEN Remainder(c, value) ELSE 0)
             + (IF a = feeRecipient THEN FeeDue(c, value) ELSE 0)
<1> DEFINE b == AfterFee(c, from, value)
           rest == Remainder(c, value)
           fee == FeeDue(c, value)
<1>1. fee \in Nat /\ rest \in Nat /\ b \in Balances  BY FeePayment DEF Pay
<1>2. balances \in Balances  BY DEF TokenTypeOK, Balances
<1>3. b[a] = balances[a] + (IF a = feeRecipient THEN fee ELSE 0)
  <2>1. CASE fee = 0
    BY <1>2, <2>1 DEF AfterFee, Balances
  <2>2. CASE fee # 0
    <3>1. feeRecipient \in Accounts /\ fee <= balances[from] /\ b = Moved(balances, from, feeRecipient, fee)
      BY <1>1, <2>2 DEF Pay, CanPayFee, AfterFee, TokenTypeOK
    <3> HIDE DEF b, fee
    <3>2. b[a] = balances[a] - (IF a = from THEN fee ELSE 0) + (IF a = feeRecipient THEN fee ELSE 0)
      BY <1>1, <1>2, <3>1, MoveKeepsSum
    <3> QED  BY <1>1, <1>2, <3>2 DEF Balances
  <2> QED  BY <2>1, <2>2
<1>4. rest <= b[from] /\ balances' = Moved(b, from, to, rest)  BY DEF Pay
<1> HIDE DEF b, rest, fee
<1>5. balances'[a] = b[a] - (IF a = from THEN rest ELSE 0) + (IF a = to THEN rest ELSE 0)
  BY <1>1, <1>4, MoveKeepsSum
<1>6. balances'[a] - balances[a] = (IF a = to THEN rest ELSE 0) + (IF a = feeRecipient THEN fee ELSE 0)
  BY <1>1, <1>2, <1>3, <1>5 DEF Balances
<1> QED  BY <1>6 DEF rest, fee

-----------------------------------------------------------------------------
Allowances == [Accounts -> [Accounts -> Nat]]

LEMMA InitInvariant == TokenInit => IInv
<1> SUFFICES ASSUME TokenInit PROVE IInv
  OBVIOUS
<1> USE GoodDollarAssumption DEF TokenInit
<1>1. TokenTypeOK  BY DEF TokenTypeOK
<1>2. BalancesAddUp  BY SumOfZeroes DEF BalancesAddUp
<1>3. WithinCap  BY DEF WithinCap
<1> QED  BY <1>1, <1>2, <1>3 DEF IInv

(* A transfer of any kind keeps the invariant.                             *)
LEMMA PayKeeps ==
  ASSUME IInv, NEW c \in Accounts, NEW from \in Accounts, NEW to \in Accounts,
         NEW value \in Nat, Pay(c, from, to, value), allowances' \in Allowances
  PROVE  IInv'
<1>1. balances' \in Balances /\ SumOf(balances') = SumOf(balances)
  BY PayEffect DEF IInv
<1>2. UNCHANGED <<totalSupply, settings, tokenRoles, identity, formulaStatus>>  BY DEF Pay
<1>3. TokenTypeOK'
  BY <1>1, <1>2 DEF IInv, TokenTypeOK, settings, tokenRoles, identity, Balances, Allowances
<1>4. BalancesAddUp' /\ WithinCap'
  BY <1>1, <1>2 DEF IInv, BalancesAddUp, WithinCap
<1> QED  BY <1>3, <1>4 DEF IInv

(* mint adds to one balance what it adds to the supply.                    *)
LEMMA MintKeeps ==
  ASSUME IInv, NEW c \in Accounts, NEW to \in Accounts, NEW value \in Nat, mint(c, to, value)
  PROVE  IInv'
<1> USE DEF IInv, TokenTypeOK
<1>1. balances[to] \in Nat /\ balances[to] + value \in Nat /\ totalSupply + value \in Nat
  OBVIOUS
<1>2. \A n \in Nat : SumOf([balances EXCEPT ![to] = n]) = SumOf(balances) - balances[to] + n
  <2>1. IsFiniteSet(Accounts)  BY GoodDollarAssumption
  <2> QED  BY <2>1, SumUpdate, Zenon
<1>3. balances' = [balances EXCEPT ![to] = balances[to] + value]  BY DEF mint
<1>4. BalancesAddUp'
  <2>1. SumOf(balances') = SumOf(balances) - balances[to] + (balances[to] + value)
    BY <1>1, <1>2, <1>3
  <2> QED  BY <1>1, <2>1 DEF BalancesAddUp, mint
<1>5. WithinCap'  BY DEF WithinCap, mint, UnderCap
<1>6. TokenTypeOK'
  BY <1>1, <1>3 DEF mint, settings, tokenRoles, identity
<1> QED  BY <1>4, <1>5, <1>6

(* A burn takes from one balance what it takes from the supply.            *)
LEMMA BurnKeeps ==
  ASSUME IInv, NEW from \in Accounts, NEW value \in Nat, _burn(from, value),
         allowances' \in Allowances
  PROVE  IInv'
<1> USE DEF IInv, TokenTypeOK
<1>1. IsFiniteSet(Accounts)  BY GoodDollarAssumption
<1>2. balances[from] \in Nat /\ value <= balances[from] /\ balances[from] - value \in Nat
  BY DEF _burn, CanBurn
<1>3. \A n \in Nat : SumOf([balances EXCEPT ![from] = n]) = SumOf(balances) - balances[from] + n
  BY <1>1, SumUpdate, Zenon
<1>4. balances[from] <= SumOf(balances)  BY <1>1, SumBounds
<1>5. totalSupply - value \in Nat  BY <1>2, <1>4 DEF BalancesAddUp
<1>6. balances' = [balances EXCEPT ![from] = balances[from] - value]  BY DEF _burn
<1>7. BalancesAddUp'
  <2>1. SumOf(balances') = SumOf(balances) - balances[from] + (balances[from] - value)
    BY <1>2, <1>3, <1>6
  <2> QED  BY <1>2, <2>1 DEF BalancesAddUp, _burn
<1>8. WithinCap'  BY <1>5, GoodDollarAssumption DEF WithinCap, _burn
<1>9. TokenTypeOK'
  BY <1>2, <1>5, <1>6 DEF _burn, settings, tokenRoles, identity, Allowances
<1> QED  BY <1>7, <1>8, <1>9

(* An allowance changes by an amount that keeps it a natural number.       *)
LEMMA AllowanceType ==
  ASSUME allowances \in Allowances, NEW a \in Accounts, NEW s \in Accounts, NEW n \in Nat
  PROVE  [allowances EXCEPT ![a][s] = n] \in Allowances
BY DEF Allowances

LEMMA AllowanceKeeps ==
  ASSUME IInv, NEW c \in Accounts, NEW s \in Accounts, NEW n \in Nat, SetAllowance(c, s, n)
  PROVE  IInv'
<1>1. allowances' \in Allowances
  BY AllowanceType DEF IInv, TokenTypeOK, SetAllowance, Allowances
<1>2. TokenTypeOK'
  BY <1>1 DEF IInv, TokenTypeOK, SetAllowance, settings, tokenRoles, identity, Allowances
<1>3. BalancesAddUp' /\ WithinCap'
  BY DEF IInv, BalancesAddUp, WithinCap, SetAllowance
<1> QED  BY <1>2, <1>3 DEF IInv

LEMMA TransferKeeps ==
  ASSUME IInv, NEW c \in Accounts, NEW to \in Accounts, NEW value \in Nat,
         transfer(c, to, value)
  PROVE  IInv'
BY PayKeeps DEF transfer, IInv, TokenTypeOK, Allowances

(* transferFrom also uses up the allowance, of the fee and of the rest.    *)
LEMMA TransferFromKeeps ==
  ASSUME IInv, NEW c \in Accounts, NEW from \in Accounts, NEW to \in Accounts,
         NEW value \in Nat, transferFrom(c, from, to, value)
  PROVE  IInv' /\ SpentAllowance(c, from, value) \in Nat
<1>1. FeeDue(c, value) \in Nat /\ Remainder(c, value) \in Nat
  BY FeePayment DEF transferFrom, Pay, IInv
<1>2. SpentAllowance(c, from, value) \in Nat  BY <1>1 DEF SpentAllowance
<1>3. allowances[from][c] - SpentAllowance(c, from, value) \in Nat
  BY <1>2 DEF transferFrom, IInv, TokenTypeOK
<1>4. allowances' \in Allowances
  BY <1>3, AllowanceType DEF transferFrom, IInv, TokenTypeOK, Allowances
<1>5. Pay(c, from, to, value)  BY DEF transferFrom
<1> QED  BY <1>2, <1>4, <1>5, PayKeeps

LEMMA BurnFromKeeps ==
  ASSUME IInv, NEW c \in Accounts, NEW from \in Accounts, NEW value \in Nat,
         burnFrom(c, from, value)
  PROVE  IInv'
<1>1. allowances[from][c] - value \in Nat  BY DEF burnFrom, IInv, TokenTypeOK
<1>2. allowances' \in Allowances
  BY <1>1, AllowanceType DEF burnFrom, IInv, TokenTypeOK, Allowances
<1> QED  BY <1>2, BurnKeeps DEF burnFrom

(* Whatever the holders call keeps the invariant.                          *)
LEMMA HolderStep ==
  ASSUME IInv, HolderNext(Accounts, Accounts)
  PROVE  IInv'
<1>1. PICK c \in Accounts, value \in Amounts :
        \/ burn(c, value)
        \/ \E to \in Accounts :
             \/ transfer(c, to, value)
             \/ approve(c, to, value)
             \/ increaseAllowance(c, to, value)
             \/ decreaseAllowance(c, to, value)
             \/ burnFrom(c, to, value)
             \/ mint(c, to, value)
             \/ \E from \in Accounts : transferFrom(c, from, to, value)
        \/ \E to \in Accounts : transferAndCall(c, to, value)
  BY DEF HolderNext
<1>2. value \in Nat  BY GoodDollarAssumption
<1>3. CASE burn(c, value)
  BY <1>2, <1>3, BurnKeeps DEF burn, IInv, TokenTypeOK, Allowances
<1>4. ASSUME NEW to \in Accounts, transfer(c, to, value) \/ transferAndCall(c, to, value)
      PROVE  IInv'
  BY <1>2, <1>4, TransferKeeps DEF transferAndCall
<1>5. ASSUME NEW to \in Accounts, approve(c, to, value)  PROVE IInv'
  BY <1>2, <1>5, AllowanceKeeps DEF approve
<1>6. ASSUME NEW to \in Accounts, increaseAllowance(c, to, value)  PROVE IInv'
  <2>1. allowances[c][to] + value \in Nat  BY <1>2 DEF IInv, TokenTypeOK
  <2> QED  BY <1>6, <2>1, AllowanceKeeps DEF increaseAllowance
<1>7. ASSUME NEW to \in Accounts, decreaseAllowance(c, to, value)  PROVE IInv'
  <2>1. allowances[c][to] - value \in Nat
    BY <1>2, <1>7 DEF decreaseAllowance, IInv, TokenTypeOK
  <2> QED  BY <1>7, <2>1, AllowanceKeeps DEF decreaseAllowance
<1>8. ASSUME NEW to \in Accounts, burnFrom(c, to, value)  PROVE IInv'
  BY <1>2, <1>8, BurnFromKeeps
<1>9. ASSUME NEW to \in Accounts, mint(c, to, value)  PROVE IInv'
  BY <1>2, <1>9, MintKeeps
<1>10. ASSUME NEW to \in Accounts, NEW from \in Accounts, transferFrom(c, from, to, value)
       PROVE  IInv'
  BY <1>2, <1>10, TransferFromKeeps
<1> QED  BY <1>1, <1>3, <1>4, <1>5, <1>6, <1>7, <1>8, <1>9, <1>10

(* Settings, roles and the environment leave the ledger alone.             *)
LEMMA OtherStep ==
  ASSUME IInv, AdminNext(Accounts) \/ OutsideNext \/ UNCHANGED tokenVars
  PROVE  IInv' /\ UNCHANGED ledger
<1> USE DEF ledger, settings, tokenRoles, identity, tokenVars
<1>1. UNCHANGED ledger
  BY DEF AdminNext, OutsideNext, setFormula, setFeeRecipient, setIdentity, setBridgeContract,
     transferOwnership, renounceOwnership, addMinter, renounceMinter, addPauser,
     renouncePauser, pause, unpause, BlacklistChanges, DAOContractsChange, FormulaStatusChanges
<1>2. TokenTypeOK'
  <2> USE GoodDollarAssumption DEF IInv, TokenTypeOK
  <2>1. CASE AdminNext(Accounts)
    BY <1>1, <2>1 DEF AdminNext, setFormula, setFeeRecipient, setIdentity, setBridgeContract,
       transferOwnership, renounceOwnership, addMinter, renounceMinter, addPauser,
       renouncePauser, pause, unpause
  <2>2. CASE OutsideNext
    BY <1>1, <2>2 DEF OutsideNext, BlacklistChanges, DAOContractsChange, FormulaStatusChanges
  <2>3. CASE UNCHANGED tokenVars
    BY <2>3
  <2> QED  BY <2>1, <2>2, <2>3
<1>3. BalancesAddUp' /\ WithinCap'
  BY <1>1 DEF IInv, BalancesAddUp, WithinCap
<1> QED  BY <1>1, <1>2, <1>3 DEF IInv

LEMMA StepInvariant == IInv /\ [TokenNext]_tokenVars => IInv'
BY HolderStep, OtherStep DEF TokenNext

-----------------------------------------------------------------------------
(* The inductive invariant of the token holds in every reachable state.    *)
THEOREM TokenInvariant == TokenSpec => []IInv
BY InitInvariant, StepInvariant, PTL DEF TokenSpec

(* The state of the token always has its types.                            *)
THEOREM TokenTypes == TokenSpec => []TokenTypeOK
<1>1. IInv => TokenTypeOK  BY DEF IInv
<1> QED  BY <1>1, TokenInvariant, PTL

(* The balances add up to the supply, for any number of accounts.          *)
THEOREM TokenConservation == TokenSpec => []BalancesAddUp
<1>1. IInv => BalancesAddUp  BY DEF IInv
<1> QED  BY <1>1, TokenInvariant, PTL

(* The supply never exceeds the cap.                                       *)
THEOREM TokenCap == TokenSpec => []WithinCap
<1>1. IInv => WithinCap  BY DEF IInv
<1> QED  BY <1>1, TokenInvariant, PTL

(* A spender costs the owner of the G$ no more than it uses up of its      *)
(* allowance, whoever pays the fee and whoever receives it.                *)
THEOREM TokenAllowanceCoversCost == TokenSpec => AllowanceCoversCost
<1>1. ASSUME IInv, NEW c \in Accounts, NEW from \in Accounts, NEW to \in Accounts,
             NEW value \in Amounts, c # from, transferFrom(c, from, to, value)
      PROVE  balances[from] - balances'[from] <= allowances[from][c] - allowances'[from][c]
  <2>1. value \in Nat  BY GoodDollarAssumption
  <2>2. SpentAllowance(c, from, value) \in Nat /\ IInv'
    BY <1>1, <2>1, TransferFromKeeps
  <2>3. SpentAllowance(c, from, value) = Remainder(c, value) + FeeDue(c, value)
    BY <1>1 DEF SpentAllowance
  <2>4. balances[from] - balances'[from] <= Remainder(c, value) + FeeDue(c, value)
    BY <1>1, <2>1, PayEffect DEF transferFrom, IInv
  <2>5. allowances'[from][c] = allowances[from][c] - SpentAllowance(c, from, value)
    BY <1>1 DEF transferFrom, IInv, TokenTypeOK
  <2>6. /\ allowances[from][c] \in Nat /\ balances[from] \in Nat /\ balances'[from] \in Nat
    BY <1>1, <2>2 DEF IInv, TokenTypeOK
  <2> QED  BY <2>2, <2>3, <2>4, <2>5, <2>6
<1>2. IInv =>
        [\A c, from, to \in Accounts, value \in Amounts :
           c # from /\ transferFrom(c, from, to, value) =>
             balances[from] - balances'[from] <= allowances[from][c] - allowances'[from][c]]_tokenVars
  BY <1>1
<1> QED  BY <1>2, TokenInvariant, PTL DEF AllowanceCoversCost

(* A DAO contract's transfers arrive in full and cost nothing more.        *)
THEOREM TokenDAOTransfers == TokenSpec => DAOTransfersAreExact
<1>1. ASSUME IInv, NEW c \in daoContracts, NEW to \in Accounts, NEW value \in Amounts,
             transfer(c, to, value), to # c
      PROVE  balances'[c] = balances[c] - value /\ balances'[to] = balances[to] + value
  <2>1. value \in Nat /\ c \in Accounts
    BY <1>1, GoodDollarAssumption DEF IInv, TokenTypeOK
  <2>2. FeeDue(c, value) = 0 /\ Remainder(c, value) = value
    BY <2>1 DEF FeeDue, Remainder
  <2> QED  BY <1>1, <2>1, <2>2, PayEffect DEF transfer, IInv
<1>2. IInv =>
        [\A c \in daoContracts, to \in Accounts, value \in Amounts :
           transfer(c, to, value) /\ to # c =>
             /\ balances'[c] = balances[c] - value
             /\ balances'[to] = balances[to] + value]_tokenVars
  BY <1>1
<1> QED  BY <1>2, TokenInvariant, PTL DEF DAOTransfersAreExact

(* While the token is paused balances grow by minting only, and no         *)
(* allowance grows.                                                        *)
THEOREM TokenPause == TokenSpec => PausedFreezesHoldings
<1> DEFINE Frozen == \A a \in Accounts :
             /\ \/ balances'[a] <= balances[a]
                \/ balances'[a] - balances[a] = totalSupply' - totalSupply
             /\ \A s \in Accounts : allowances'[a][s] <= allowances[a][s]
<1>1. ASSUME IInv, paused, TokenNext  PROVE Frozen
  <2> USE <1>1, GoodDollarAssumption DEF IInv, TokenTypeOK
  <2>1. CASE UNCHANGED ledger
    BY <2>1 DEF ledger
  <2>2. ASSUME NEW c \in Accounts, NEW to \in Accounts, NEW value \in Amounts,
               mint(c, to, value)
        PROVE  Frozen
    <3>1. value \in Nat  OBVIOUS
    <3> QED  BY <2>2, <3>1 DEF mint
  <2>3. ASSUME NEW c \in Accounts, NEW from \in Accounts, NEW value \in Amounts,
               burn(c, value) \/ burnFrom(c, from, value)
        PROVE  Frozen
    <3>1. value \in Nat  OBVIOUS
    <3>2. CASE burn(c, value)
      BY <3>1, <3>2 DEF burn, _burn
    <3>3. CASE burnFrom(c, from, value)
      <4>1. \A a, s \in Accounts : allowances'[a][s] <= allowances[a][s]
        BY <3>1, <3>3 DEF burnFrom
      <4>2. \A a \in Accounts : balances'[a] <= balances[a]
        BY <3>1, <3>3 DEF burnFrom, _burn
      <4> QED  BY <4>1, <4>2
    <3> QED  BY <2>3, <3>2, <3>3
  <2>4. HolderNext(Accounts, Accounts) =>
          \E c \in Accounts, value \in Amounts :
            \/ burn(c, value)
            \/ \E to \in Accounts : mint(c, to, value) \/ burnFrom(c, to, value)
    BY DEF HolderNext, transfer, transferAndCall, transferFrom, approve, increaseAllowance,
       decreaseAllowance, Pay, SetAllowance, CanTransfer
  <2>5. AdminNext(Accounts) \/ OutsideNext => UNCHANGED ledger  BY OtherStep
  <2> HIDE DEF Frozen
  <2> QED  BY <2>1, <2>2, <2>3, <2>4, <2>5 DEF TokenNext
<1>2. IInv /\ [TokenNext]_tokenVars =>
        [paused =>
           \A a \in Accounts :
             /\ balances'[a] <= balances[a] \/ balances'[a] - balances[a] = totalSupply' - totalSupply
             /\ \A s \in Accounts : allowances'[a][s] <= allowances[a][s]]_tokenVars
  BY <1>1
<1> QED  BY <1>2, TokenInvariant, PTL DEF PausedFreezesHoldings, TokenSpec

(* Ownership, minting and pausing that are renounced do not come back.     *)
THEOREM TokenRenounced == TokenSpec => RenouncedForGood
<1>1. ASSUME IInv, TokenNext
      PROVE  /\ owner = Zero => owner' = Zero /\ formula' = formula /\ feeRecipient' = feeRecipient
             /\ minters = {} =>
                  minters' = {} /\ totalSupply' <= totalSupply /\ bridgeContract' = bridgeContract
             /\ pausers = {} => pausers' = {} /\ paused' = paused
  <2> USE <1>1, GoodDollarAssumption DEF IInv, TokenTypeOK, settings, tokenRoles, identity, ledger
  <2>1. CASE HolderNext(Accounts, Accounts)
    <3>1. UNCHANGED <<settings, tokenRoles>>
      BY <2>1 DEF HolderNext, transfer, transferAndCall, transferFrom, approve, increaseAllowance,
         decreaseAllowance, burn, burnFrom, _burn, mint, Pay, SetAllowance
    <3>2. minters = {} => totalSupply' <= totalSupply
      BY <2>1 DEF HolderNext, transfer, transferAndCall, transferFrom, approve, increaseAllowance,
         decreaseAllowance, burn, burnFrom, _burn, mint, Pay, SetAllowance
    <3> QED  BY <3>1, <3>2
  <2>2. CASE AdminNext(Accounts)
    BY <2>2 DEF AdminNext, setFormula, setFeeRecipient, setIdentity, setBridgeContract,
       transferOwnership, renounceOwnership, addMinter, renounceMinter, addPauser,
       renouncePauser, pause, unpause
  <2>3. CASE OutsideNext
    BY <2>3 DEF OutsideNext, BlacklistChanges, DAOContractsChange, FormulaStatusChanges
  <2> QED  BY <1>1, <2>1, <2>2, <2>3 DEF TokenNext
<1>2. IInv /\ [TokenNext]_tokenVars =>
        [/\ owner = Zero => owner' = Zero /\ formula' = formula /\ feeRecipient' = feeRecipient
         /\ minters = {} =>
              minters' = {} /\ totalSupply' <= totalSupply /\ bridgeContract' = bridgeContract
         /\ pausers = {} => pausers' = {} /\ paused' = paused]_tokenVars
  BY <1>1
<1> QED  BY <1>2, TokenInvariant, PTL DEF RenouncedForGood, TokenSpec
===============================================================================
