---------------------------- MODULE Identity_proofs ----------------------------
(***************************************************************************)
(* Proofs about Identity, for any number of accounts and DIDs and any      *)
(* clock. The inductive invariant is the conjunction of the invariants the *)
(* runs check, plus one bound on the clock: the count is kept by           *)
(* _addWhitelisted and _removeWhitelisted, and the DID index is kept by    *)
(* removal because only the holder's own hash is cleared.                  *)
(***************************************************************************)
EXTENDS Identity, FiniteSetTheorems, TLAPS

IInv == TypeOK /\ CountMatchesWhitelist /\ DIDIndexAgrees /\ DatesOrdered /\ now > 0

(* Every set of accounts is finite and smaller than the counters' modulus. *)
LEMMA AccountSetsSmall ==
  ASSUME NEW S \in SUBSET Accounts
  PROVE  IsFiniteSet(S) /\ Cardinality(S) \in Nat /\ Cardinality(S) < Word
<1>1. IsFiniteSet(S) /\ Cardinality(S) <= Cardinality(Accounts)
  BY FS_Subset, IdentityAssumption
<1>2. Cardinality(S) \in Nat /\ Cardinality(Accounts) \in Nat
  BY <1>1, FS_CardinalityType, IdentityAssumption
<1> QED  BY <1>1, <1>2, IdentityAssumption

(* Adding an account that is not in a set moves its size as Inc does.      *)
LEMMA IncCounts ==
  ASSUME NEW S \in SUBSET Accounts, NEW a \in Accounts, a \notin S
  PROVE  Inc(Cardinality(S)) = Cardinality(S \union {a})
<1>1. Cardinality(S \union {a}) = Cardinality(S) + 1
  BY FS_AddElement, AccountSetsSmall
<1>2. Cardinality(S \union {a}) < Word /\ Cardinality(S) \in Nat
  BY AccountSetsSmall
<1> QED  BY <1>1, <1>2, IdentityAssumption DEF Inc

(* Removing a member of a set moves its size as Dec does.                  *)
LEMMA DecCounts ==
  ASSUME NEW S \in SUBSET Accounts, NEW a \in S
  PROVE  Dec(Cardinality(S)) = Cardinality(S \ {a})
<1>1. Cardinality(S \ {a}) = Cardinality(S) - 1
  BY FS_RemoveElement, AccountSetsSmall
<1>2. Cardinality(S \ {a}) \in Nat /\ Cardinality(S) \in Nat
  BY AccountSetsSmall
<1> QED  BY <1>1, <1>2 DEF Dec

LEMMA CountersInRange == \A n \in 0 .. Word - 1 : Inc(n) \in 0 .. Word - 1 /\ Dec(n) \in 0 .. Word - 1
BY IdentityAssumption DEF Inc, Dec

(* What an addition to the whitelist does to the invariant.                *)
LEMMA AddKeeps ==
  ASSUME IInv, NEW a \in Accounts, _addWhitelisted(a), now' = now
  PROVE  CountMatchesWhitelist' /\ DatesOrdered'
<1> USE DEF _addWhitelisted, IInv, TypeOK
<1>1. CountMatchesWhitelist'
  BY IncCounts DEF CountMatchesWhitelist
<1>2. DatesOrdered'
  BY DEF DatesOrdered, Authenticated
<1> QED  BY <1>1, <1>2

(* What a removal from the whitelist does to the invariant.                *)
LEMMA RemoveKeeps ==
  ASSUME IInv, NEW a \in Accounts, _removeWhitelisted(a), now' = now
  PROVE  CountMatchesWhitelist' /\ DIDIndexAgrees' /\ DatesOrdered'
<1> USE DEF _removeWhitelisted, IInv, TypeOK
<1>1. CountMatchesWhitelist'
  BY DecCounts DEF CountMatchesWhitelist
<1>2. DIDIndexAgrees'
  BY IdentityAssumption DEF DIDIndexAgrees
<1>3. DatesOrdered'
  BY DEF DatesOrdered
<1> QED  BY <1>1, <1>2, <1>3

-----------------------------------------------------------------------------
LEMMA InitInvariant == Init => IInv
<1> SUFFICES ASSUME Init PROVE IInv
  OBVIOUS
<1> USE IdentityAssumption DEF Init
<1>1. TypeOK
  <2>1. 0 \in 0 .. Word - 1
    BY AccountSetsSmall
  <2> QED  BY <2>1 DEF TypeOK
<1>2. CountMatchesWhitelist
  BY FS_EmptySet DEF CountMatchesWhitelist
<1>3. DIDIndexAgrees /\ DatesOrdered /\ now > 0
  BY DEF DIDIndexAgrees, DatesOrdered
<1> QED  BY <1>1, <1>2, <1>3 DEF IInv

(* Every step keeps the types.                                             *)
LEMMA TypeStep == TypeOK /\ [Next]_vars => TypeOK'
<1> SUFFICES ASSUME TypeOK, [Next]_vars PROVE TypeOK'
  OBVIOUS
<1> USE IdentityAssumption, CountersInRange DEF TypeOK, vars, roles, members, env, lists
<1>1. CASE MembershipNext
  <2>1. ASSUME NEW c \in Accounts, NEW a \in Accounts, authenticate(c, a) PROVE TypeOK'
    BY <2>1 DEF authenticate, Authenticated
  <2>2. ASSUME NEW c \in Accounts, NEW a \in Accounts, addWhitelisted(c, a) PROVE TypeOK'
    BY <2>2 DEF addWhitelisted, _addWhitelisted, Authenticated
  <2>3. ASSUME NEW c \in Accounts, NEW a \in Accounts, removeWhitelisted(c, a) PROVE TypeOK'
    BY <2>3 DEF removeWhitelisted, _removeWhitelisted
  <2>4. ASSUME NEW c \in Accounts, NEW a \in Accounts,
               addBlacklisted(c, a) \/ removeBlacklisted(c, a)
        PROVE  TypeOK'
    BY <2>4 DEF addBlacklisted, removeBlacklisted
  <2>5. ASSUME NEW c \in Accounts, NEW a \in Accounts, addContract(c, a) PROVE TypeOK'
    BY <2>5 DEF addContract, _addWhitelisted, Authenticated
  <2>6. ASSUME NEW c \in Accounts, NEW a \in Accounts, removeContract(c, a) PROVE TypeOK'
    BY <2>6 DEF removeContract, _removeWhitelisted
  <2>7. ASSUME NEW c \in Accounts, NEW a \in Accounts, NEW did \in DIDs,
               addWhitelistedWithDID(c, a, did)
        PROVE  TypeOK'
    BY <2>7 DEF addWhitelistedWithDID, _addWhitelisted, Authenticated
  <2>8. ASSUME NEW c \in Accounts, renounceWhitelisted(c) PROVE TypeOK'
    BY <2>8 DEF renounceWhitelisted, _removeWhitelisted
  <2>9. ASSUME NEW c \in Accounts, NEW period \in Periods, setAuthenticationPeriod(c, period)
        PROVE  TypeOK'
    BY <2>9 DEF setAuthenticationPeriod
  <2> QED  BY <1>1, <2>1, <2>2, <2>3, <2>4, <2>5, <2>6, <2>7, <2>8, <2>9 DEF MembershipNext
<1>2. CASE RoleNext
  BY <1>2 DEF RoleNext, addIdentityAdmin, removeIdentityAdmin, transferOwnership, addPauser,
     renounceIdentityAdmin, renounceOwnership, renouncePauser, pause, unpause,
     RegistrationChanges
<1>3. CASE EnvNext
  BY <1>3 DEF EnvNext, Tick, CodeAppears, CodeDestroyed
<1>4. CASE UNCHANGED vars
  BY <1>4
<1> QED  BY <1>1, <1>2, <1>3, <1>4 DEF Next

(* Every step keeps the three invariants.                                  *)
LEMMA InvariantStep == IInv /\ [Next]_vars => IInv'
<1> SUFFICES ASSUME IInv, [Next]_vars PROVE IInv'
  OBVIOUS
<1> DEFINE Kept == CountMatchesWhitelist /\ DIDIndexAgrees /\ DatesOrdered /\ now > 0
<1>t. SUFFICES Kept'
  BY TypeStep DEF IInv
<1>u. ASSUME UNCHANGED members, UNCHANGED dateAuthenticated, now' \in {now, now + 1}
      PROVE  Kept'
  BY <1>u DEF IInv, TypeOK, members, CountMatchesWhitelist, DIDIndexAgrees, DatesOrdered
<1>1. CASE MembershipNext
  <2>1. ASSUME NEW c \in Accounts, NEW a \in Accounts, authenticate(c, a) PROVE Kept'
    BY <2>1 DEF authenticate, Authenticated, IInv, TypeOK, members, env,
       CountMatchesWhitelist, DIDIndexAgrees, DatesOrdered
  <2>2. ASSUME NEW c \in Accounts, NEW a \in Accounts,
               addWhitelisted(c, a) \/ addContract(c, a)
        PROVE  Kept'
    <3>1. _addWhitelisted(a) /\ UNCHANGED <<now, addrToDID, didHashToAddress>>
      BY <2>2 DEF addWhitelisted, addContract, env
    <3>2. DIDIndexAgrees'
      BY <3>1 DEF _addWhitelisted, DIDIndexAgrees, IInv
    <3> QED  BY <3>1, <3>2, AddKeeps DEF IInv
  <2>3. ASSUME NEW c \in Accounts, NEW a \in Accounts, NEW did \in DIDs,
               addWhitelistedWithDID(c, a, did)
        PROVE  Kept'
    <3>1. _addWhitelisted(a) /\ UNCHANGED now
      BY <2>3 DEF addWhitelistedWithDID, env
    <3>2. DIDIndexAgrees'
      BY <2>3, IdentityAssumption DEF addWhitelistedWithDID, DIDIsFree, _addWhitelisted,
         DIDIndexAgrees, IInv, TypeOK
    <3> QED  BY <3>1, <3>2, AddKeeps DEF IInv
  <2>4. ASSUME NEW a \in Accounts, _removeWhitelisted(a), UNCHANGED env PROVE Kept'
    BY <2>4, RemoveKeeps DEF env, IInv
  <2>5. ASSUME NEW c \in Accounts, NEW a \in Accounts,
               removeWhitelisted(c, a) \/ removeContract(c, a)
        PROVE  Kept'
    BY <2>4, <2>5 DEF removeWhitelisted, removeContract
  <2>6. ASSUME NEW c \in Accounts, renounceWhitelisted(c) PROVE Kept'
    BY <2>4, <2>6 DEF renounceWhitelisted
  <2>7. ASSUME NEW c \in Accounts, NEW a \in Accounts,
               addBlacklisted(c, a) \/ removeBlacklisted(c, a)
        PROVE  Kept'
    BY <1>u, <2>7 DEF addBlacklisted, removeBlacklisted, env
  <2>8. ASSUME NEW c \in Accounts, NEW period \in Periods, setAuthenticationPeriod(c, period)
        PROVE  Kept'
    BY <1>u, <2>8 DEF setAuthenticationPeriod, env
  <2> QED  BY <1>1, <2>1, <2>2, <2>3, <2>5, <2>6, <2>7, <2>8 DEF MembershipNext
<1>2. CASE RoleNext
  BY <1>u, <1>2 DEF RoleNext, lists, env, addIdentityAdmin, removeIdentityAdmin,
     transferOwnership, addPauser, renounceIdentityAdmin, renounceOwnership,
     renouncePauser, pause, unpause, RegistrationChanges
<1>3. CASE EnvNext
  BY <1>u, <1>3 DEF EnvNext, Tick, CodeAppears, CodeDestroyed
<1>4. CASE UNCHANGED vars
  BY <1>u, <1>4 DEF vars, env
<1> QED  BY <1>1, <1>2, <1>3, <1>4 DEF Next

(* The inductive invariant holds in every reachable state.                 *)
THEOREM IdentityInvariant == Spec => []IInv
BY InitInvariant, InvariantStep, PTL DEF Spec

(* The state always has its types.                                         *)
THEOREM IdentityTypes == Spec => []TypeOK
<1>1. IInv => TypeOK
  BY DEF IInv
<1> QED  BY <1>1, IdentityInvariant, PTL

(* The counter the UBI schemes divide by is the size of the whitelist.     *)
THEOREM IdentityCount == Spec => []CountMatchesWhitelist
<1>1. IInv => CountMatchesWhitelist
  BY DEF IInv
<1> QED  BY <1>1, IdentityInvariant, PTL

(* A non-empty DID belongs to at most one account, a whitelisted one.      *)
THEOREM IdentityDIDs == Spec => []DIDIndexAgrees
<1>1. IInv => DIDIndexAgrees
  BY DEF IInv
<1> QED  BY <1>1, IdentityInvariant, PTL

(* isWhitelisted never reverts on the subtraction of a date.               *)
THEOREM IdentityDates == Spec => []DatesOrdered
<1>1. IInv => DatesOrdered
  BY DEF IInv
<1> QED  BY <1>1, IdentityInvariant, PTL

-----------------------------------------------------------------------------
(* An addition counts the account as a contract exactly when it has code,  *)
(* and so does a removal.                                                  *)
LEMMA ContractCountMoves ==
  ASSUME TypeOK, ContractCount, code' = code, NEW a \in Accounts,
         _addWhitelisted(a) \/ _removeWhitelisted(a)
  PROVE  ContractCount'
<1> DEFINE S == whitelist \intersect code
<1>0. S \in SUBSET Accounts
  BY DEF TypeOK
<1>1. CASE _addWhitelisted(a) /\ a \in code
  <2>1. (whitelist \intersect code)' = S \union {a} /\ a \notin S
    BY <1>1 DEF _addWhitelisted
  <2>2. whitelistedContracts' = Inc(Cardinality(S))
    BY <1>1 DEF _addWhitelisted, isContract, ContractCount
  <2> QED  BY <1>0, <2>1, <2>2, IncCounts DEF ContractCount
<1>2. CASE _removeWhitelisted(a) /\ a \in code
  <2>1. (whitelist \intersect code)' = S \ {a} /\ a \in S
    BY <1>2 DEF _removeWhitelisted
  <2>2. whitelistedContracts' = Dec(Cardinality(S))
    BY <1>2 DEF _removeWhitelisted, isContract, ContractCount
  <2> QED  BY <1>0, <2>1, <2>2, DecCounts DEF ContractCount
<1>3. CASE a \notin code
  <2>1. (whitelist \intersect code)' = S
    BY <1>3 DEF _addWhitelisted, _removeWhitelisted
  <2>2. whitelistedContracts' = whitelistedContracts
    BY <1>3 DEF _addWhitelisted, _removeWhitelisted, isContract
  <2> QED  BY <2>1, <2>2 DEF ContractCount
<1> QED  BY <1>1, <1>2, <1>3

(* A step either adds one account to the whitelist, removes one, or leaves *)
(* the whitelist, its counters and the DID index alone.                    *)
LEMMA MembershipSteps ==
  ASSUME [Next]_vars
  PROVE  \/ UNCHANGED members
         \/ \E a \in Accounts : _addWhitelisted(a) \/ _removeWhitelisted(a)
<1> USE DEF members, lists, vars
<1>1. CASE MembershipNext
  BY <1>1 DEF MembershipNext, authenticate, addWhitelisted, removeWhitelisted,
     addBlacklisted, removeBlacklisted, addContract, removeContract,
     addWhitelistedWithDID, renounceWhitelisted, setAuthenticationPeriod
<1>2. CASE RoleNext
  BY <1>2 DEF RoleNext, addIdentityAdmin, removeIdentityAdmin, transferOwnership,
     addPauser, renounceIdentityAdmin, renounceOwnership, renouncePauser, pause,
     unpause, RegistrationChanges
<1>3. CASE EnvNext
  BY <1>3 DEF EnvNext, Tick, CodeAppears, CodeDestroyed
<1>4. CASE UNCHANGED vars
  BY <1>4
<1> QED  BY <1>1, <1>2, <1>3, <1>4 DEF Next

(* The contract's functions never make whitelistedContracts drift: only    *)
(* code that appears or is destroyed at a listed address does.             *)
THEOREM IdentityContractCount == Spec => ContractCountKept
<1>1. TypeOK /\ [Next]_vars /\ ContractCount /\ code' = code => ContractCount'
  BY MembershipSteps, ContractCountMoves DEF members, ContractCount
<1>2. TypeOK /\ [Next]_vars => [ContractCount /\ code' = code => ContractCount']_vars
  BY <1>1
<1> QED  BY <1>2, IdentityTypes, PTL DEF Spec, ContractCountKept

(* A DID in use leaves the index only when its holder leaves the           *)
(* whitelist, and is never handed over in one step.                        *)
THEOREM IdentityDIDRelease == Spec => DIDReleasedByRemoval
<1> DEFINE Released(d) ==
      didHashToAddress[d] # Zero /\ didHashToAddress'[d] # didHashToAddress[d] =>
        /\ didHashToAddress'[d] = Zero
        /\ didHashToAddress[d] \in whitelist \ whitelist'
<1>1. ASSUME IInv, [Next]_vars, NEW d \in DIDs \ {NoDID} PROVE Released(d)
  <2>1. CASE UNCHANGED members
    BY <2>1 DEF members
  <2>2. ASSUME NEW a \in Accounts, _removeWhitelisted(a) PROVE Released(d)
    BY <1>1, <2>2 DEF _removeWhitelisted, IInv, TypeOK, DIDIndexAgrees
  <2>3. ASSUME NEW a \in Accounts, _addWhitelisted(a) PROVE Released(d)
    <3>1. \/ UNCHANGED didHashToAddress
          \/ \E did \in DIDs :
               DIDIsFree(did) /\ didHashToAddress' = [didHashToAddress EXCEPT ![did] = a]
      <4> USE <2>3 DEF _addWhitelisted, members, lists, vars
      <4>1. CASE MembershipNext
        BY <4>1 DEF MembershipNext, authenticate, addWhitelisted, removeWhitelisted,
           addBlacklisted, removeBlacklisted, addContract, removeContract,
           addWhitelistedWithDID, renounceWhitelisted, setAuthenticationPeriod,
           _removeWhitelisted
      <4>2. CASE RoleNext
        BY <4>2 DEF RoleNext, addIdentityAdmin, removeIdentityAdmin, transferOwnership,
           addPauser, renounceIdentityAdmin, renounceOwnership, renouncePauser, pause,
           unpause, RegistrationChanges
      <4>3. CASE EnvNext
        BY <4>3 DEF EnvNext, Tick, CodeAppears, CodeDestroyed
      <4>4. CASE UNCHANGED vars
        BY <4>4
      <4> QED  BY <1>1, <4>1, <4>2, <4>3, <4>4 DEF Next
    <3> QED  BY <1>1, <3>1 DEF DIDIsFree, IInv, TypeOK
  <2> QED  BY <1>1, <2>1, <2>2, <2>3, MembershipSteps
<1>2. IInv /\ [Next]_vars => [\A d \in DIDs \ {NoDID} : Released(d)]_vars
  BY <1>1
<1> QED  BY <1>2, IdentityInvariant, PTL DEF Spec, DIDReleasedByRemoval


-----------------------------------------------------------------------------
(* What a step may do to a list member's date: leave it, set it to now, or *)
(* clear it together with the membership.                                  *)
LEMMA AuthenticationSteps ==
  ASSUME [Next]_vars
  PROVE  \/ UNCHANGED <<whitelist, dateAuthenticated>> /\ now' \in {now, now + 1}
         \/ \E a \in Accounts :
              /\ dateAuthenticated' = Authenticated(a)
              /\ whitelist' \subseteq whitelist \union {a} /\ now' = now
         \/ \E a \in Accounts :
              /\ dateAuthenticated' = [dateAuthenticated EXCEPT ![a] = 0]
              /\ whitelist' = whitelist \ {a} /\ now' = now
<1> USE DEF members, lists, vars, env
<1>1. CASE MembershipNext
  BY <1>1 DEF MembershipNext, authenticate, addWhitelisted, removeWhitelisted,
     addBlacklisted, removeBlacklisted, addContract, removeContract,
     addWhitelistedWithDID, renounceWhitelisted, setAuthenticationPeriod,
     _addWhitelisted, _removeWhitelisted
<1>2. CASE RoleNext
  BY <1>2 DEF RoleNext, addIdentityAdmin, removeIdentityAdmin, transferOwnership,
     addPauser, renounceIdentityAdmin, renounceOwnership, renouncePauser, pause,
     unpause, RegistrationChanges
<1>3. CASE EnvNext
  BY <1>3 DEF EnvNext, Tick, CodeAppears, CodeDestroyed
<1>4. CASE UNCHANGED vars
  BY <1>4
<1> QED  BY <1>1, <1>2, <1>3, <1>4 DEF Next

(* More time makes no fewer days.                                          *)
LEMMA DaysMono ==
  ASSUME NEW m \in Nat, NEW n \in Nat, m <= n
  PROVE  m \div Day \in Nat /\ n \div Day \in Nat /\ m \div Day <= n \div Day
<1> DEFINE p == m \div Day
           q == n \div Day
<1>1. Day \in Nat \ {0}
  BY IdentityAssumption
<1>2. p \in Nat /\ Day * p <= m /\ q \in Nat /\ n < Day * q + Day
  BY <1>1
<1> HIDE DEF p, q
<1>3. ASSUME q + 1 <= p PROVE FALSE
  <2>1. Day * (q + 1) <= Day * p /\ Day * (q + 1) = Day * q + Day
    BY <1>1, <1>2, <1>3
  <2> QED  BY <1>1, <1>2, <2>1
<1>4. p \in Nat /\ q \in Nat /\ p <= q
  BY <1>2, <1>3
<1> QED  BY <1>4 DEF p, q

(* Nobody counts as whitelisted again, after a removal or a lapse, without *)
(* an authentication in that step or a longer period.                      *)
THEOREM IdentityReinstated == Spec => ReinstatedByAuthentication
<1> DEFINE Earned(a) ==
      ~isWhitelisted(a) /\ isWhitelisted(a)' =>
        \/ dateAuthenticated'[a] = now
        \/ authenticationPeriod' > authenticationPeriod
<1>1. ASSUME IInv, TypeOK', [Next]_vars, NEW a \in Accounts PROVE Earned(a)
  <2> SUFFICES ASSUME isWhitelisted(a)', dateAuthenticated'[a] # now,
                      authenticationPeriod' <= authenticationPeriod
               PROVE  isWhitelisted(a)
    BY <1>1 DEF IInv, TypeOK
  <2>1. /\ dateAuthenticated'[a] = dateAuthenticated[a] /\ a \in whitelist
        /\ now' \in {now, now + 1}
    BY <1>1, AuthenticationSteps DEF IInv, TypeOK, isWhitelisted, Authenticated
  <2> DEFINE m == now - dateAuthenticated[a]
             n == now' - dateAuthenticated[a]
  <2>2. m \in Nat /\ n \in Nat /\ m <= n
    BY <1>1, <2>1 DEF IInv, TypeOK, DatesOrdered
  <2>3. n \div Day <= authenticationPeriod'
    BY <2>1 DEF isWhitelisted
  <2>4. m \div Day \in Nat /\ n \div Day \in Nat /\ m \div Day <= n \div Day
    BY <2>2, DaysMono
  <2>5. authenticationPeriod \in Nat /\ authenticationPeriod' \in Nat
    BY <1>1 DEF IInv, TypeOK
  <2>6. m \div Day <= authenticationPeriod
    BY <2>3, <2>4, <2>5
  <2> QED  BY <2>1, <2>6 DEF isWhitelisted
<1>2. IInv /\ IInv' /\ [Next]_vars => [\A a \in Accounts : Earned(a)]_vars
  BY <1>1 DEF IInv
<1> QED  BY <1>2, IdentityInvariant, PTL DEF Spec, ReinstatedByAuthentication

(* A DAO contract is struck off by removeContract alone, which takes its   *)
(* membership too.                                                         *)
THEOREM IdentityContractsLeave == Spec => ContractsLeaveBothLists
<1>1. ASSUME [Next]_vars, NEW a \in Accounts, a \in contracts \ contracts'
      PROVE  a \in whitelist \ whitelist'
  <2> USE <1>1 DEF members, lists, vars
  <2>1. CASE MembershipNext
    BY <2>1 DEF MembershipNext, authenticate, addWhitelisted, removeWhitelisted,
       addBlacklisted, removeBlacklisted, addContract, removeContract,
       addWhitelistedWithDID, renounceWhitelisted, setAuthenticationPeriod,
       _removeWhitelisted
  <2>2. CASE RoleNext
    BY <2>2 DEF RoleNext, addIdentityAdmin, removeIdentityAdmin, transferOwnership,
       addPauser, renounceIdentityAdmin, renounceOwnership, renouncePauser, pause,
       unpause, RegistrationChanges
  <2>3. CASE EnvNext
    BY <2>3 DEF EnvNext, Tick, CodeAppears, CodeDestroyed
  <2> QED  BY <2>1, <2>2, <2>3 DEF Next
<1>2. [Next]_vars =>
        [\A a \in Accounts : a \in contracts \ contracts' => a \in whitelist \ whitelist']_vars
  BY <1>1
<1> QED  BY <1>2, PTL DEF Spec, ContractsLeaveBothLists
=============================================================================
