---------------------------- MODULE FirstClaimPool ----------------------------
(***************************************************************************)
(* The pool that pays a user's first claim                                 *)
(* (stakingModel/contracts/FirstClaimPool.sol). It awards a fixed amount   *)
(* to whomever the registered UBI scheme names, and silently awards        *)
(* nothing when it holds less.                                             *)
(*                                                                         *)
(* `balance` is the part of the G$ ledger that the UBI contracts read: the *)
(* scheme ("ubi"), the pool ("pool"), the DAO's avatar ("avatar") and the  *)
(* scheme that was replaced ("prev"). Users' balances are outside.         *)
(***************************************************************************)
EXTENDS Integers

CONSTANTS
  NoScheme,       \* address(0) as the pool's UBI scheme
  ThisScheme,     \* the UBI scheme of module UBIScheme
  OtherScheme,    \* any other address the DAO may name
  InitialAward,   \* _claimAmount of the constructor
  AwardAmounts    \* bound: the award amounts the DAO may set

Holders == {"ubi", "pool", "avatar", "prev"}
Schemes == {NoScheme, ThisScheme, OtherScheme}

ASSUME FirstClaimPoolAssumption ==
  /\ InitialAward \in Nat /\ AwardAmounts \subseteq Nat
  /\ NoScheme # ThisScheme /\ ThisScheme # OtherScheme /\ NoScheme # OtherScheme

VARIABLES
  poolStatus,    \* "deployed", "active" (isActive) or "destroyed"
  ubi,           \* the scheme that may award users
  claimAmount,   \* the award
  balance        \* G$ held by each of Holders

poolVars == <<poolStatus, ubi, claimAmount>>

PoolInit == poolStatus = "deployed" /\ ubi = NoScheme /\ claimAmount = InitialAward

PoolTypeOK ==
  /\ poolStatus \in {"deployed", "active", "destroyed"}
  /\ ubi \in Schemes
  /\ claimAmount \in Nat
  /\ balance \in [Holders -> Nat]

-----------------------------------------------------------------------------
(* awardUser: who may call it, and what it pays.                           *)
CanAward(scheme) == poolStatus = "active" /\ ubi # NoScheme /\ ubi = scheme
MutAwardUnchecked == claimAmount
Award == IF balance["pool"] >= claimAmount THEN claimAmount ELSE 0

(* start(), which the deployer calls once the pool is registered           *)
startPool ==
  /\ poolStatus = "deployed"
  /\ poolStatus' = "active"
  /\ UNCHANGED <<ubi, claimAmount, balance>>

setUBIScheme(scheme) ==
  /\ poolStatus # "destroyed"
  /\ ubi' = scheme
  /\ UNCHANGED <<poolStatus, claimAmount, balance>>

setClaimAmount(amount) ==
  /\ poolStatus # "destroyed"
  /\ claimAmount' = amount
  /\ UNCHANGED <<poolStatus, ubi, balance>>

endPool ==
  /\ poolStatus = "active"
  /\ poolStatus' = "destroyed"
  /\ balance' = [balance EXCEPT !["avatar"] = @ + balance["pool"], !["pool"] = 0]
  /\ UNCHANGED <<ubi, claimAmount>>

PoolNext ==
  \/ startPool
  \/ endPool
  \/ \E scheme \in Schemes : setUBIScheme(scheme)
  \/ \E amount \in AwardAmounts : setClaimAmount(amount)

=============================================================================
