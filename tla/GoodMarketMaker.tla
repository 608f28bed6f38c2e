---------------------------- MODULE GoodMarketMaker ----------------------------
(***************************************************************************)
(* The bonding curve of G$ against cDAI                                    *)
(* (stakingModel/contracts/GoodMarketMaker.sol): the supply, the reserve   *)
(* and the ratio of the curve, from which prices follow. These are the     *)
(* curve's own books: the G$ and the cDAI themselves are elsewhere.        *)
(*                                                                         *)
(* The formula is a parameter, with what BancorFormula's callers rely on.  *)
(***************************************************************************)
EXTENDS Integers

CONSTANTS
  MaxWeight,   \* the ratio 100% (1e6)
  RatioWord,   \* the ratio is stored as a uint32 (2^32)
  OneGD,       \* 1 G$ in its smallest unit (100)
  InitialSupply, InitialReserve, \* what initializeToken is given, with ratio 100%
  Expansions,  \* bound: pairs of numerator and denominator the DAO may set
  MaxSupply, MaxReserve,  \* bounds: the curve ends here
  PurchaseReturn(_, _, _, _), \* calculatePurchaseReturn(supply, reserve, ratio, deposit)
  SaleReturn(_, _, _, _)      \* calculateSaleReturn(supply, reserve, ratio, sold)

(* A sale pays no more than the reserve, and all of it for the whole       *)
(* supply only.                                                            *)
ASSUME GoodMarketMakerAssumption ==
  /\ MaxWeight \in Nat \ {0} /\ OneGD \in Nat \ {0}
  /\ RatioWord \in Nat /\ MaxWeight < RatioWord
  /\ MaxSupply \in Nat /\ MaxReserve \in Nat
  /\ InitialSupply \in 1 .. MaxSupply /\ InitialReserve \in 1 .. MaxReserve
  /\ \A e \in Expansions : e[1] \in Nat /\ e[2] \in Nat \ {0}
  /\ \A s \in 1 .. MaxSupply, r \in 1 .. MaxReserve, w \in 1 .. MaxWeight :
       /\ \A d \in 0 .. MaxReserve : PurchaseReturn(s, r, w, d) \in Nat
       /\ \A a \in 0 .. s : SaleReturn(s, r, w, a) \in 0 .. r
       /\ \A a \in 0 .. s - 1 : SaleReturn(s, r, w, a) < r

VARIABLES
  curve,          \* reserveTokens[cDai]: gdSupply, reserveSupply, reserveRatio
  dailyExpansion, \* reserveRatioDailyExpansion
  marketOwner     \* Ownable: "reserve" or "avatar"

marketVars == <<curve, dailyExpansion, marketOwner>>

Curve(supply, reserve, ratio) ==
  [gdSupply |-> supply, reserveSupply |-> reserve, reserveRatio |-> ratio]

MarketInit ==
  /\ curve = Curve(InitialSupply, InitialReserve, MaxWeight)
  /\ dailyExpansion \in Expansions
  /\ marketOwner = "reserve"

MarketTypeOK ==
  /\ curve \in [gdSupply : Nat, reserveSupply : Nat, reserveRatio : Nat]
  /\ dailyExpansion \in Expansions
  /\ marketOwner \in {"reserve", "avatar"}

-----------------------------------------------------------------------------
(* What the formula requires of a curve; the market maker itself looks at  *)
(* the supply only.                                                        *)
IsValid(c) ==
  /\ c.gdSupply > 0 /\ c.reserveSupply > 0
  /\ c.reserveRatio > 0 /\ c.reserveRatio <= MaxWeight

(* Bound: where the curve of the model ends                                *)
IsCharted(c) == c.gdSupply <= MaxSupply /\ c.reserveSupply <= MaxReserve

buyReturn(c, amount) == PurchaseReturn(c.gdSupply, c.reserveSupply, c.reserveRatio, amount)
sellReturn(c, amount) == SaleReturn(c.gdSupply, c.reserveSupply, c.reserveRatio, amount)

(* The price of 1 G$ is what selling it returns: there must be as much,    *)
(* and what is converted is divided by the price.                          *)
HasPrice(c) == IsValid(c) /\ OneGD <= c.gdSupply /\ sellReturn(c, OneGD) > 0
currentPrice(c) == sellReturn(c, OneGD)
InGD(c, amount) == (amount * OneGD) \div currentPrice(c)

(* A ratio of 0 counts as 100%. The new one is cut to the precision of 1e6 *)
(* and to a uint32; the DAO may set a rate above 1, so that the ratio grows*)
(* beyond 100%.                                                            *)
calculateNewReserveRatio(c) ==
  LET ratio == IF c.reserveRatio = 0 THEN MaxWeight ELSE c.reserveRatio
  IN ((ratio * dailyExpansion[1]) \div dailyExpansion[2]) % RatioWord

(* The supply that keeps the price with the new ratio. A ratio of 0 divides*)
(* by zero; less than today's supply reverts.                              *)
SupplyAtRatio(c, ratio) ==
  (c.reserveSupply * OneGD * MaxWeight) \div (ratio * currentPrice(c))

calculateMintExpansion(c) == SupplyAtRatio(c, calculateNewReserveRatio(c)) - c.gdSupply

CanExpand(c) ==
  /\ HasPrice(c) /\ calculateNewReserveRatio(c) > 0
  /\ calculateMintExpansion(c) >= 0

-----------------------------------------------------------------------------
(* The operations of the owner, from curve to curve.                       *)
Bought(c, amount) ==
  Curve(c.gdSupply + buyReturn(c, amount), c.reserveSupply + amount, c.reserveRatio)

MutMaySellAll(c, amount, contribution) ==
  IsValid(c) /\ amount >= contribution /\ c.gdSupply >= amount
MaySell(c, amount, contribution) ==
  IsValid(c) /\ amount >= contribution /\ c.gdSupply > amount

SaleAfter(c, amount, contribution) == sellReturn(c, amount - contribution)

MutSoldAfterContribution(c, amount, contribution) ==
  Curve(c.gdSupply - (amount - contribution),
        c.reserveSupply - SaleAfter(c, amount, contribution), c.reserveRatio)
Sold(c, amount, contribution) ==
  Curve(c.gdSupply - amount,
        c.reserveSupply - SaleAfter(c, amount, contribution), c.reserveRatio)

(* mintInterest: without interest, nothing                                 *)
calculateMintInterest(c, added) == IF added = 0 THEN 0 ELSE InGD(c, added)
WithInterest(c, added) ==
  Curve(c.gdSupply + calculateMintInterest(c, added), c.reserveSupply + added, c.reserveRatio)

(* mintExpansion and expandReserveRatio                                    *)
Expanded(c) ==
  Curve(c.gdSupply + calculateMintExpansion(c), c.reserveSupply, calculateNewReserveRatio(c))

setReserveRatioDailyExpansion(e) ==
  /\ dailyExpansion' = e
  /\ UNCHANGED <<curve, marketOwner>>
===============================================================================
