------------------------ MODULE GoodFundManager_proofs ------------------------
(***************************************************************************)
(* Proofs about the staking model, for any number of stakers, any amounts, *)
(* any rate and any formula with what the market maker assumes of it.      *)
(***************************************************************************)
EXTENDS GoodFundManager, Sums_proofs, TLAPS

Curves == [gdSupply : 1 .. MaxSupply, reserveSupply : 1 .. MaxReserve,
           reserveRatio : 1 .. RatioWord - 1]

IInv == TypeOK /\ StakesAddUp /\ curve \in Curves

-----------------------------------------------------------------------------
(* Multiplication and division.                                            *)
LEMMA Quotient ==
  ASSUME NEW a \in Nat, NEW d \in Nat \ {0}
  PROVE  a \div d \in Nat /\ d * (a \div d) <= a
OBVIOUS

LEMMA Product ==
  ASSUME NEW a \in Nat \ {0}, NEW b \in Nat \ {0}
  PROVE  a * b \in Nat \ {0}
OBVIOUS

LEMMA TimesMonotone ==
  ASSUME NEW d \in Nat, NEW m \in Nat, NEW n \in Nat, m <= n
  PROVE  d * m \in Nat /\ d * n \in Nat /\ d * m <= d * n
OBVIOUS

(* A quotient by d of no more than d * n is no more than n.                *)
LEMMA QuotientBound ==
  ASSUME NEW a \in Nat, NEW d \in Nat \ {0}, NEW n \in Nat, a <= d * n
  PROVE  a \div d <= n
<1> DEFINE q == a \div d
<1>1. q \in Nat /\ d * q <= a  BY Quotient
<1> HIDE DEF q
<1>2. SUFFICES ASSUME n + 1 <= q PROVE FALSE  BY <1>1 DEF q
<1>3. d * (n + 1) <= d * q  BY TimesMonotone, <1>1, <1>2
<1>4. d * (n + 1) = d * n + d  OBVIOUS
<1> QED  BY <1>1, <1>3, <1>4

(* A part e1 / e2 of n is no more than n.                                  *)
LEMMA PartBound ==
  ASSUME NEW n \in Nat, NEW e1 \in Nat, NEW e2 \in Nat \ {0}, e1 <= e2
  PROVE  (n * e1) \div e2 \in Nat /\ (n * e1) \div e2 <= n
<1>1. n * e1 \in Nat /\ n * e1 <= n * e2  BY TimesMonotone
<1>2. n * e2 = e2 * n  OBVIOUS
<1>3. n * e1 <= e2 * n  BY <1>1, <1>2
<1>4. (n * e1) \div e2 <= n  BY <1>1, <1>3, QuotientBound
<1> QED  BY <1>1, <1>4, Quotient

-----------------------------------------------------------------------------
(* The staking contract has the interest it pays out, and what is left is  *)
(* worth what is staked.                                                   *)
LEMMA InterestFits ==
  ASSUME StakingTypeOK
  PROVE  /\ currentUBIInterest \in Nat
         /\ currentUBIInterest <= cdai["staking"]
         /\ currentUBIInterest > 0 =>
              (cdai["staking"] - currentUBIInterest) * rate >= totalStaked
<1> DEFINE c == cdai["staking"]
           q == (c * rate - totalStaked) \div rate
<1>1. c \in Nat /\ rate \in Nat \ {0} /\ totalStaked \in Nat /\ c * rate \in Nat
  <2>1. c \in Nat /\ rate \in Nat \ {0} /\ totalStaked \in Nat
    BY DEF StakingTypeOK, CDaiHolders
  <2> QED  BY <2>1, TimesMonotone
<1> HIDE DEF c
<1>2. CASE c * rate <= totalStaked
  <2>1. currentUBIInterest = 0  BY <1>2 DEF currentUBIInterest, currentDAIWorth, c
  <2> QED  BY <1>1, <2>1 DEF c
<1>3. CASE ~(c * rate <= totalStaked)
  <2>1. currentUBIInterest = q  BY <1>3 DEF currentUBIInterest, currentDAIWorth, c
  <2>2. c * rate - totalStaked \in Nat /\ c * rate - totalStaked <= rate * c
    BY <1>1, <1>3
  <2>3. q \in Nat /\ rate * q <= c * rate - totalStaked /\ q <= c
    BY <1>1, <2>2, Quotient, QuotientBound
  <2> HIDE DEF q
  <2>4. (c - q) * rate = c * rate - rate * q  BY <1>1, <2>3
  <2>5. rate * q \in Nat  BY <1>1, <2>3, TimesMonotone
  <2>6. (c - q) * rate >= totalStaked  BY <1>1, <2>3, <2>4, <2>5
  <2> QED  BY <2>1, <2>3, <2>6 DEF c
<1> QED  BY <1>2, <1>3

LEMMA InCDaiFacts ==
  ASSUME StakingTypeOK, NEW amount \in Nat
  PROVE  InCDai(amount) \in Nat /\ rate * InCDai(amount) <= amount
<1>1. rate \in Nat \ {0}  BY DEF StakingTypeOK
<1> QED  BY <1>1, Quotient DEF InCDai

-----------------------------------------------------------------------------
(* What becomes of the stakes.                                             *)
LEMMA StakeUpdate ==
  ASSUME SimpleDAIStakingAssumption, StakingTypeOK, StakesAddUp,
         NEW u \in Stakers, NEW n \in Nat,
         stakedDAI' = [stakedDAI EXCEPT ![u] = n],
         totalStaked' = (totalStaked - stakedDAI[u]) + n
  PROVE  /\ stakedDAI' \in [Stakers -> Nat] /\ totalStaked' \in Nat /\ StakesAddUp'
<1>1. stakedDAI \in [Stakers -> Nat] /\ IsFiniteSet(Stakers)
  BY DEF StakingTypeOK, SimpleDAIStakingAssumption
<1>2. SumOf([stakedDAI EXCEPT ![u] = n]) = SumOf(stakedDAI) - stakedDAI[u] + n
  BY <1>1, SumUpdate
<1>3. stakedDAI[u] <= SumOf(stakedDAI) /\ SumOf(stakedDAI) \in Nat  BY <1>1, SumBounds
<1>4. stakedDAI[u] \in Nat  BY <1>1
<1>5. totalStaked' = SumOf(stakedDAI) - stakedDAI[u] + n
  BY <1>3, <1>4 DEF StakesAddUp
<1>6. totalStaked' \in Nat  BY <1>3, <1>4 DEF StakesAddUp
<1>7. StakesAddUp'  BY <1>2, <1>5 DEF StakesAddUp
<1> QED  BY <1>1, <1>6, <1>7

LEMMA StakingStepKeeps ==
  ASSUME SimpleDAIStakingAssumption, StakingTypeOK, StakesAddUp, StakingNext
  PROVE  StakingTypeOK' /\ StakesAddUp'
<1> DEFINE Safe == StakingTypeOK' /\ StakesAddUp'
<1>1. ASSUME NEW u \in Stakers, NEW amount \in DAIAmounts, stakeDAI(u, amount)
      PROVE  Safe
  <2>1. amount \in Nat /\ stakedDAI[u] \in Nat /\ totalStaked \in Nat
    BY DEF StakingTypeOK, SimpleDAIStakingAssumption
  <2>2. InCDai(amount) \in Nat  BY <2>1, InCDaiFacts
  <2>3. cdai' \in [CDaiHolders -> Nat]
    BY <1>1, <2>2 DEF stakeDAI, StakingTypeOK, CDaiHolders
  <2>4. stakedDAI' = [stakedDAI EXCEPT ![u] = stakedDAI[u] + amount]
    BY <1>1 DEF stakeDAI
  <2>5. totalStaked' = (totalStaked - stakedDAI[u]) + (stakedDAI[u] + amount)
    BY <1>1, <2>1 DEF stakeDAI
  <2>6. stakedDAI[u] + amount \in Nat  BY <2>1
  <2>7. stakedDAI' \in [Stakers -> Nat] /\ totalStaked' \in Nat /\ StakesAddUp'
    BY <2>4, <2>5, <2>6, StakeUpdate
  <2> QED  BY <1>1, <2>3, <2>7 DEF stakeDAI, StakingTypeOK, chain, stakingSettings
<1>2. ASSUME NEW u \in Stakers, withdrawStake(u)  PROVE Safe
  <2>1. stakedDAI[u] \in Nat /\ totalStaked \in Nat  BY DEF StakingTypeOK
  <2>2. InCDai(stakedDAI[u]) \in Nat  BY <2>1, InCDaiFacts
  <2>3. cdai' \in [CDaiHolders -> Nat]
    BY <1>2, <2>2 DEF withdrawStake, StakingTypeOK, CDaiHolders
  <2>4. stakedDAI' = [stakedDAI EXCEPT ![u] = 0]  BY <1>2 DEF withdrawStake
  <2>5. totalStaked' = (totalStaked - stakedDAI[u]) + 0
    BY <1>2, <2>1 DEF withdrawStake, LessTotal
  <2>6. stakedDAI' \in [Stakers -> Nat] /\ totalStaked' \in Nat /\ StakesAddUp'
    BY <2>4, <2>5, StakeUpdate
  <2> QED  BY <1>2, <2>3, <2>6 DEF withdrawStake, StakingTypeOK, chain, stakingSettings
<1>3. ASSUME UNCHANGED stakes, cdai' \in [CDaiHolders -> Nat],
             block' \in Nat, rate' \in Nat \ {0}, lastUBICollection' \in Nat,
             stakingPaused' \in BOOLEAN, stakingIsListed' \in BOOLEAN,
             stakingManager' \in FundManagers
      PROVE  Safe
  BY <1>3 DEF stakes, StakingTypeOK, StakesAddUp
<1>4. ASSUME collectedByOther  PROVE Safe
  <2>1. block \div StakeInterval \in Nat
    BY Quotient DEF StakingTypeOK, SimpleDAIStakingAssumption
  <2>2. cdai' \in [CDaiHolders -> Nat]
    BY <1>4, InterestFits DEF collectedByOther, StakingTypeOK, CDaiHolders
  <2> QED
    BY <1>3, <1>4, <2>1, <2>2
       DEF collectedByOther, collectUBIInterest, stakingSettings, chain, StakingTypeOK
<1>5. ASSUME NEW b \in BOOLEAN, startStaking(b)  PROVE Safe
  BY <1>3, <1>5 DEF startStaking, chain, stakes, StakingTypeOK
<1>6. ASSUME NEW b \in BOOLEAN, pauseStaking(b)  PROVE Safe
  BY <1>3, <1>6 DEF pauseStaking, chain, stakes, StakingTypeOK
<1>7. ASSUME NEW manager \in FundManagers, setStakingManager(manager)  PROVE Safe
  BY <1>3, <1>7 DEF setStakingManager, chain, stakes, StakingTypeOK
<1>8. ASSUME NEW b \in BOOLEAN, endStaking(b)  PROVE Safe
  BY <1>3, <1>8 DEF endStaking, chain, stakes, StakingTypeOK
<1>9. ASSUME recoverStaking  PROVE Safe
  <2>1. cdai' \in [CDaiHolders -> Nat]
    BY <1>9 DEF recoverStaking, StakingTypeOK, CDaiHolders
  <2> QED
    BY <1>3, <1>9, <2>1
       DEF recoverStaking, chain, stakingVars, stakingSettings, StakingTypeOK
<1>10. ASSUME NextBlock \/ RateGrows  PROVE Safe
  BY <1>3, <1>10 DEF NextBlock, RateGrows, stakingVars, stakingSettings, StakingTypeOK
<1> QED
  BY <1>1, <1>2, <1>4, <1>5, <1>6, <1>7, <1>8, <1>9, <1>10 DEF StakingNext

-----------------------------------------------------------------------------
(* The curve.                                                              *)
LEMMA CurveFields ==
  ASSUME GoodMarketMakerAssumption, NEW c \in Curves
  PROVE  /\ c.gdSupply \in 1 .. MaxSupply /\ c.reserveSupply \in 1 .. MaxReserve
         /\ c.reserveRatio \in Nat /\ c.reserveRatio > 0 /\ c.reserveRatio < RatioWord
         /\ MaxSupply \in Nat /\ MaxReserve \in Nat /\ MaxWeight \in Nat \ {0}
         /\ IsValid(c) <=> c.reserveRatio \in 1 .. MaxWeight
BY DEF Curves, IsValid, GoodMarketMakerAssumption

LEMMA PriceFacts ==
  ASSUME GoodMarketMakerAssumption, NEW c \in Curves, HasPrice(c)
  PROVE  /\ currentPrice(c) \in Nat \ {0}
         /\ \A amount \in Nat : InGD(c, amount) \in Nat
<1>1. c.gdSupply \in 1 .. MaxSupply /\ c.reserveSupply \in 1 .. MaxReserve
      /\ c.reserveRatio \in 1 .. MaxWeight
  BY CurveFields DEF HasPrice
<1>2. OneGD \in Nat \ {0} /\ OneGD \in 0 .. c.gdSupply
  BY <1>1 DEF HasPrice, GoodMarketMakerAssumption
<1>3. SaleReturn(c.gdSupply, c.reserveSupply, c.reserveRatio, OneGD) \in 0 .. c.reserveSupply
  BY <1>1, <1>2 DEF GoodMarketMakerAssumption
<1>4. currentPrice(c) \in Nat \ {0}
  BY <1>1, <1>3 DEF currentPrice, sellReturn, HasPrice
<1>5. ASSUME NEW amount \in Nat  PROVE InGD(c, amount) \in Nat
  <2>1. amount * OneGD \in Nat  BY <1>2
  <2> QED  BY <1>4, <2>1, Quotient DEF InGD
<1> QED  BY <1>4, <1>5

LEMMA WithinWord ==
  ASSUME NEW n \in Nat, NEW w \in Nat \ {0}
  PROVE  n % w \in Nat /\ n % w < w /\ (n < w => n % w = n)
OBVIOUS

(* The ratio fits its word, and grows at a rate above 1 only.              *)
LEMMA RatioFalls ==
  ASSUME GoodMarketMakerAssumption, MarketTypeOK, NEW c \in Curves
  PROVE  /\ calculateNewReserveRatio(c) \in Nat /\ calculateNewReserveRatio(c) < RatioWord
         /\ dailyExpansion[1] <= dailyExpansion[2] =>
              calculateNewReserveRatio(c) <= c.reserveRatio
<1>1. /\ c.reserveRatio \in Nat /\ c.reserveRatio > 0 /\ c.reserveRatio < RatioWord
      /\ RatioWord \in Nat \ {0}
  BY CurveFields DEF GoodMarketMakerAssumption
<1>2. dailyExpansion[1] \in Nat /\ dailyExpansion[2] \in Nat \ {0}
  BY DEF GoodMarketMakerAssumption, MarketTypeOK
<1> DEFINE new == (c.reserveRatio * dailyExpansion[1]) \div dailyExpansion[2]
<1>3. c.reserveRatio * dailyExpansion[1] \in Nat  BY <1>1, <1>2, TimesMonotone
<1>4. new \in Nat  BY <1>2, <1>3, Quotient
<1>5. dailyExpansion[1] <= dailyExpansion[2] => new <= c.reserveRatio
  BY <1>1, <1>2, PartBound
<1>6. calculateNewReserveRatio(c) = new % RatioWord  BY <1>1 DEF calculateNewReserveRatio
<1> HIDE DEF new
<1>7. new % RatioWord \in Nat /\ new % RatioWord < RatioWord
      /\ (new < RatioWord => new % RatioWord = new)
  BY <1>1, <1>4, WithinWord
<1> QED  BY <1>1, <1>4, <1>5, <1>6, <1>7

(* The curve after interest and expansion, when it ends within the bounds, *)
(* and what the reserve mints for it.                                      *)
LEMMA MintFacts ==
  ASSUME GoodMarketMakerAssumption, MarketTypeOK, curve \in Curves,
         NEW transferred \in Nat, NEW interest \in Nat,
         HasPrice(curve), CanExpand(WithInterest(curve, transferred)),
         gdInterest(interest) <= gdInterestToMint(transferred),
         IsCharted(WithInterest(curve, transferred)), IsCharted(CurveAfter(transferred))
  PROVE  /\ CurveAfter(transferred) \in Curves
         /\ CurveAfter(transferred).reserveSupply = curve.reserveSupply + transferred
         /\ dailyExpansion[1] <= dailyExpansion[2] =>
              CurveAfter(transferred).reserveRatio <= curve.reserveRatio
         /\ gdInterest(interest) \in Nat /\ gdUBI(transferred, interest) \in Nat
         /\ toMint(transferred, interest) =
              CurveAfter(transferred).gdSupply - curve.gdSupply
<1> DEFINE mid == WithInterest(curve, transferred)
           ratio == calculateNewReserveRatio(mid)
           minted == gdInterestToMint(transferred)
           added == gdExpansionToMint(transferred)
           back == gdInterest(interest)
<1>1. /\ curve.gdSupply \in 1 .. MaxSupply /\ curve.reserveSupply \in 1 .. MaxReserve
      /\ MaxSupply \in Nat /\ MaxReserve \in Nat
  BY CurveFields
<1>2. minted \in Nat /\ back \in Nat /\ back <= minted
  BY PriceFacts DEF gdInterestToMint, calculateMintInterest, gdInterest
<1>3. mid = Curve(curve.gdSupply + minted, curve.reserveSupply + transferred, curve.reserveRatio)
  BY DEF WithInterest, gdInterestToMint
<1>4. CurveAfter(transferred) = Curve(mid.gdSupply + added, mid.reserveSupply, ratio)
  BY DEF CurveAfter, Expanded, gdExpansionToMint
<1>5. added >= 0 /\ ratio > 0 /\ HasPrice(mid)  BY DEF CanExpand, gdExpansionToMint
<1>6. gdUBI(transferred, interest) = minted - back + added
      /\ toMint(transferred, interest) = gdUBI(transferred, interest) + back
  BY DEF gdUBI, toMint
<1>7. added = SupplyAtRatio(mid, ratio) - mid.gdSupply
  BY DEF gdExpansionToMint, calculateMintExpansion
<1> HIDE DEF minted, added, back, ratio
<1>8. /\ mid.gdSupply = curve.gdSupply + minted
      /\ mid.reserveSupply = curve.reserveSupply + transferred
      /\ mid.reserveRatio = curve.reserveRatio
  BY <1>3 DEF Curve
<1>9. /\ CurveAfter(transferred).gdSupply = mid.gdSupply + added
      /\ CurveAfter(transferred).reserveSupply = curve.reserveSupply + transferred
      /\ CurveAfter(transferred).reserveRatio = ratio
  BY <1>4, <1>8 DEF Curve
<1>10. mid.gdSupply \in 1 .. MaxSupply /\ mid.reserveSupply \in 1 .. MaxReserve
       /\ mid.gdSupply + added <= MaxSupply
  BY <1>1, <1>2, <1>8, <1>9 DEF IsCharted
<1>11. mid \in Curves
  <2>1. curve.reserveRatio \in 1 .. RatioWord - 1  BY DEF Curves
  <2> QED  BY <1>3, <1>8, <1>10, <2>1 DEF Curves, Curve
<1>12. /\ ratio \in Nat /\ ratio < RatioWord
       /\ dailyExpansion[1] <= dailyExpansion[2] => ratio <= curve.reserveRatio
  BY <1>8, <1>11, RatioFalls DEF ratio
<1>13. added \in Nat
  <2>1. ratio \in Nat \ {0}  BY <1>5, <1>12
  <2>2. currentPrice(mid) \in Nat \ {0}  BY <1>5, <1>11, PriceFacts
  <2>3. ratio * currentPrice(mid) \in Nat \ {0}  BY <2>1, <2>2, Product
  <2>4. mid.reserveSupply \in Nat \ {0} /\ OneGD \in Nat \ {0} /\ MaxWeight \in Nat \ {0}
    BY <1>1, <1>10 DEF GoodMarketMakerAssumption
  <2>5. mid.reserveSupply * OneGD \in Nat \ {0}  BY <2>4, Product
  <2>6. mid.reserveSupply * OneGD * MaxWeight \in Nat \ {0}  BY <2>4, <2>5, Product
  <2>7. SupplyAtRatio(mid, ratio) \in Nat  BY <2>3, <2>6, Quotient DEF SupplyAtRatio
  <2> QED  BY <1>1, <1>5, <1>7, <1>10, <2>7
<1>14. CurveAfter(transferred) \in Curves
  <2>1. mid.gdSupply + added \in 1 .. MaxSupply  BY <1>1, <1>10, <1>13
  <2>2. RatioWord \in Nat  BY DEF GoodMarketMakerAssumption
  <2>3. ratio \in 1 .. RatioWord - 1  BY <1>5, <1>12, <2>2
  <2> QED  BY <1>4, <1>10, <2>1, <2>3 DEF Curves, Curve
<1>15. /\ gdUBI(transferred, interest) \in Nat
       /\ toMint(transferred, interest) = CurveAfter(transferred).gdSupply - curve.gdSupply
  <2>1. minted - back + added \in Nat  BY <1>2, <1>13
  <2>2. (minted - back + added) + back = (curve.gdSupply + minted + added) - curve.gdSupply
    BY <1>1, <1>2, <1>13
  <2>3. CurveAfter(transferred).gdSupply = curve.gdSupply + minted + added  BY <1>8, <1>9
  <2> QED  BY <1>6, <2>1, <2>2, <2>3
<1> QED  BY <1>2, <1>9, <1>12, <1>14, <1>15 DEF back

LEMMA BuyFacts ==
  ASSUME GoodMarketMakerAssumption, curve \in Curves, IsValid(curve), NEW amount \in Nat,
         IsCharted(Bought(curve, amount))
  PROVE  /\ Bought(curve, amount) \in Curves
         /\ buyReturn(curve, amount) \in Nat
         /\ Bought(curve, amount).gdSupply = curve.gdSupply + buyReturn(curve, amount)
         /\ Bought(curve, amount).reserveSupply = curve.reserveSupply + amount
<1>1. /\ curve.gdSupply \in 1 .. MaxSupply /\ curve.reserveSupply \in 1 .. MaxReserve
      /\ curve.reserveRatio \in 1 .. MaxWeight
      /\ MaxSupply \in Nat /\ MaxReserve \in Nat
  BY CurveFields
<1>2. /\ Bought(curve, amount).gdSupply = curve.gdSupply + buyReturn(curve, amount)
      /\ Bought(curve, amount).reserveSupply = curve.reserveSupply + amount
  BY DEF Bought, Curve
<1>3. curve.reserveSupply + amount <= MaxReserve
      /\ curve.gdSupply + buyReturn(curve, amount) <= MaxSupply
  BY <1>2 DEF IsCharted
<1>4. amount \in 0 .. MaxReserve  BY <1>1, <1>3
<1>5. buyReturn(curve, amount) \in Nat  BY <1>1, <1>4 DEF buyReturn, GoodMarketMakerAssumption
<1>6. Bought(curve, amount) \in Curves
  <2>1. curve.gdSupply + buyReturn(curve, amount) \in 1 .. MaxSupply  BY <1>1, <1>3, <1>5
  <2>2. curve.reserveSupply + amount \in 1 .. MaxReserve  BY <1>1, <1>3, <1>4
  <2>3. curve.reserveRatio \in 1 .. RatioWord - 1  BY DEF Curves
  <2> QED  BY <2>1, <2>2, <2>3 DEF Bought, Curve, Curves
<1> QED  BY <1>2, <1>5, <1>6

LEMMA ContributionType ==
  ASSUME GoodFundManagerAssumption, contribution \in ContributionRatios, NEW amount \in Nat
  PROVE  calculateContribution(amount) \in Nat
<1>1. contribution[1] \in Nat /\ contribution[2] \in Nat \ {0}
  BY DEF GoodFundManagerAssumption
<1>2. amount * contribution[1] \in Nat  BY <1>1
<1> QED  BY <1>1, <1>2, Quotient DEF calculateContribution

(* A sale leaves a curve: some supply, and some reserve.                   *)
LEMMA SellFacts ==
  ASSUME GoodMarketMakerAssumption, curve \in Curves,
         NEW amount \in Nat, NEW kept \in Nat, MaySell(curve, amount, kept)
  PROVE  /\ Sold(curve, amount, kept) \in Curves
         /\ SaleAfter(curve, amount, kept) \in Nat
         /\ Sold(curve, amount, kept).gdSupply = curve.gdSupply - amount
         /\ Sold(curve, amount, kept).reserveSupply =
              curve.reserveSupply - SaleAfter(curve, amount, kept)
<1>1. /\ curve.gdSupply \in 1 .. MaxSupply /\ curve.reserveSupply \in 1 .. MaxReserve
      /\ curve.reserveRatio \in 1 .. MaxWeight
      /\ MaxSupply \in Nat /\ MaxReserve \in Nat
  BY CurveFields DEF MaySell
<1>2. kept <= amount /\ amount < curve.gdSupply  BY DEF MaySell
<1>3. amount - kept \in 0 .. curve.gdSupply - 1 /\ amount - kept \in 0 .. curve.gdSupply
  BY <1>1, <1>2
<1> DEFINE paid == SaleAfter(curve, amount, kept)
<1>4. paid \in 0 .. curve.reserveSupply /\ paid < curve.reserveSupply
  BY <1>1, <1>3 DEF SaleAfter, sellReturn, GoodMarketMakerAssumption
<1>5. /\ Sold(curve, amount, kept).gdSupply = curve.gdSupply - amount
      /\ Sold(curve, amount, kept).reserveSupply = curve.reserveSupply - paid
  BY DEF Sold, Curve
<1>6. Sold(curve, amount, kept) \in Curves
  <2>1. curve.gdSupply - amount \in 1 .. MaxSupply  BY <1>1, <1>2
  <2>2. curve.reserveSupply - paid \in 1 .. MaxReserve  BY <1>1, <1>4
  <2>3. curve.reserveRatio \in 1 .. RatioWord - 1  BY DEF Curves
  <2> QED  BY <2>1, <2>2, <2>3 DEF Sold, Curve, Curves
<1> QED  BY <1>1, <1>4, <1>5, <1>6

-----------------------------------------------------------------------------
(* The invariant.                                                          *)
ContractsTypeOK ==
  /\ gd \in [GDHolders -> Nat]
  /\ reserveStatus \in {"deployed", "active", "destroyed"}
  /\ reserveManager \in FundManagers
  /\ reserveInterval \in Nat \ {0} /\ lastMinted \in Nat
  /\ reserveIsMinter \in BOOLEAN /\ contribution \in ContributionRatios
  /\ fundStatus \in {"deployed", "active", "destroyed"}
  /\ fundReserve \in {"none", "reserve"}
  /\ fundInterval \in Nat \ {0} /\ lastTransferred \in Nat

LEMMA TypeParts == TypeOK <=> StakingTypeOK /\ MarketTypeOK /\ ContractsTypeOK
BY DEF TypeOK, ContractsTypeOK

(* The constants' assumptions, for the steps below.                        *)
Assumptions ==
  SimpleDAIStakingAssumption /\ GoodMarketMakerAssumption /\ GoodFundManagerAssumption

LEMMA AssumptionsHold == Assumptions
BY SimpleDAIStakingAssumption, GoodMarketMakerAssumption, GoodFundManagerAssumption
   DEF Assumptions

LEMMA InitInvariant == Init => IInv
<1> SUFFICES ASSUME Init PROVE IInv  OBVIOUS
<1>1. Assumptions  BY AssumptionsHold
<1>2. StakingTypeOK
  <2>1. StakingInit /\ cdai = [h \in CDaiHolders |-> 0]  BY DEF Init
  <2>2. cdai \in [CDaiHolders -> Nat]  BY <2>1
  <2>3. stakedDAI \in [Stakers -> Nat]  BY <2>1 DEF StakingInit
  <2>4. stakingPaused \in BOOLEAN /\ stakingIsListed \in BOOLEAN
        /\ stakingManager \in FundManagers
    BY <2>1, Zenon DEF StakingInit, FundManagers
  <2>5. block \in Nat /\ rate \in Nat \ {0} /\ totalStaked \in Nat /\ lastUBICollection \in Nat
    BY <2>1 DEF StakingInit
  <2> QED  BY <2>2, <2>3, <2>4, <2>5 DEF StakingTypeOK
<1>3. StakesAddUp
  BY SumOfZeroes DEF Init, StakingInit, StakesAddUp
<1>4. curve \in Curves
  BY <1>1 DEF Init, MarketInit, Curve, Curves, Assumptions, GoodMarketMakerAssumption
<1>5. MarketTypeOK
  BY <1>1 DEF Init, MarketInit, MarketTypeOK, Curve, Assumptions, GoodMarketMakerAssumption
<1>6. ContractsTypeOK
  BY <1>1 DEF Init, ContractsTypeOK, FundManagers, Assumptions, GoodFundManagerAssumption
<1> QED  BY <1>2, <1>3, <1>4, <1>5, <1>6, TypeParts DEF IInv
(* Steps of trade, of interest and of the DAO leave the stakes alone, and  *)
(* the block and the rate.                                                 *)
LEMMA OutsideStaking ==
  ASSUME IInv, UNCHANGED <<chain, stakes, stakingSettings>>,
         cdai' \in [CDaiHolders -> Nat], lastUBICollection' \in Nat,
         curve' \in Curves, MarketTypeOK', ContractsTypeOK'
  PROVE  IInv'
<1>1. StakingTypeOK'
  BY TypeParts DEF IInv, StakingTypeOK, chain, stakes, stakingSettings
<1>2. StakesAddUp'  BY DEF IInv, StakesAddUp, stakes
<1> QED  BY <1>1, <1>2, TypeParts DEF IInv, TypeOK, ContractsTypeOK

(* What an action of the reserve does to the curve, cDAI and G$.           *)
LEMMA BuyStep ==
  ASSUME IInv, NEW amount \in CDaiAmounts, buy(amount)
  PROVE  IInv'
<1>1. amount \in Nat  BY AssumptionsHold DEF Assumptions, GoodFundManagerAssumption
<1>2. /\ Bought(curve, amount) \in Curves /\ buyReturn(curve, amount) \in Nat
  BY <1>1, BuyFacts, AssumptionsHold DEF Assumptions, IInv, buy
<1>3. StakingTypeOK /\ MarketTypeOK /\ ContractsTypeOK  BY TypeParts DEF IInv
<1>4. cdai' \in [CDaiHolders -> Nat] /\ curve' \in Curves
  BY <1>1, <1>2, <1>3 DEF buy, StakingTypeOK, CDaiHolders
<1>5. gd' \in [GDHolders -> Nat]
  BY <1>2, <1>3 DEF buy, ContractsTypeOK, GDHolders
<1>6. ContractsTypeOK'
  BY <1>3, <1>5 DEF buy, ContractsTypeOK, reserveVars, fundVars
<1>7. MarketTypeOK'
  BY <1>3, <1>4, AssumptionsHold
     DEF buy, MarketTypeOK, Curves, Assumptions, GoodMarketMakerAssumption
<1>8. UNCHANGED <<chain, stakes, stakingSettings>> /\ lastUBICollection' \in Nat
  BY <1>3 DEF buy, stakingVars, StakingTypeOK
<1> QED  BY <1>4, <1>6, <1>7, <1>8, OutsideStaking

LEMMA SellStep ==
  ASSUME IInv, NEW amount \in GDAmounts, sell(amount)
  PROVE  IInv'
<1> DEFINE kept == calculateContribution(amount)
<1>1. amount \in Nat  BY AssumptionsHold DEF Assumptions, GoodFundManagerAssumption
<1>2. StakingTypeOK /\ MarketTypeOK /\ ContractsTypeOK  BY TypeParts DEF IInv
<1>3. kept \in Nat
  BY <1>1, <1>2, ContributionType, AssumptionsHold DEF Assumptions, ContractsTypeOK
<1>4. Sold(curve, amount, kept) \in Curves /\ SaleAfter(curve, amount, kept) \in Nat
  BY <1>1, <1>3, SellFacts, AssumptionsHold DEF Assumptions, IInv, sell
<1>5. cdai' \in [CDaiHolders -> Nat] /\ curve' \in Curves
  BY <1>2, <1>4 DEF sell, StakingTypeOK, CDaiHolders
<1>6. gd' \in [GDHolders -> Nat]
  BY <1>1, <1>2 DEF sell, ContractsTypeOK, GDHolders
<1>7. ContractsTypeOK'
  BY <1>2, <1>6 DEF sell, ContractsTypeOK, reserveVars, fundVars
<1>8. MarketTypeOK'
  BY <1>2, <1>5, AssumptionsHold
     DEF sell, MarketTypeOK, Curves, Assumptions, GoodMarketMakerAssumption
<1>9. UNCHANGED <<chain, stakes, stakingSettings>> /\ lastUBICollection' \in Nat
  BY <1>2 DEF sell, stakingVars, StakingTypeOK
<1> QED  BY <1>5, <1>7, <1>8, <1>9, OutsideStaking

LEMMA MintTypes ==
  ASSUME IInv, NEW transferred \in Nat, NEW interest \in Nat, NEW manager,
         MayMint(manager, transferred, interest)
  PROVE  /\ CurveAfter(transferred) \in Curves
         /\ CurveAfter(transferred).reserveSupply = curve.reserveSupply + transferred
         /\ dailyExpansion[1] <= dailyExpansion[2] =>
              CurveAfter(transferred).reserveRatio <= curve.reserveRatio
         /\ gdInterest(interest) \in Nat /\ gdUBI(transferred, interest) \in Nat
         /\ toMint(transferred, interest) =
              CurveAfter(transferred).gdSupply - curve.gdSupply
         /\ block \div reserveInterval \in Nat
<1>1. MarketTypeOK /\ curve \in Curves /\ ContractsTypeOK /\ StakingTypeOK
  BY TypeParts DEF IInv
<1>2. block \div reserveInterval \in Nat
  BY <1>1, Quotient DEF ContractsTypeOK, StakingTypeOK
<1> QED  BY <1>1, <1>2, MintFacts, AssumptionsHold DEF Assumptions, MayMint

LEMMA MintedByOtherStep ==
  ASSUME IInv, NEW transferred \in CDaiAmounts, NEW interest \in CDaiAmounts,
         mintedByOther(transferred, interest)
  PROVE  IInv'
<1>1. transferred \in Nat /\ interest \in Nat
  BY AssumptionsHold DEF Assumptions, GoodFundManagerAssumption
<1>2. StakingTypeOK /\ MarketTypeOK /\ ContractsTypeOK  BY TypeParts DEF IInv
<1>3. /\ CurveAfter(transferred) \in Curves /\ block \div reserveInterval \in Nat
      /\ toMint(transferred, interest) \in Nat
  BY <1>1, MintTypes DEF mintedByOther, toMint
<1>4. cdai' \in [CDaiHolders -> Nat] /\ curve' \in Curves
  BY <1>1, <1>2, <1>3 DEF mintedByOther, StakingTypeOK, CDaiHolders
<1>5. gd' \in [GDHolders -> Nat]
  BY <1>2, <1>3 DEF mintedByOther, ContractsTypeOK, GDHolders
<1>6. ContractsTypeOK'
  BY <1>2, <1>3, <1>5 DEF mintedByOther, ContractsTypeOK, fundVars
<1>7. MarketTypeOK'
  BY <1>2, <1>4, AssumptionsHold
     DEF mintedByOther, MarketTypeOK, Curves, Assumptions, GoodMarketMakerAssumption
<1>8. UNCHANGED <<chain, stakes, stakingSettings>> /\ lastUBICollection' \in Nat
  BY <1>2 DEF mintedByOther, stakingVars, StakingTypeOK
<1> QED  BY <1>4, <1>6, <1>7, <1>8, OutsideStaking

LEMMA TransferStep ==
  ASSUME IInv, transferInterest
  PROVE  IInv'
<1> DEFINE interest == currentUBIInterest
           donated == (interest * DonationRatio) \div MaxWeight
           left == interest - donated
<1>1. StakingTypeOK /\ MarketTypeOK /\ ContractsTypeOK  BY TypeParts DEF IInv
<1>2. interest \in Nat /\ interest <= cdai["staking"]  BY <1>1, InterestFits
<1>3. MayMint("fund", interest, left)  BY DEF transferInterest
<1>4. cdai' = [cdai EXCEPT !["staking"] = @ - interest, !["reserve"] = @ + interest]
      /\ curve' = CurveAfter(interest)
      /\ gd' = [gd EXCEPT !["staking"] = @ + gdInterest(left),
                          !["bridge"] = @ + gdUBI(interest, left)]
  BY DEF transferInterest
<1> HIDE DEF interest
<1>5. donated \in Nat /\ donated <= interest
  <2>1. DonationRatio \in Nat /\ MaxWeight \in Nat \ {0} /\ DonationRatio <= MaxWeight
    BY AssumptionsHold DEF Assumptions, GoodFundManagerAssumption, GoodMarketMakerAssumption
  <2> QED  BY <1>2, <2>1, PartBound
<1> HIDE DEF donated
<1>6. left \in Nat  BY <1>2, <1>5
<1> HIDE DEF left
<1>7. /\ CurveAfter(interest) \in Curves
      /\ gdInterest(left) \in Nat /\ gdUBI(interest, left) \in Nat
      /\ block \div reserveInterval \in Nat
  BY <1>2, <1>3, <1>6, MintTypes
<1>8. cdai' \in [CDaiHolders -> Nat] /\ curve' \in Curves
  BY <1>1, <1>2, <1>4, <1>7 DEF StakingTypeOK, CDaiHolders
<1>9. gd' \in [GDHolders -> Nat]
  <2>1. \A h \in GDHolders : gd[h] \in Nat  BY <1>1 DEF ContractsTypeOK
  <2>2. gd["bridge"] + gdUBI(interest, left) \in Nat
    BY <1>7, <2>1 DEF GDHolders
  <2>3. gd["staking"] + gdInterest(left) \in Nat  BY <1>7, <2>1 DEF GDHolders
  <2> QED  BY <1>1, <1>4, <2>2, <2>3 DEF ContractsTypeOK, GDHolders
<1>10. block \div fundInterval \in Nat /\ block \div StakeInterval \in Nat
  BY <1>1, Quotient, AssumptionsHold
     DEF ContractsTypeOK, StakingTypeOK, Assumptions, SimpleDAIStakingAssumption
<1>11. ContractsTypeOK'
  BY <1>1, <1>7, <1>9, <1>10 DEF transferInterest, ContractsTypeOK
<1>12. MarketTypeOK'
  BY <1>1, <1>8, AssumptionsHold
     DEF transferInterest, MarketTypeOK, Curves, Assumptions, GoodMarketMakerAssumption
<1>13. UNCHANGED <<chain, stakes, stakingSettings>> /\ lastUBICollection' \in Nat
  BY <1>10 DEF transferInterest, collectUBIInterest
<1> QED  BY <1>8, <1>11, <1>12, <1>13, OutsideStaking
LEMMA AvatarStep ==
  ASSUME IInv, AvatarNext
  PROVE  IInv' /\ UNCHANGED <<curve, gd>> /\ cdai'["staking"] = cdai["staking"]
         /\ (cdai'["reserve"] = cdai["reserve"] \/ cdai'["avatar"] > cdai["avatar"])
<1> DEFINE Safe == /\ IInv' /\ UNCHANGED <<curve, gd>> /\ cdai'["staking"] = cdai["staking"]
                   /\ (cdai'["reserve"] = cdai["reserve"] \/ cdai'["avatar"] > cdai["avatar"])
<1>1. StakingTypeOK /\ MarketTypeOK /\ ContractsTypeOK /\ curve \in Curves
  BY TypeParts DEF IInv
<1>2. Intervals \subseteq Nat \ {0}
  BY AssumptionsHold DEF Assumptions, GoodFundManagerAssumption
<1>3. ASSUME UNCHANGED <<chain, stakingVars, marketVars, cdai, gd>>, ContractsTypeOK'
      PROVE  Safe
  <2>1. MarketTypeOK' /\ curve' \in Curves  BY <1>1, <1>3 DEF marketVars, MarketTypeOK
  <2>2. UNCHANGED <<chain, stakes, stakingSettings>> /\ lastUBICollection' \in Nat
        /\ cdai' \in [CDaiHolders -> Nat]
    BY <1>1, <1>3 DEF stakingVars, StakingTypeOK
  <2> QED  BY <1>3, <2>1, <2>2, OutsideStaking DEF marketVars
<1>4. ASSUME NEW interval \in Intervals, setReserveInterval(interval)  PROVE Safe
  BY <1>1, <1>2, <1>3, <1>4 DEF setReserveInterval, ContractsTypeOK, fundVars
<1>5. ASSUME NEW interval \in Intervals, setFundInterval(interval)  PROVE Safe
  BY <1>1, <1>2, <1>3, <1>5 DEF setFundInterval, ContractsTypeOK, reserveVars
<1>6. ASSUME NEW manager \in FundManagers, setReserveManager(manager)  PROVE Safe
  BY <1>1, <1>3, <1>6 DEF setReserveManager, ContractsTypeOK, fundVars
<1>7. ASSUME NEW r \in {"none", "reserve"}, setReserve(r)  PROVE Safe
  BY <1>1, <1>3, <1>7 DEF setReserve, ContractsTypeOK, reserveVars
<1>8. ASSUME NEW q \in ContributionRatios, setContributionRatio(q)  PROVE Safe
  BY <1>1, <1>3, <1>8 DEF setContributionRatio, ContractsTypeOK, fundVars
<1>9. ASSUME endFund  PROVE Safe
  BY <1>1, <1>3, <1>9 DEF endFund, ContractsTypeOK, reserveVars
<1>10. ASSUME endReserve \/ recoverReserve  PROVE Safe
  <2>1. cdai' = [cdai EXCEPT !["avatar"] = @ + cdai["reserve"], !["reserve"] = 0]
    BY <1>10 DEF endReserve, recoverReserve
  <2>2. /\ cdai' \in [CDaiHolders -> Nat]
        /\ cdai'["staking"] = cdai["staking"]
        /\ (cdai'["reserve"] = cdai["reserve"] \/ cdai'["avatar"] > cdai["avatar"])
    BY <1>1, <2>1 DEF StakingTypeOK, CDaiHolders
  <2>3. UNCHANGED <<chain, stakes, stakingSettings, curve, gd>> /\ lastUBICollection' \in Nat
    BY <1>1, <1>10
       DEF endReserve, recoverReserve, stakingVars, marketVars, StakingTypeOK
  <2>4. MarketTypeOK' /\ curve' \in Curves
    BY <1>1, <1>10 DEF endReserve, recoverReserve, marketVars, MarketTypeOK
  <2>5. ContractsTypeOK'
    <3>1. CASE endReserve
      BY <1>1, <3>1 DEF endReserve, ContractsTypeOK, fundVars
    <3>2. CASE recoverReserve
      BY <1>1, <3>2 DEF recoverReserve, ContractsTypeOK, fundVars, reserveVars
    <3> QED  BY <1>10, <3>1, <3>2
  <2> QED  BY <2>2, <2>3, <2>4, <2>5, OutsideStaking
<1> QED
  BY <1>4, <1>5, <1>6, <1>7, <1>8, <1>9, <1>10 DEF AvatarNext

(* The other steps of anybody, and the DAO's new expansion.                *)
LEMMA OtherStep ==
  ASSUME IInv,
         \/ \E amount \in GDAmounts : OtherGD(amount)
         \/ \E minter \in BOOLEAN : startReserve(minter)
         \/ startFund
         \/ MarketStep
  PROVE  IInv' /\ UNCHANGED <<curve, cdai>>
<1>1. StakingTypeOK /\ MarketTypeOK /\ ContractsTypeOK /\ curve \in Curves
  BY TypeParts DEF IInv
<1>2. ASSUME UNCHANGED <<chain, stakingVars, curve, cdai>>, MarketTypeOK', ContractsTypeOK'
      PROVE  IInv'
  <2>1. UNCHANGED <<chain, stakes, stakingSettings>> /\ lastUBICollection' \in Nat
        /\ cdai' \in [CDaiHolders -> Nat]
    BY <1>1, <1>2 DEF stakingVars, StakingTypeOK
  <2> QED  BY <1>1, <1>2, <2>1, OutsideStaking
<1>3. ASSUME NEW amount \in GDAmounts, OtherGD(amount)
      PROVE  IInv' /\ UNCHANGED <<curve, cdai>>
  <2>1. amount \in Nat  BY AssumptionsHold DEF Assumptions, GoodFundManagerAssumption
  <2>2. gd' \in [GDHolders -> Nat]  BY <1>1, <1>3, <2>1 DEF OtherGD, ContractsTypeOK, GDHolders
  <2>3. ContractsTypeOK'
    BY <1>1, <1>3, <2>2 DEF OtherGD, ContractsTypeOK, reserveVars, fundVars
  <2> QED  BY <1>1, <1>2, <1>3, <2>3 DEF OtherGD, marketVars, MarketTypeOK
<1>4. ASSUME NEW minter \in BOOLEAN, startReserve(minter)
      PROVE  IInv' /\ UNCHANGED <<curve, cdai>>
  <2>1. ContractsTypeOK'  BY <1>1, <1>4 DEF startReserve, ContractsTypeOK, fundVars
  <2> QED  BY <1>1, <1>2, <1>4, <2>1 DEF startReserve, marketVars, MarketTypeOK
<1>5. ASSUME startFund  PROVE IInv' /\ UNCHANGED <<curve, cdai>>
  <2>1. ContractsTypeOK'  BY <1>1, <1>5 DEF startFund, ContractsTypeOK, reserveVars
  <2> QED  BY <1>1, <1>2, <1>5, <2>1 DEF startFund, marketVars, MarketTypeOK
<1>6. ASSUME MarketStep  PROVE IInv' /\ UNCHANGED <<curve, cdai>>
  <2>1. MarketTypeOK' /\ UNCHANGED curve
    BY <1>1, <1>6 DEF MarketStep, setReserveRatioDailyExpansion, MarketTypeOK
  <2>2. ContractsTypeOK'
    BY <1>1, <1>6 DEF MarketStep, ContractsTypeOK, reserveVars, fundVars
  <2> QED  BY <1>2, <1>6, <2>1, <2>2 DEF MarketStep
<1> QED  BY <1>3, <1>4, <1>5, <1>6

LEMMA StepInvariant == IInv /\ [Next]_vars => IInv'
<1> SUFFICES ASSUME IInv, [Next]_vars PROVE IInv'  OBVIOUS
<1>1. CASE UNCHANGED vars
  <2>1. StakingTypeOK /\ MarketTypeOK /\ ContractsTypeOK /\ curve \in Curves
    BY TypeParts DEF IInv
  <2>2. UNCHANGED <<chain, stakes, stakingSettings, lastUBICollection, cdai>>
        /\ UNCHANGED <<marketVars, gd, reserveVars, fundVars>>
    BY <1>1 DEF vars, stakingVars
  <2>3. MarketTypeOK' /\ ContractsTypeOK' /\ curve' \in Curves
    BY <2>1, <2>2 DEF marketVars, reserveVars, fundVars, MarketTypeOK, ContractsTypeOK
  <2> QED  BY <2>1, <2>2, <2>3, OutsideStaking DEF StakingTypeOK
<1>2. CASE StakingStep
  <2>1. StakingTypeOK /\ MarketTypeOK /\ ContractsTypeOK /\ curve \in Curves /\ StakesAddUp
    BY TypeParts DEF IInv
  <2>2. StakingTypeOK' /\ StakesAddUp'
    BY <1>2, <2>1, StakingStepKeeps, AssumptionsHold DEF StakingStep, Assumptions
  <2>3. MarketTypeOK' /\ ContractsTypeOK' /\ curve' \in Curves
    BY <1>2, <2>1
       DEF StakingStep, marketVars, reserveVars, fundVars, MarketTypeOK, ContractsTypeOK
  <2> QED  BY <2>2, <2>3 DEF IInv, TypeOK, ContractsTypeOK
<1>3. CASE AvatarNext  BY <1>3, AvatarStep
<1>4. CASE MarketStep  BY <1>4, OtherStep
<1>5. CASE AnybodyNext
  BY <1>5, BuyStep, SellStep, MintedByOtherStep, TransferStep, OtherStep DEF AnybodyNext
<1> QED  BY <1>1, <1>2, <1>3, <1>4, <1>5 DEF Next

-----------------------------------------------------------------------------
(* The types, the stakes and the curve, in every state.                    *)
THEOREM StakingInvariant == Spec => []IInv
<1>1. IInv /\ [Next]_vars => IInv'  BY StepInvariant
<1> QED  BY <1>1, InitInvariant, PTL DEF Spec

THEOREM StakingTypes == Spec => []TypeOK
<1>1. IInv => TypeOK  BY DEF IInv
<1> QED  BY <1>1, StakingInvariant, PTL

(* What is withdrawn in total is what the interest is measured against:    *)
(* totalStaked is the sum of the stakes, after any deposits, withdrawals,  *)
(* collections, pauses and recoveries.                                     *)
THEOREM StakesAlwaysAddUp == Spec => []StakesAddUp
<1>1. IInv => StakesAddUp  BY DEF IInv
<1> QED  BY <1>1, StakingInvariant, PTL

LEMMA StakingAside ==
  ASSUME IInv, StakingStep
  PROVE  /\ UNCHANGED curve
         /\ cdai'["reserve"] = cdai["reserve"]
<1>1. StakingTypeOK  BY TypeParts DEF IInv
<1> QED
  BY <1>1
     DEF StakingStep, StakingNext, StakingTypeOK, CDaiHolders, marketVars, withdrawStake,
         stakeDAI, collectedByOther, startStaking, pauseStaking, setStakingManager,
         endStaking, recoverStaking, NextBlock, RateGrows

(* A valid curve is left by a rate above 1 only, and then for its ratio.   *)
LEMMA CurveLeftByRate ==
  ASSUME IInv, Next, IsValid(curve), ~IsValid(curve')
  PROVE  /\ dailyExpansion[1] > dailyExpansion[2]
         /\ curve'.reserveRatio > MaxWeight
         /\ curve'.gdSupply > 0 /\ curve'.reserveSupply > 0
<1>1. Assumptions  BY AssumptionsHold
<1>2. curve \in Curves /\ MarketTypeOK  BY TypeParts DEF IInv
<1>3. curve' \in Curves  BY StepInvariant DEF IInv
<1>4. /\ curve.reserveRatio \in 1 .. MaxWeight /\ MaxWeight \in Nat
      /\ IsValid(curve') <=> curve'.reserveRatio \in 1 .. MaxWeight
  BY <1>1, <1>2, <1>3, CurveFields DEF Assumptions, IsValid
<1>5. /\ curve'.reserveRatio \in Nat /\ curve'.reserveRatio > 0
      /\ curve'.gdSupply > 0 /\ curve'.reserveSupply > 0
  BY <1>1, <1>3, CurveFields DEF Assumptions
<1>6. curve'.reserveRatio > MaxWeight  BY <1>4, <1>5
<1>7. curve'.reserveRatio > curve.reserveRatio  BY <1>4, <1>5, <1>6
<1>8. dailyExpansion[1] \in Nat /\ dailyExpansion[2] \in Nat
  BY <1>1, <1>2 DEF Assumptions, GoodMarketMakerAssumption, MarketTypeOK
<1>9. ASSUME NEW transferred \in Nat, NEW interest \in Nat, NEW manager,
             MayMint(manager, transferred, interest), curve' = CurveAfter(transferred)
      PROVE  dailyExpansion[1] > dailyExpansion[2]
  <2>1. dailyExpansion[1] <= dailyExpansion[2] => curve'.reserveRatio <= curve.reserveRatio
    BY <1>9, MintTypes
  <2> QED  BY <1>4, <1>5, <1>7, <1>8, <2>1
<1>10. AnybodyNext /\ curve' # curve
  BY <1>4, <1>6, StakingAside, AvatarStep, OtherStep DEF Next
<1>11. ASSUME NEW amount \in CDaiAmounts, buy(amount)  PROVE FALSE
  <2>1. curve'.reserveRatio = curve.reserveRatio  BY <1>11 DEF buy, Bought, Curve
  <2> QED  BY <1>4, <1>6, <2>1
<1>12. ASSUME NEW amount \in GDAmounts, sell(amount)  PROVE FALSE
  <2>1. curve'.reserveRatio = curve.reserveRatio  BY <1>12 DEF sell, Sold, Curve
  <2> QED  BY <1>4, <1>6, <2>1
<1>13. ASSUME NEW amount \in CDaiAmounts, NEW interest \in CDaiAmounts,
              mintedByOther(amount, interest)
       PROVE  dailyExpansion[1] > dailyExpansion[2]
  <2>1. amount \in Nat /\ interest \in Nat  BY <1>1 DEF Assumptions, GoodFundManagerAssumption
  <2> QED  BY <1>9, <1>13, <2>1 DEF mintedByOther
<1>14. ASSUME transferInterest  PROVE dailyExpansion[1] > dailyExpansion[2]
  <2> DEFINE interest == currentUBIInterest
             donated == (interest * DonationRatio) \div MaxWeight
  <2>1. interest \in Nat  BY InterestFits, TypeParts DEF IInv
  <2>2. MayMint("fund", interest, interest - donated) /\ curve' = CurveAfter(interest)
    BY <1>14 DEF transferInterest
  <2> HIDE DEF interest
  <2>3. interest - donated \in Nat
    <3>1. DonationRatio \in Nat /\ MaxWeight \in Nat \ {0} /\ DonationRatio <= MaxWeight
      BY <1>1 DEF Assumptions, GoodFundManagerAssumption, GoodMarketMakerAssumption
    <3>2. donated \in Nat /\ donated <= interest  BY <2>1, <3>1, PartBound
    <3> QED  BY <2>1, <3>2
  <2> QED  BY <1>9, <2>1, <2>2, <2>3
<1>15. dailyExpansion[1] > dailyExpansion[2]
  BY <1>10, <1>11, <1>12, <1>13, <1>14, OtherStep DEF AnybodyNext
<1> QED  BY <1>5, <1>6, <1>15

(* No sequence of purchases, sales, interest and expansions brings the     *)
(* curve to where the formula refuses it, but an expansion at a rate above *)
(* 1, for any formula that keeps some reserve as long as it keeps supply.  *)
THEOREM CurveIsAlwaysValid == Spec => CurveStaysValid
<1>1. IInv /\ [Next]_vars =>
        [IsValid(curve) =>
           \/ IsValid(curve')
           \/ /\ dailyExpansion[1] > dailyExpansion[2]
              /\ curve'.reserveRatio > MaxWeight
              /\ curve'.gdSupply > 0 /\ curve'.reserveSupply > 0]_vars
  BY CurveLeftByRate
<1> QED  BY <1>1, StakingInvariant, PTL DEF CurveStaysValid, Spec

-----------------------------------------------------------------------------
(* A shortfall of the staking contract is no worse after what is paid out. *)
LEMMA WithdrawKeepsPrincipal ==
  ASSUME IInv, NEW u \in Stakers, withdrawStake(u)
  PROVE  Shortfall' <= Shortfall
<1> DEFINE c == cdai["staking"]
           a == stakedDAI[u]
           q == InCDai(stakedDAI[u])
<1>1. StakingTypeOK  BY TypeParts DEF IInv
<1>2. c \in Nat /\ a \in Nat /\ rate \in Nat \ {0} /\ totalStaked \in Nat
  BY <1>1 DEF StakingTypeOK, CDaiHolders
<1>3. q \in Nat /\ rate * q <= a  BY <1>1, <1>2, InCDaiFacts
<1>4. q <= c /\ a <= totalStaked  BY DEF withdrawStake
<1>5. rate' = rate /\ totalStaked' = totalStaked - a /\ cdai'["staking"] = c - q
  <2>1. cdai' = [cdai EXCEPT !["staking"] = c - q]  BY DEF withdrawStake
  <2> QED  BY <1>1, <2>1 DEF withdrawStake, LessTotal, chain, StakingTypeOK, CDaiHolders
<1> HIDE DEF c, a, q
<1>6. currentDAIWorth = c * rate /\ currentDAIWorth' = (c - q) * rate
  BY <1>5 DEF currentDAIWorth, c
<1>7. (c - q) * rate = c * rate - rate * q  BY <1>2, <1>3
<1>8. c * rate \in Nat /\ rate * q \in Nat
  BY <1>2, <1>3, TimesMonotone
<1> DEFINE w == currentDAIWorth
           v == currentDAIWorth'
<1>9. w \in Nat /\ v \in Int /\ v >= w - a
  BY <1>2, <1>3, <1>6, <1>7, <1>8
<1>10. Shortfall = (IF w >= totalStaked THEN 0 ELSE totalStaked - w)
       /\ Shortfall' = (IF v >= totalStaked - a THEN 0 ELSE (totalStaked - a) - v)
  BY <1>5 DEF Shortfall
<1> HIDE DEF w, v
<1> QED  BY <1>2, <1>4, <1>9, <1>10

LEMMA CollectKeepsPrincipal ==
  ASSUME IInv, UNCHANGED <<rate, totalStaked>>,
         cdai'["staking"] = cdai["staking"] - currentUBIInterest,
         cdai'["staking"] < cdai["staking"]
  PROVE  Shortfall' <= Shortfall
<1>1. StakingTypeOK  BY TypeParts DEF IInv
<1>2. cdai["staking"] \in Nat /\ rate \in Nat \ {0} /\ totalStaked \in Nat
  BY <1>1 DEF StakingTypeOK, CDaiHolders
<1>3. currentUBIInterest \in Nat /\ currentUBIInterest > 0
  BY <1>1, <1>2, InterestFits
<1>4. (cdai["staking"] - currentUBIInterest) * rate >= totalStaked
  BY <1>1, <1>3, InterestFits
<1>5. currentDAIWorth' >= totalStaked'  BY <1>4 DEF currentDAIWorth
<1>6. Shortfall' = 0  BY <1>5 DEF Shortfall
<1>7. Shortfall >= 0
  <2>1. currentDAIWorth \in Nat  BY <1>2, TimesMonotone DEF currentDAIWorth
  <2> QED  BY <1>2, <2>1 DEF Shortfall
<1> QED  BY <1>6, <1>7

(* No step of anybody takes cDAI out of the staking contract at the        *)
(* expense of the stakes that stay in it.                                  *)
THEOREM PrincipalIsAlwaysKept == Spec => PrincipalIsKept
<1>1. ASSUME IInv, Next, cdai'["staking"] < cdai["staking"]
      PROVE  Shortfall' <= Shortfall
  <2>1. StakingTypeOK /\ ContractsTypeOK  BY <1>1, TypeParts DEF IInv
  <2>2. \A h \in CDaiHolders : cdai[h] \in Nat  BY <2>1 DEF StakingTypeOK
  <2>3. cdai["staking"] \in Nat /\ ~(cdai["staking"] < cdai["staking"])
    BY <2>2 DEF CDaiHolders
  <2>4. CASE StakingStep
    <3>1. ASSUME NEW u \in Stakers, withdrawStake(u)  PROVE Shortfall' <= Shortfall
      BY <1>1, <3>1, WithdrawKeepsPrincipal
    <3>2. ASSUME NEW u \in Stakers, NEW amount \in DAIAmounts, stakeDAI(u, amount)
          PROVE  FALSE
      <4>1. amount \in Nat  BY AssumptionsHold DEF Assumptions, SimpleDAIStakingAssumption
      <4>2. InCDai(amount) \in Nat  BY <2>1, <4>1, InCDaiFacts
      <4>3. cdai'["staking"] = cdai["staking"] + InCDai(amount)
        BY <2>1, <3>2 DEF stakeDAI, StakingTypeOK, CDaiHolders
      <4> QED  BY <1>1, <2>3, <4>2, <4>3
    <3>3. ASSUME collectedByOther  PROVE Shortfall' <= Shortfall
      <4>1. UNCHANGED <<rate, totalStaked>>
            /\ cdai'["staking"] = cdai["staking"] - currentUBIInterest
        BY <2>1, <3>3
           DEF collectedByOther, collectUBIInterest, chain, stakes, StakingTypeOK, CDaiHolders
      <4> QED  BY <1>1, <4>1, CollectKeepsPrincipal
    <3>4. ASSUME recoverStaking  PROVE Shortfall' <= Shortfall
      <4>1. totalStaked = 0 /\ totalStaked' = 0 /\ rate' = rate /\ cdai'["staking"] = 0
        BY <2>1, <3>4
           DEF recoverStaking, MayRecover, chain, stakingVars, stakes, StakingTypeOK, CDaiHolders
      <4>2. rate \in Nat /\ totalStaked \in Nat  BY <2>1 DEF StakingTypeOK
      <4>3. Shortfall' = 0  BY <4>1, <4>2 DEF Shortfall, currentDAIWorth
      <4>4. currentDAIWorth \in Nat  BY <2>3, <4>2, TimesMonotone DEF currentDAIWorth
      <4>5. Shortfall = 0  BY <4>1, <4>4 DEF Shortfall
      <4> QED  BY <4>3, <4>5
    <3>5. CASE UNCHANGED cdai  BY <1>1, <2>3, <3>5
    <3>6. \/ UNCHANGED cdai \/ collectedByOther \/ recoverStaking
          \/ \E u \in Stakers : withdrawStake(u) \/ \E amount \in DAIAmounts : stakeDAI(u, amount)
      BY <2>4 DEF StakingStep, StakingNext, startStaking, endStaking, pauseStaking,
           setStakingManager, NextBlock, RateGrows
    <3> QED  BY <3>1, <3>2, <3>3, <3>4, <3>5, <3>6
  <2>5. CASE AvatarNext  BY <1>1, <2>3, <2>5, AvatarStep
  <2>6. CASE MarketStep  BY <1>1, <2>3, <2>6, OtherStep
  <2>7. CASE AnybodyNext
    <3>1. ASSUME transferInterest  PROVE Shortfall' <= Shortfall
      <4>1. UNCHANGED <<rate, totalStaked>>
        BY <3>1 DEF transferInterest, collectUBIInterest, chain, stakes
      <4>2. cdai' = [cdai EXCEPT !["staking"] = @ - currentUBIInterest,
                                 !["reserve"] = @ + currentUBIInterest]
        BY <3>1 DEF transferInterest
      <4>3. cdai'["staking"] = cdai["staking"] - currentUBIInterest
        BY <2>1, <4>2 DEF StakingTypeOK, CDaiHolders
      <4> QED  BY <1>1, <4>1, <4>3, CollectKeepsPrincipal
    <3>2. ASSUME NEW amount \in CDaiAmounts, NEW interest \in CDaiAmounts,
                 buy(amount) \/ mintedByOther(amount, interest)
          PROVE  FALSE
      BY <1>1, <2>1, <2>3, <3>2 DEF buy, mintedByOther, StakingTypeOK, CDaiHolders
    <3>3. ASSUME NEW amount \in GDAmounts, sell(amount)  PROVE FALSE
      BY <1>1, <2>1, <2>3, <3>3 DEF sell, StakingTypeOK, CDaiHolders
    <3> QED
      BY <1>1, <2>3, <2>7, <3>1, <3>2, <3>3, OtherStep DEF AnybodyNext
  <2> QED  BY <1>1, <2>4, <2>5, <2>6, <2>7 DEF Next
<1>2. IInv /\ [Next]_vars =>
        [cdai'["staking"] < cdai["staking"] => Shortfall' <= Shortfall]_vars
  BY <1>1
<1> QED  BY <1>2, StakingInvariant, PTL DEF PrincipalIsKept, Spec
-----------------------------------------------------------------------------
(* Reserve, curve and G$ move together in the steps that move the curve.   *)
Together ==
  /\ curve'.reserveSupply - curve.reserveSupply = cdai'["reserve"] - cdai["reserve"]
  /\ curve'.gdSupply - curve.gdSupply = TotalGD' - TotalGD

LEMMA CurveMoves ==
  ASSUME IInv, AnybodyNext
  PROVE  Together \/ UNCHANGED <<curve, cdai>>
<1>1. StakingTypeOK /\ MarketTypeOK /\ ContractsTypeOK /\ curve \in Curves
  BY TypeParts DEF IInv
<1>2. \A h \in CDaiHolders : cdai[h] \in Nat  BY <1>1 DEF StakingTypeOK
<1>3. \A h \in GDHolders : gd[h] \in Nat  BY <1>1 DEF ContractsTypeOK
<1>4. /\ cdai["reserve"] \in Nat
      /\ gd["users"] \in Nat /\ gd["staking"] \in Nat /\ gd["bridge"] \in Nat
      /\ curve.gdSupply \in Nat /\ curve.reserveSupply \in Nat
  <2>1. GoodMarketMakerAssumption  BY AssumptionsHold DEF Assumptions
  <2>2. curve.gdSupply \in Nat /\ curve.reserveSupply \in Nat
    BY <1>1, <2>1, CurveFields
  <2> QED  BY <1>2, <1>3, <2>2 DEF CDaiHolders, GDHolders
<1>5. Assumptions  BY AssumptionsHold
<1>6. ASSUME NEW amount \in CDaiAmounts, buy(amount)  PROVE Together
  <2>1. amount \in Nat  BY <1>5 DEF Assumptions, GoodFundManagerAssumption
  <2>2. /\ buyReturn(curve, amount) \in Nat
        /\ curve'.gdSupply = curve.gdSupply + buyReturn(curve, amount)
        /\ curve'.reserveSupply = curve.reserveSupply + amount
    BY <1>1, <1>5, <1>6, <2>1, BuyFacts DEF buy, Assumptions
  <2>3. cdai'["reserve"] = cdai["reserve"] + amount
    BY <1>1, <1>6 DEF buy, StakingTypeOK, CDaiHolders
  <2>4. /\ gd'["users"] = gd["users"] + buyReturn(curve, amount)
        /\ gd'["staking"] = gd["staking"] /\ gd'["bridge"] = gd["bridge"]
    BY <1>1, <1>6 DEF buy, ContractsTypeOK, GDHolders
  <2> QED  BY <1>4, <2>1, <2>2, <2>3, <2>4 DEF Together, TotalGD
<1>7. ASSUME NEW amount \in GDAmounts, sell(amount)  PROVE Together
  <2> DEFINE kept == calculateContribution(amount)
             paid == SaleAfter(curve, amount, kept)
  <2>1. amount \in Nat  BY <1>5 DEF Assumptions, GoodFundManagerAssumption
  <2>2. kept \in Nat  BY <1>1, <1>5, <2>1, ContributionType DEF Assumptions, ContractsTypeOK
  <2>3. /\ paid \in Nat
        /\ curve'.gdSupply = curve.gdSupply - amount
        /\ curve'.reserveSupply = curve.reserveSupply - paid
    BY <1>1, <1>5, <1>7, <2>1, <2>2, SellFacts DEF sell, Assumptions
  <2>4. cdai'["reserve"] = cdai["reserve"] - paid
    BY <1>1, <1>7 DEF sell, StakingTypeOK, CDaiHolders
  <2>5. /\ gd'["users"] = gd["users"] - amount
        /\ gd'["staking"] = gd["staking"] /\ gd'["bridge"] = gd["bridge"]
    BY <1>1, <1>7 DEF sell, ContractsTypeOK, GDHolders
  <2> HIDE DEF paid, kept
  <2> QED  BY <1>4, <2>1, <2>3, <2>4, <2>5 DEF Together, TotalGD
<1>8. ASSUME NEW transferred \in Nat, NEW interest \in Nat, NEW manager,
             MayMint(manager, transferred, interest), curve' = CurveAfter(transferred)
      PROVE  /\ curve'.reserveSupply = curve.reserveSupply + transferred
             /\ gdInterest(interest) \in Nat /\ gdUBI(transferred, interest) \in Nat
             /\ toMint(transferred, interest) = curve'.gdSupply - curve.gdSupply
             /\ toMint(transferred, interest) =
                  gdUBI(transferred, interest) + gdInterest(interest)
  BY <1>8, MintTypes DEF toMint
<1>9. ASSUME NEW transferred \in CDaiAmounts, NEW interest \in CDaiAmounts,
             mintedByOther(transferred, interest)
      PROVE  Together
  <2>1. transferred \in Nat /\ interest \in Nat
    BY <1>5 DEF Assumptions, GoodFundManagerAssumption
  <2>2. /\ curve'.reserveSupply = curve.reserveSupply + transferred
        /\ toMint(transferred, interest) \in Nat
        /\ toMint(transferred, interest) = curve'.gdSupply - curve.gdSupply
    BY <1>8, <1>9, <2>1 DEF mintedByOther
  <2>3. cdai'["reserve"] = cdai["reserve"] + transferred
    BY <1>1, <1>9 DEF mintedByOther, StakingTypeOK, CDaiHolders
  <2>4. /\ gd'["users"] = gd["users"] + toMint(transferred, interest)
        /\ gd'["staking"] = gd["staking"] /\ gd'["bridge"] = gd["bridge"]
    BY <1>1, <1>9 DEF mintedByOther, ContractsTypeOK, GDHolders
  <2> QED  BY <1>4, <2>1, <2>2, <2>3, <2>4 DEF Together, TotalGD
<1>10. ASSUME transferInterest  PROVE Together
  <2> DEFINE interest == currentUBIInterest
             donated == (interest * DonationRatio) \div MaxWeight
             left == interest - donated
             paidBack == gdInterest(left)
             ubi == gdUBI(interest, left)
  <2>1. interest \in Nat  BY <1>1, InterestFits
  <2>2. MayMint("fund", interest, left) /\ curve' = CurveAfter(interest)
    BY <1>10 DEF transferInterest
  <2>4. /\ cdai' = [cdai EXCEPT !["staking"] = @ - interest, !["reserve"] = @ + interest]
        /\ gd' = [gd EXCEPT !["staking"] = @ + paidBack, !["bridge"] = @ + ubi]
    BY <1>10 DEF transferInterest
  <2> HIDE DEF interest, donated
  <2>5. left \in Nat
    <3>1. DonationRatio \in Nat /\ MaxWeight \in Nat \ {0} /\ DonationRatio <= MaxWeight
      BY <1>5 DEF Assumptions, GoodFundManagerAssumption, GoodMarketMakerAssumption
    <3>2. donated \in Nat /\ donated <= interest  BY <2>1, <3>1, PartBound DEF donated
    <3> QED  BY <2>1, <3>2
  <2> HIDE DEF left
  <2>3. /\ curve'.reserveSupply = curve.reserveSupply + interest
        /\ paidBack \in Nat /\ ubi \in Nat
        /\ curve'.gdSupply - curve.gdSupply = ubi + paidBack
    <3>1. toMint(interest, left) = curve'.gdSupply - curve.gdSupply
          /\ toMint(interest, left) = ubi + paidBack
      BY <1>8, <2>1, <2>2, <2>5
    <3> QED  BY <1>8, <2>1, <2>2, <2>5, <3>1
  <2> HIDE DEF paidBack, ubi
  <2>6. cdai'["reserve"] = cdai["reserve"] + interest
    BY <1>1, <2>4 DEF StakingTypeOK, CDaiHolders
  <2>7. /\ gd'["users"] = gd["users"] /\ gd'["staking"] = gd["staking"] + paidBack
        /\ gd'["bridge"] = gd["bridge"] + ubi
    BY <1>1, <2>4 DEF ContractsTypeOK, GDHolders
  <2> QED  BY <1>4, <2>1, <2>3, <2>6, <2>7 DEF Together, TotalGD
<1> QED  BY <1>6, <1>7, <1>9, <1>10, OtherStep DEF AnybodyNext

(* The reserve gets no poorer than its books by what anybody but the DAO   *)
(* does, whatever the formula returns.                                     *)
THEOREM BackingIsAlwaysKept == Spec => BackingIsKept
<1>1. ASSUME IInv, Next
      PROVE  \/ curve'.reserveSupply - cdai'["reserve"] <= curve.reserveSupply - cdai["reserve"]
             \/ cdai'["avatar"] > cdai["avatar"]
  <2>1. StakingTypeOK /\ curve \in Curves  BY <1>1, TypeParts DEF IInv
  <2>2. IInv'  BY <1>1, StepInvariant
  <2>3. StakingTypeOK' /\ curve' \in Curves  BY <2>2, TypeParts DEF IInv, TypeOK
  <2>4. /\ cdai["reserve"] \in Nat /\ cdai'["reserve"] \in Nat
        /\ curve.reserveSupply \in Nat /\ curve'.reserveSupply \in Nat
    <3>1. MaxReserve \in Nat  BY AssumptionsHold DEF Assumptions, GoodMarketMakerAssumption
    <3> QED  BY <2>1, <2>3, <3>1 DEF StakingTypeOK, CDaiHolders, Curves
  <2>5. CASE StakingStep  BY <1>1, <2>4, <2>5, StakingAside
  <2>6. CASE AvatarNext
    <3>1. UNCHANGED curve
          /\ (cdai'["reserve"] = cdai["reserve"] \/ cdai'["avatar"] > cdai["avatar"])
      BY <1>1, <2>6, AvatarStep
    <3> QED  BY <2>4, <3>1
  <2>7. CASE MarketStep
    <3>1. UNCHANGED <<curve, cdai>>  BY <1>1, <2>7, OtherStep
    <3> QED  BY <2>4, <3>1
  <2>8. CASE AnybodyNext
    <3>1. Together \/ UNCHANGED <<curve, cdai>>  BY <1>1, <2>8, CurveMoves
    <3> QED  BY <2>4, <3>1 DEF Together
  <2> QED  BY <1>1, <2>5, <2>6, <2>7, <2>8 DEF Next
<1>2. IInv /\ [Next]_vars =>
        [\/ curve'.reserveSupply - cdai'["reserve"] <= curve.reserveSupply - cdai["reserve"]
         \/ cdai'["avatar"] > cdai["avatar"]]_vars
  BY <1>1
<1> QED  BY <1>2, StakingInvariant, PTL DEF BackingIsKept, Spec

(* Every G$ that enters or leaves the curve's books was minted or burnt in *)
(* the same transaction.                                                   *)
THEOREM SupplyAlwaysFollowsToken == Spec => SupplyFollowsToken
<1>1. ASSUME IInv, Next, curve'.gdSupply # curve.gdSupply
      PROVE  TotalGD' - TotalGD = curve'.gdSupply - curve.gdSupply
  <2>1. AnybodyNext
    BY <1>1, StakingAside, AvatarStep, OtherStep DEF Next
  <2>2. Together  BY <1>1, <2>1, CurveMoves
  <2> QED  BY <2>2 DEF Together
<1>2. IInv /\ [Next]_vars =>
        [curve'.gdSupply # curve.gdSupply =>
           TotalGD' - TotalGD = curve'.gdSupply - curve.gdSupply]_vars
  BY <1>1
<1> QED  BY <1>2, StakingInvariant, PTL DEF SupplyFollowsToken, Spec
===============================================================================
