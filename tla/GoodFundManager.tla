---------------------------- MODULE GoodFundManager ----------------------------
(***************************************************************************)
(* The staking model on the main chain, composed: the reserve              *)
(* (stakingModel/contracts/GoodReserveCDai.sol), which mints G$ against    *)
(* cDAI along the market maker's curve, and the fund manager               *)
(* (GoodFundManager.sol), which takes the interest from the staking        *)
(* contract to the reserve and the G$ minted for it to the bridge.         *)
(*                                                                         *)
(* Three contracts have their gate of one run per interval of blocks, each *)
(* with an interval and a last run of its own. A transaction is one        *)
(* action. G$ pay no fees here: the contracts are DAO contracts.           *)
(***************************************************************************)
EXTENDS SimpleDAIStaking, GoodMarketMaker

CONSTANTS
  InitialInterval,    \* blockInterval given to the constructors
  Intervals,          \* bound: what the DAO passes to setBlockInterval
  ContributionRatios, \* bound: pairs, for sellContributionRatio
  DonationRatio,      \* avgInterestDonatedRatio, out of MaxWeight
  CDaiAmounts,        \* bound: amounts of cDAI that buyers spend
  GDAmounts           \* bound: amounts of G$ that sellers sell or receive

ASSUME GoodFundManagerAssumption ==
  /\ InitialInterval \in Nat \ {0} /\ Intervals \subseteq Nat \ {0}
  /\ \A q \in ContributionRatios : q[1] \in Nat /\ q[2] \in Nat \ {0}
  /\ DonationRatio \in 0 .. MaxWeight
  /\ CDaiAmounts \subseteq Nat /\ GDAmounts \subseteq Nat

GDHolders == {"users", "staking", "bridge"}

VARIABLES
  gd,              \* G$ of the users, the staking contract and the bridge
  reserveStatus,   \* "deployed", "active" (isActive) or "destroyed"
  reserveManager,  \* fundManager of the reserve
  reserveInterval, lastMinted,
  reserveIsMinter, \* may the reserve mint G$
  contribution,    \* sellContributionRatio
  fundStatus,
  fundReserve,     \* reserve of the fund manager: "none" or "reserve"
  fundInterval, lastTransferred

reserveVars == <<reserveStatus, reserveManager, reserveInterval, lastMinted,
                 reserveIsMinter, contribution>>
fundVars == <<fundStatus, fundReserve, fundInterval, lastTransferred>>
vars == <<chain, cdai, stakingVars, marketVars, gd, reserveVars, fundVars>>

-----------------------------------------------------------------------------
(* The curve has no cDAI behind it when it starts: initializeToken only    *)
(* writes the books.                                                       *)
Init ==
  /\ StakingInit /\ MarketInit
  /\ cdai = [h \in CDaiHolders |-> 0]
  /\ gd = [h \in GDHolders |-> 0]
  /\ reserveStatus = "deployed" /\ reserveManager = "fund"
  /\ reserveInterval = InitialInterval /\ lastMinted = 0
  /\ reserveIsMinter = FALSE
  /\ contribution \in ContributionRatios
  /\ fundStatus = "deployed" /\ fundReserve = "none"
  /\ fundInterval = InitialInterval /\ lastTransferred = 0

(* start() by the owner: the generic call of addMinter may fail unnoticed. *)
startReserve(minter) ==
  /\ reserveStatus = "deployed"
  /\ reserveStatus' = "active"
  /\ reserveIsMinter' = (reserveIsMinter \/ minter)
  /\ UNCHANGED <<chain, cdai, stakingVars, marketVars, gd, reserveManager,
                 reserveInterval, lastMinted, contribution, fundVars>>

startFund ==
  /\ fundStatus = "deployed"
  /\ fundStatus' = "active"
  /\ UNCHANGED <<chain, cdai, stakingVars, marketVars, gd, reserveVars, fundReserve,
                 fundInterval, lastTransferred>>

-----------------------------------------------------------------------------
(* Trade with the reserve.                                                 *)
ReserveWorks == reserveStatus = "active" /\ marketOwner = "reserve"

(* buy: the buyer's cDAI comes in, G$ are minted along the curve.          *)
buy(amount) ==
  /\ ReserveWorks /\ reserveIsMinter /\ IsValid(curve)
  /\ IsCharted(Bought(curve, amount))
  /\ curve' = Bought(curve, amount)
  /\ cdai' = [cdai EXCEPT !["reserve"] = @ + amount]
  /\ gd' = [gd EXCEPT !["users"] = @ + buyReturn(curve, amount)]
  /\ UNCHANGED <<chain, stakingVars, dailyExpansion, marketOwner, reserveVars, fundVars>>

calculateContribution(amount) == (amount * contribution[1]) \div contribution[2]

(* sell: the G$ are burnt, all of them; the part after the contribution is *)
(* paid for, if the reserve holds as much cDAI.                            *)
sell(amount) ==
  LET contributed == calculateContribution(amount)
      tokenReturn == SaleAfter(curve, amount, contributed)
  IN /\ ReserveWorks
     /\ amount <= gd["users"] /\ amount > contributed
     /\ MaySell(curve, amount, contributed)
     /\ tokenReturn <= cdai["reserve"]
     /\ curve' = Sold(curve, amount, contributed)
     /\ cdai' = [cdai EXCEPT !["reserve"] = @ - tokenReturn]
     /\ gd' = [gd EXCEPT !["users"] = @ - amount]
     /\ UNCHANGED <<chain, stakingVars, dailyExpansion, marketOwner, reserveVars, fundVars>>

-----------------------------------------------------------------------------
(* The gates of the two contracts (the staking contract has canCollect).   *)
canRun == block \div fundInterval > lastTransferred
canMint == block \div reserveInterval > lastMinted

(* mintInterestAndUBI of the reserve, for cDAI that was transferred to it: *)
(* the market maker adds the interest to the curve, then expands it. What  *)
(* is paid back for `interest` is priced by the curve as it was before; the*)
(* reserve mints this and the rest, the UBI, in one sum.                   *)
MutInterestPaidTwice(transferred) ==
  Expanded(WithInterest(WithInterest(curve, transferred), transferred))
CurveAfter(transferred) == Expanded(WithInterest(curve, transferred))

gdInterestToMint(transferred) == calculateMintInterest(curve, transferred)
gdExpansionToMint(transferred) == calculateMintExpansion(WithInterest(curve, transferred))
gdInterest(interest) == InGD(curve, interest)
MutExpansionForgotten(transferred, interest) ==
  gdInterestToMint(transferred) - gdInterest(interest)
gdUBI(transferred, interest) ==
  gdInterestToMint(transferred) - gdInterest(interest) + gdExpansionToMint(transferred)
toMint(transferred, interest) == gdUBI(transferred, interest) + gdInterest(interest)

MayMint(manager, transferred, interest) ==
  /\ ReserveWorks /\ reserveIsMinter
  /\ reserveManager = manager
  /\ canMint
  /\ HasPrice(curve) /\ CanExpand(WithInterest(curve, transferred))
  /\ gdInterest(interest) <= gdInterestToMint(transferred)
  /\ IsCharted(WithInterest(curve, transferred)) /\ IsCharted(CurveAfter(transferred))

(* Another fund manager sends cDAI of its own to the reserve, keeps the G$.*)
mintedByOther(transferred, interest) ==
  /\ MayMint("other", transferred, interest)
  /\ curve' = CurveAfter(transferred)
  /\ lastMinted' = block \div reserveInterval
  /\ cdai' = [cdai EXCEPT !["reserve"] = @ + transferred]
  /\ gd' = [gd EXCEPT !["users"] = @ + toMint(transferred, interest)]
  /\ UNCHANGED <<chain, stakingVars, dailyExpansion, marketOwner, reserveStatus,
                 reserveManager, reserveInterval, reserveIsMinter, contribution, fundVars>>

(* transferInterest, by anybody: the interest is whatever arrives at the   *)
(* reserve; what is not donated is paid back to the staking contract.      *)
transferInterest ==
  LET interest == currentUBIInterest
      donated == (interest * DonationRatio) \div MaxWeight
      afterDonation == interest - donated
  IN /\ fundStatus = "active" /\ fundReserve = "reserve" /\ stakingIsListed
     /\ canRun
     /\ lastTransferred' = block \div fundInterval
     /\ collectUBIInterest("fund")
     /\ cdai' = [cdai EXCEPT !["staking"] = @ - interest, !["reserve"] = @ + interest]
     /\ MayMint("fund", interest, afterDonation)
     /\ curve' = CurveAfter(interest)
     /\ lastMinted' = block \div reserveInterval
     /\ gd' = [gd EXCEPT !["staking"] = @ + gdInterest(afterDonation),
                         !["bridge"] = @ + gdUBI(interest, afterDonation)]
     /\ UNCHANGED <<chain, dailyExpansion, marketOwner, reserveStatus, reserveManager,
                    reserveInterval, reserveIsMinter, contribution, fundStatus,
                    fundReserve, fundInterval>>

-----------------------------------------------------------------------------
(* The DAO, by the avatar.                                                 *)
setContributionRatio(q) ==
  /\ contribution' = q
  /\ UNCHANGED <<chain, cdai, stakingVars, marketVars, gd, reserveStatus, reserveManager,
                 reserveInterval, lastMinted, reserveIsMinter, fundVars>>

setReserveManager(manager) ==
  /\ reserveStatus # "destroyed"
  /\ reserveManager' = manager
  /\ UNCHANGED <<chain, cdai, stakingVars, marketVars, gd, reserveStatus, reserveInterval,
                 lastMinted, reserveIsMinter, contribution, fundVars>>

setReserveInterval(interval) ==
  /\ reserveStatus # "destroyed"
  /\ reserveInterval' = interval
  /\ UNCHANGED <<chain, cdai, stakingVars, marketVars, gd, reserveStatus, reserveManager,
                 lastMinted, reserveIsMinter, contribution, fundVars>>

setFundInterval(interval) ==
  /\ fundStatus # "destroyed"
  /\ fundInterval' = interval
  /\ UNCHANGED <<chain, cdai, stakingVars, marketVars, gd, reserveVars, fundStatus,
                 fundReserve, lastTransferred>>

setReserve(r) ==
  /\ fundStatus # "destroyed"
  /\ fundReserve' = r
  /\ UNCHANGED <<chain, cdai, stakingVars, marketVars, gd, reserveVars, fundStatus,
                 fundInterval, lastTransferred>>

(* end() of the reserve: its cDAI and the market maker go to the avatar.   *)
endReserve ==
  /\ ReserveWorks /\ reserveIsMinter
  /\ reserveStatus' = "destroyed" /\ reserveIsMinter' = FALSE
  /\ marketOwner' = "avatar"
  /\ cdai' = [cdai EXCEPT !["avatar"] = @ + cdai["reserve"], !["reserve"] = 0]
  /\ UNCHANGED <<chain, stakingVars, curve, dailyExpansion, gd, reserveManager,
                 reserveInterval, lastMinted, contribution, fundVars>>

(* recover(cDai) of the reserve, at any time                               *)
recoverReserve ==
  /\ reserveStatus # "destroyed"
  /\ cdai' = [cdai EXCEPT !["avatar"] = @ + cdai["reserve"], !["reserve"] = 0]
  /\ UNCHANGED <<chain, stakingVars, marketVars, gd, reserveVars, fundVars>>

endFund ==
  /\ fundStatus = "active"
  /\ fundStatus' = "destroyed"
  /\ UNCHANGED <<chain, cdai, stakingVars, marketVars, gd, reserveVars, fundReserve,
                 fundInterval, lastTransferred>>

-----------------------------------------------------------------------------
(* G$ that the users have from elsewhere: the bridge, other minters.       *)
OtherGD(amount) ==
  /\ gd["users"] + amount <= MaxSupply
  /\ gd' = [gd EXCEPT !["users"] = @ + amount]
  /\ UNCHANGED <<chain, cdai, stakingVars, marketVars, reserveVars, fundVars>>

AnybodyNext ==
  \/ \E amount \in CDaiAmounts :
       buy(amount) \/ \E interest \in CDaiAmounts : mintedByOther(amount, interest)
  \/ \E amount \in GDAmounts : sell(amount) \/ OtherGD(amount)
  \/ transferInterest
  \/ \E minter \in BOOLEAN : startReserve(minter)
  \/ startFund

AvatarNext ==
  \/ \E interval \in Intervals : setReserveInterval(interval) \/ setFundInterval(interval)
  \/ \E manager \in FundManagers : setReserveManager(manager)
  \/ \E r \in {"none", "reserve"} : setReserve(r)
  \/ \E q \in ContributionRatios : setContributionRatio(q)
  \/ endReserve \/ recoverReserve \/ endFund

StakingStep == StakingNext /\ UNCHANGED <<marketVars, gd, reserveVars, fundVars>>

MarketStep ==
  /\ \E e \in Expansions : setReserveRatioDailyExpansion(e)
  /\ UNCHANGED <<chain, cdai, stakingVars, gd, reserveVars, fundVars>>

Next == AnybodyNext \/ AvatarNext \/ StakingStep \/ MarketStep

Spec == Init /\ [][Next]_vars

-----------------------------------------------------------------------------
(* The types of the state.                                                 *)
TypeOK ==
  /\ StakingTypeOK /\ MarketTypeOK
  /\ gd \in [GDHolders -> Nat]
  /\ reserveStatus \in {"deployed", "active", "destroyed"}
  /\ reserveManager \in FundManagers
  /\ reserveInterval \in Nat \ {0} /\ lastMinted \in Nat
  /\ reserveIsMinter \in BOOLEAN /\ contribution \in ContributionRatios
  /\ fundStatus \in {"deployed", "active", "destroyed"}
  /\ fundReserve \in {"none", "reserve"}
  /\ fundInterval \in Nat \ {0} /\ lastTransferred \in Nat

(* The total, which interest is measured against, is the sum of what each  *)
(* staker can withdraw.                                                    *)
StakesAddUp == totalStaked = SumOf(stakedDAI)

(* However much is sold, however often the ratio falls, the curve stays one*)
(* that the formula accepts: there is no last seller and no last expansion *)
(* after which all trade reverts for good. The one way there is a rate     *)
(* above 1, which the DAO may set and which takes the ratio above 100%.    *)
CurveStaysValid ==
  [][IsValid(curve) =>
       \/ IsValid(curve')
       \/ /\ dailyExpansion[1] > dailyExpansion[2]
          /\ curve'.reserveRatio > MaxWeight
          /\ curve'.gdSupply > 0 /\ curve'.reserveSupply > 0]_vars

(* The stakes are safe: whatever step takes cDAI from the staking contract,*)
(* a withdrawal, a collection of interest, a recovery or the end, leaves   *)
(* the others' stakes covered as far as they were. Only the rounding of a  *)
(* deposit may leave a shortfall, which interest fills first.              *)
Shortfall == IF currentDAIWorth >= totalStaked THEN 0 ELSE totalStaked - currentDAIWorth
PrincipalIsKept ==
  [][cdai'["staking"] < cdai["staking"] => Shortfall' <= Shortfall]_vars

(* What the curve's books count as reserve beyond the cDAI the reserve     *)
(* holds does not grow by trade, interest or expansion: only the DAO makes *)
(* the reserve poorer than its books.                                      *)
BackingIsKept ==
  [][\/ curve'.reserveSupply - cdai'["reserve"] <= curve.reserveSupply - cdai["reserve"]
     \/ cdai'["avatar"] > cdai["avatar"]]_vars

(* The curve's supply moves with the G$ themselves: every G$ it counts was *)
(* minted to somebody, and every G$ it drops was burnt.                    *)
TotalGD == gd["users"] + gd["staking"] + gd["bridge"]
SupplyFollowsToken ==
  [][curve'.gdSupply # curve.gdSupply =>
       TotalGD' - TotalGD = curve'.gdSupply - curve.gdSupply]_vars
===============================================================================
