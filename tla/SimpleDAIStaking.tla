--------------------------- MODULE SimpleDAIStaking ---------------------------
(***************************************************************************)
(* DAI staked for the interest it earns                                    *)
(* (stakingModel/contracts/SimpleDAIStaking.sol). The contract turns DAI   *)
(* into Compound's cDAI, whose rate to DAI grows; what the cDAI is worth   *)
(* above the stakes is interest, which the fund manager collects once in   *)
(* an interval of blocks. All stakes lie in the one cDAI balance.          *)
(*                                                                         *)
(* `cdai` is the part of the cDAI ledger that the staking model reads. The *)
(* smallest unit of cDAI is worth `rate` units of DAI.                     *)
(***************************************************************************)
EXTENDS Sums

CONSTANTS
  Stakers,       \* the accounts that stake
  DAIAmounts,    \* bound: the amounts they stake
  StakeInterval, \* blockInterval of the staking contract, never changed
  MaxStaked,     \* bound: no more DAI than this is staked
  MaxRate,       \* bound: the exchange rate stops growing here
  MaxBlock       \* bound: the chain stops here

ASSUME SimpleDAIStakingAssumption ==
  /\ IsFiniteSet(Stakers)
  /\ DAIAmounts \subseteq Nat
  /\ StakeInterval \in Nat \ {0}
  /\ MaxStaked \in Nat /\ MaxRate \in Nat \ {0} /\ MaxBlock \in Nat

CDaiHolders == {"staking", "reserve", "avatar"}
FundManagers == {"fund", "other"}

VARIABLES
  block,             \* the number of the block
  rate,              \* cDAI's exchangeRateStored
  cdai,              \* cDAI held by each of CDaiHolders
  stakedDAI,         \* stakers[u].stakedDAI
  totalStaked,
  lastUBICollection, \* the interval of the last collection
  stakingPaused,
  stakingIsListed,   \* identity.isDAOContract of the staking contract
  stakingManager     \* fundManager: this GoodFundManager or another address

stakes == <<stakedDAI, totalStaked>>
stakingSettings == <<stakingPaused, stakingIsListed, stakingManager>>
stakingVars == <<stakes, lastUBICollection, stakingSettings>>
chain == <<block, rate>>

StakingInit ==
  /\ block = 0 /\ rate = 1
  /\ stakedDAI = [u \in Stakers |-> 0] /\ totalStaked = 0
  /\ lastUBICollection = 0
  /\ stakingPaused = FALSE /\ stakingIsListed = FALSE /\ stakingManager = "fund"

StakingTypeOK ==
  /\ block \in Nat /\ rate \in Nat \ {0}
  /\ cdai \in [CDaiHolders -> Nat]
  /\ stakedDAI \in [Stakers -> Nat] /\ totalStaked \in Nat
  /\ lastUBICollection \in Nat
  /\ stakingPaused \in BOOLEAN /\ stakingIsListed \in BOOLEAN
  /\ stakingManager \in FundManagers

-----------------------------------------------------------------------------
(* cDAI: minting and redeeming round down to whole units of cDAI.          *)
InCDai(amount) == amount \div rate

currentDAIWorth == cdai["staking"] * rate

(* The interest in cDAI; the part of the gains below a unit stays.         *)
MutInterestInDAI ==
  IF currentDAIWorth <= totalStaked THEN 0 ELSE currentDAIWorth - totalStaked
MutInterestRoundedUp ==
  IF currentDAIWorth <= totalStaked THEN 0
  ELSE (currentDAIWorth - totalStaked + rate - 1) \div rate
currentUBIInterest ==
  IF currentDAIWorth <= totalStaked THEN 0
  ELSE (currentDAIWorth - totalStaked) \div rate

canCollect == block \div StakeInterval > lastUBICollection

(* stakeDAI: a failure of cDAI's mint reverts.                             *)
stakeDAI(u, amount) ==
  /\ ~stakingPaused /\ amount > 0
  /\ totalStaked + amount <= MaxStaked
  /\ cdai' = [cdai EXCEPT !["staking"] = @ + InCDai(amount)]
  /\ stakedDAI' = [stakedDAI EXCEPT ![u] = @ + amount]
  /\ totalStaked' = totalStaked + amount
  /\ UNCHANGED <<chain, lastUBICollection, stakingSettings>>

(* withdrawStake: the whole stake at once, also when paused; it reverts    *)
(* when the contract's cDAI does not redeem to as much.                    *)
LessTotal(total, amount) == total - amount

withdrawStake(u) ==
  /\ stakedDAI[u] > 0
  /\ InCDai(stakedDAI[u]) <= cdai["staking"]
  /\ stakedDAI[u] <= totalStaked
  /\ cdai' = [cdai EXCEPT !["staking"] = @ - InCDai(stakedDAI[u])]
  /\ stakedDAI' = [stakedDAI EXCEPT ![u] = 0]
  /\ totalStaked' = LessTotal(totalStaked, stakedDAI[u])
  /\ UNCHANGED <<chain, lastUBICollection, stakingSettings>>

(* collectUBIInterest, without the transfer of the interest                *)
collectUBIInterest(manager) ==
  /\ manager = stakingManager
  /\ canCollect
  /\ lastUBICollection' = block \div StakeInterval
  /\ UNCHANGED <<stakes, stakingSettings>>

(* Another fund manager sends the interest where it likes.                 *)
collectedByOther ==
  /\ collectUBIInterest("other")
  /\ cdai' = [cdai EXCEPT !["staking"] = @ - currentUBIInterest]
  /\ UNCHANGED chain

-----------------------------------------------------------------------------
(* start() by the owner, which is the deployer and from then on the avatar:*)
(* the generic call of identity.addContract may fail unnoticed.            *)
startStaking(listed) ==
  /\ stakingIsListed' = (stakingIsListed \/ listed)
  /\ UNCHANGED <<chain, cdai, stakes, lastUBICollection, stakingPaused, stakingManager>>

(* end() by the avatar pauses for good measure and gives up the rights, by *)
(* a generic call that may fail unnoticed, too: what is staked can still be*)
(* withdrawn. It reverts when paused already.                              *)
endStaking(removed) ==
  /\ ~stakingPaused
  /\ stakingPaused' = TRUE
  /\ stakingIsListed' = (stakingIsListed /\ ~removed)
  /\ UNCHANGED <<chain, cdai, stakes, lastUBICollection, stakingManager>>

(* pause and unpause by the pausers, the deployer and the avatar           *)
pauseStaking(b) ==
  /\ stakingPaused # b
  /\ stakingPaused' = b
  /\ UNCHANGED <<chain, cdai, stakes, lastUBICollection, stakingIsListed, stakingManager>>

setStakingManager(manager) ==
  /\ stakingManager' = manager
  /\ UNCHANGED <<chain, cdai, stakes, lastUBICollection, stakingPaused, stakingIsListed>>

(* recover(cDai) by the avatar: what is left when nothing is staked        *)
MutRecoverAnyTime == stakingPaused
MayRecover == totalStaked = 0 /\ stakingPaused

recoverStaking ==
  /\ MayRecover
  /\ cdai' = [cdai EXCEPT !["avatar"] = @ + cdai["staking"], !["staking"] = 0]
  /\ UNCHANGED <<chain, stakingVars>>

-----------------------------------------------------------------------------
(* The chain, and Compound's interest.                                     *)
NextBlock ==
  /\ block < MaxBlock
  /\ block' = block + 1
  /\ UNCHANGED <<rate, cdai, stakingVars>>

RateGrows ==
  /\ rate < MaxRate
  /\ rate' = rate + 1
  /\ UNCHANGED <<block, cdai, stakingVars>>

StakingNext ==
  \/ \E u \in Stakers :
       withdrawStake(u) \/ \E amount \in DAIAmounts : stakeDAI(u, amount)
  \/ collectedByOther
  \/ \E b \in BOOLEAN : startStaking(b) \/ pauseStaking(b) \/ endStaking(b)
  \/ \E manager \in FundManagers : setStakingManager(manager)
  \/ recoverStaking
  \/ NextBlock \/ RateGrows
===============================================================================
