--------------------------- MODULE MCGoodFundManager ---------------------------
(* A small instance of GoodFundManager, with a curve in whole numbers:     *)
(* for the ratio 1/k the supply grows with the k-th root of the reserve.   *)
EXTENDS GoodFundManager, FiniteSetsExt, TLC

CONSTANTS s1, s2

MCStakers == {s1, s2}

Exponent(ratio) == MaxWeight \div ratio

(* The largest p with ((s + p) / s)^k <= (r + d) / r                       *)
MCPurchaseReturn(s, r, ratio, d) ==
  LET k == Exponent(ratio)
  IN Max({p \in 0 .. 3 * MaxSupply : (s + p)^k * r <= s^k * (r + d)})

(* The whole part of r (1 - ((s - a) / s)^k)                               *)
MCSaleReturn(s, r, ratio, a) ==
  LET k == Exponent(ratio) IN (r * (s^k - (s - a)^k)) \div s^k

MCExpansions == {<<1, 2>>, <<1, 4>>, <<5, 4>>}
MCContributionRatios == {<<1, 2>>, <<3, 4>>}
MCSymmetry == Permutations(MCStakers)

(* Bound: the contracts start before anything is traded or staked; from    *)
(* then on the DAO departs from the settings of the deployment in one      *)
(* point at a time; and the accounts' amounts are small.                   *)
Started == reserveStatus # "deployed" /\ fundStatus # "deployed"

Departures ==
  <<stakingPaused, stakingManager = "other", reserveManager = "other",
    reserveInterval # InitialInterval, fundInterval # InitialInterval,
    marketOwner = "avatar", fundStatus = "destroyed", dailyExpansion # <<1, 2>>,
    contribution # <<1, 2>>, Started /\ fundReserve = "none",
    Started /\ ~stakingIsListed, reserveStatus = "active" /\ ~reserveIsMinter>>

Bound ==
  /\ Started \/ (totalStaked = 0 /\ gd["users"] = 0 /\ block = 0 /\ rate = 1)
  /\ Cardinality({i \in DOMAIN Departures : Departures[i]}) <= 1
  /\ gd["users"] <= 3
  /\ \A u \in Stakers : stakedDAI[u] \in DAIAmounts \cup {0}
===============================================================================
