------------------------------ MODULE UBIScheme ------------------------------
(***************************************************************************)
(* The daily UBI scheme (stakingModel/contracts/UBIScheme.sol on           *)
(* AbstractUBI, ActivePeriod and FeelessScheme), composed with the pool    *)
(* that pays first claims. Users claim at most once a day; the first       *)
(* transaction of a day divides that day's part of the cycle's pool by the *)
(* number of active users; anybody may "fish" a user who stopped claiming  *)
(* and takes that user's share.                                            *)
(*                                                                         *)
(* A transaction is one action; a call that reverts is not enabled. The    *)
(* G$ transfers are free of fees (the scheme is a DAO contract).           *)
(***************************************************************************)
EXTENDS FirstClaimPool, FiniteSets, Sums

CONSTANTS
  Users,              \* the addresses that claim and fish
  Hour, Day,          \* "1 hours" and "1 days" in units of the clock
  Noon,               \* "12 hours"
  MaxInactiveDays,    \* maxInactiveDays, fixed by the constructor
  InitialCycleLength, \* _cycleLength of the constructor
  CycleLengths,       \* bound: what the DAO passes to setCycleLength
  PeriodStart, PeriodEnd, \* the period given to the constructor
  UpgradeAward,       \* the 1000 that upgrade() sets as the pool's award
  Deposits,           \* bound: amounts of G$ that arrive from outside
  MaxFunds,           \* bound: no more G$ than this comes in
  MaxTime             \* bound: the clock stops here

ASSUME UBISchemeAssumption ==
  /\ IsFiniteSet(Users)
  /\ Hour \in Nat \ {0} /\ Day \in Nat \ {0} /\ Noon \in Nat /\ MaxTime \in Nat \ {0}
  /\ Noon % Hour = 0 /\ Day % Hour = 0
  /\ MaxInactiveDays \in Nat \ {0}
  /\ InitialCycleLength \in Nat /\ CycleLengths \subseteq Nat
  /\ PeriodStart \in Nat /\ PeriodEnd \in Nat /\ PeriodStart < PeriodEnd
  /\ UpgradeAward \in Nat /\ Deposits \subseteq Nat /\ MaxFunds \in Nat

Days == 0 .. MaxTime \div Day

VARIABLES
  now,                    \* the timestamp of the block
  whitelisted,            \* the users identity.isWhitelisted accepts
  registered,             \* is the scheme registered in the DAO
  status,                 \* "deployed", "active" (isActive) or "destroyed"
  periodStart,
  currentDay, lastWithdrawDay,
  dailyUbi, dailyCyclePool,
  cycleLength, currentCycleLength, startOfCycle,
  shouldWithdrawFromDAO,
  activeUsersCount,
  lastClaimed,            \* 0 for a user who never claimed or fished
  fishedUsersAddresses,
  claimDay,               \* per day: who claimed, number of claims, G$ paid
  dailyUBIHistory,        \* per day: the Funds record
  totalClaimsPerUser

clock == <<now, whitelisted, registered>>
distribution == <<currentDay, lastWithdrawDay, dailyUbi, dailyCyclePool,
                  currentCycleLength, startOfCycle, dailyUBIHistory>>
settings == <<cycleLength, shouldWithdrawFromDAO>>
users == <<activeUsersCount, lastClaimed, fishedUsersAddresses, claimDay,
           totalClaimsPerUser>>
schemeVars == <<status, periodStart, distribution, settings, users>>
vars == <<poolVars, balance, clock, schemeVars>>

NoClaims == [hasClaimed |-> {}, amountOfClaimers |-> 0, claimAmount |-> 0]

-----------------------------------------------------------------------------
isActive == status = "active"
Today == (now - periodStart) \div Day
StartOfHour(t) == (t \div Hour) * Hour
Noonday(t) == (t \div Day) * Day + Noon

isNotNewUser(u) == lastClaimed[u] > 0

MutActiveADayLess(u) ==
  isNotNewUser(u) /\ (now - lastClaimed[u]) \div Day < MaxInactiveDays - 1
isActiveUser(u) ==
  isNotNewUser(u) /\ (now - lastClaimed[u]) \div Day < MaxInactiveDays

(* A user who must be given the first claim's award.                       *)
IsFirstTime(u) == ~isNotNewUser(u) \/ u \in fishedUsersAddresses

Fishable(u) ==
  isNotNewUser(u) /\ ~isActiveUser(u) /\ u \notin fishedUsersAddresses

-----------------------------------------------------------------------------
(* distributionFormula: what the first transaction of a day calculates.    *)
NewDay == Today # lastWithdrawDay
MutNewCycleByNewLength == NewDay /\ (now - startOfCycle) \div Day >= cycleLength
MutNewCycleLate == NewDay /\ (now - startOfCycle) \div Day > currentCycleLength
NewCycle == NewDay /\ (now - startOfCycle) \div Day >= currentCycleLength

(* G$ that _withdrawFromDao moves from the avatar to the scheme            *)
Withdrawn == IF NewCycle /\ shouldWithdrawFromDAO THEN balance["avatar"] ELSE 0
OpenAmount == balance["ubi"] + Withdrawn

MutPoolIsBalance == IF NewCycle THEN OpenAmount ELSE dailyCyclePool
PoolOfToday == IF NewCycle THEN OpenAmount \div cycleLength ELSE dailyCyclePool

MutUbiAlwaysFresh ==
  IF activeUsersCount > 0 THEN PoolOfToday \div activeUsersCount ELSE dailyUbi
UbiOfToday ==
  IF NewDay /\ activeUsersCount > 0
  THEN PoolOfToday \div activeUsersCount
  ELSE dailyUbi

distributionFormula ==
  /\ now >= periodStart
  /\ NewCycle => cycleLength > 0
  /\ currentDay' = Today
  /\ lastWithdrawDay' = Today
  /\ dailyCyclePool' = PoolOfToday
  /\ dailyUbi' = UbiOfToday
  /\ currentCycleLength' = IF NewCycle THEN cycleLength ELSE currentCycleLength
  /\ startOfCycle' = IF NewCycle THEN StartOfHour(now) ELSE startOfCycle
  /\ dailyUBIHistory' =
       IF ~NewDay THEN dailyUBIHistory
       ELSE [d \in DOMAIN dailyUBIHistory \union {Today} |->
              IF d = Today
              THEN [hasWithdrawn |-> shouldWithdrawFromDAO, openAmount |-> OpenAmount]
              ELSE dailyUBIHistory[d]]

-----------------------------------------------------------------------------
(* _transferTokens, for `n` transfers of `amount` to the same account: the *)
(* statistics of the day. totalClaimsPerUser[_account].add(1) computes a   *)
(* sum and drops it.                                                       *)
Added(day, claimed, n, paid) ==
  [hasClaimed |-> day.hasClaimed \union claimed,
   amountOfClaimers |-> day.amountOfClaimers + n,
   claimAmount |-> day.claimAmount + paid]

MutRecordWithoutClaim(u, n, paid) ==
  /\ claimDay' = [claimDay EXCEPT ![Today] = Added(@, {}, n, paid)]
  /\ lastClaimed' = [lastClaimed EXCEPT ![u] = now]
  /\ UNCHANGED totalClaimsPerUser
MutRecordCountOnly(u, n, paid) ==
  /\ claimDay' = [claimDay EXCEPT ![Today] = Added(@, {u}, n, 0)]
  /\ lastClaimed' = [lastClaimed EXCEPT ![u] = now]
  /\ UNCHANGED totalClaimsPerUser
RecordClaims(u, n, paid) ==
  /\ claimDay' = [claimDay EXCEPT ![Today] = Added(@, {u}, n, paid)]
  /\ lastClaimed' = [lastClaimed EXCEPT ![u] = now]
  /\ UNCHANGED totalClaimsPerUser

(* The scheme pays `paid` after it withdrew from the DAO.                  *)
PayFromScheme(paid) ==
  /\ paid <= OpenAmount
  /\ balance' = [balance EXCEPT !["avatar"] = @ - Withdrawn, !["ubi"] = OpenAmount - paid]

(* The pool pays the award of a first claim.                               *)
PayFromPool ==
  /\ CanAward(ThisScheme)
  /\ balance' = [balance EXCEPT !["avatar"] = @ - Withdrawn, !["ubi"] = OpenAmount,
                                !["pool"] = @ - Award]

-----------------------------------------------------------------------------
Init ==
  /\ PoolInit
  /\ balance = [h \in Holders |-> 0]
  /\ now = 1
  /\ whitelisted = {} /\ registered = TRUE
  /\ status = "deployed" /\ periodStart = PeriodStart
  /\ currentDay = 0 /\ lastWithdrawDay = 0
  /\ dailyUbi = 0 /\ dailyCyclePool = 0
  /\ cycleLength = InitialCycleLength /\ currentCycleLength = 0 /\ startOfCycle = 0
  /\ shouldWithdrawFromDAO = FALSE
  /\ activeUsersCount = 0
  /\ lastClaimed = [u \in Users |-> 0]
  /\ fishedUsersAddresses = {}
  /\ claimDay = [d \in Days |-> NoClaims]
  /\ dailyUBIHistory = << >>
  /\ totalClaimsPerUser = [u \in Users |-> 0]

(* start(): AbstractUBI's start computes currentDay from the constructor's *)
(* period, then the period moves to this day's noon, which may be ahead.   *)
Started ==
  /\ status = "deployed" /\ registered
  /\ periodStart <= now /\ now < PeriodEnd
  /\ status' = "active"
  /\ currentDay' = (now - periodStart) \div Day
  /\ periodStart' = Noonday(now)
  /\ startOfCycle' = Noonday(now)
  /\ ubi' = IF poolStatus = "destroyed" THEN ubi ELSE ThisScheme
  /\ UNCHANGED <<lastWithdrawDay, dailyUbi, dailyCyclePool, currentCycleLength,
                 dailyUBIHistory, settings, users, clock, poolStatus>>

start == Started /\ UNCHANGED <<claimAmount, balance>>

(* upgrade(prevUBIScheme): the old scheme's end() is a generic call, whose *)
(* failure is ignored; its balance, read before, is then taken from the    *)
(* avatar.                                                                 *)
upgrade(prevEnds) ==
  LET ubiBalance == balance["prev"]
      moved == IF prevEnds THEN ubiBalance ELSE 0
  IN /\ Started
     /\ claimAmount' = IF poolStatus = "destroyed" THEN claimAmount ELSE UpgradeAward
     /\ ubiBalance <= balance["avatar"] + moved
     /\ balance' = [balance EXCEPT !["prev"] = @ - moved,
                                   !["avatar"] = @ + moved - ubiBalance,
                                   !["ubi"] = @ + ubiBalance]

setDay ==
  /\ status # "destroyed" /\ now >= periodStart
  /\ currentDay' = Today
  /\ UNCHANGED <<lastWithdrawDay, dailyUbi, dailyCyclePool, currentCycleLength,
                 startOfCycle, dailyUBIHistory, status, periodStart, settings,
                 users, clock, poolVars, balance>>

setCycleLength(length) ==
  /\ status # "destroyed" /\ length > 0
  /\ cycleLength' = length
  /\ UNCHANGED <<shouldWithdrawFromDAO, status, periodStart, distribution, users,
                 clock, poolVars, balance>>

setShouldWithdrawFromDAO(b) ==
  /\ status # "destroyed"
  /\ shouldWithdrawFromDAO' = b
  /\ UNCHANGED <<cycleLength, status, periodStart, distribution, users, clock,
                 poolVars, balance>>

(* claim() of a user who claimed before: today's share of the pool         *)
ClaimDaily(u) ==
  /\ ~IsFirstTime(u) /\ u \notin claimDay[Today].hasClaimed
  /\ RecordClaims(u, 1, UbiOfToday)
  /\ PayFromScheme(UbiOfToday)
  /\ UNCHANGED <<activeUsersCount, fishedUsersAddresses>>

(* claim() of a new or fished user: the pool's award                       *)
ClaimFirst(u) ==
  /\ IsFirstTime(u)
  /\ activeUsersCount' = activeUsersCount + 1
  /\ fishedUsersAddresses' = fishedUsersAddresses \ {u}
  /\ RecordClaims(u, 1, Award)
  /\ PayFromPool

(* claim() of a user who has claimed today: it returns false               *)
ClaimAgain(u) ==
  /\ ~IsFirstTime(u) /\ u \in claimDay[Today].hasClaimed
  /\ PayFromScheme(0)
  /\ UNCHANGED users

claim(u) ==
  /\ isActive /\ now >= periodStart /\ u \in whitelisted
  /\ distributionFormula
  /\ ClaimDaily(u) \/ ClaimFirst(u) \/ ClaimAgain(u)
  /\ UNCHANGED <<status, periodStart, settings, clock, poolVars>>

(* activeUsersCount.sub(1), `n` times; SafeMath reverts below zero.        *)
MutDeactivateNobody(n) == UNCHANGED activeUsersCount
Deactivate(n) ==
  /\ n <= activeUsersCount
  /\ activeUsersCount' = activeUsersCount - n

(* fish and fishMulti: `c` fishes the users of S one after the other. A    *)
(* fisher who is in S fished himself first: any later he would be active.  *)
FishAll(c, S) ==
  /\ isActive
  /\ \A u \in S : Fishable(u)
  /\ distributionFormula
  /\ Deactivate(Cardinality(S))
  /\ fishedUsersAddresses' = fishedUsersAddresses \union S
  /\ RecordClaims(c, Cardinality(S), Cardinality(S) * UbiOfToday)
  /\ PayFromScheme(Cardinality(S) * UbiOfToday)
  /\ UNCHANGED <<status, periodStart, settings, clock, poolVars>>

fish(c, u) == FishAll(c, {u})

(* fishMulti skips the accounts that cannot be fished and stops, without   *)
(* reverting, when the gas runs low: any part of the rest is fished.       *)
fishMulti(c) == \E S \in SUBSET Users : S # {} /\ FishAll(c, S)

(* end() by the avatar; removeRights reverts once the scheme is not        *)
(* registered any more.                                                    *)
end ==
  /\ isActive /\ now >= PeriodEnd /\ registered
  /\ status' = "destroyed"
  /\ balance' = [balance EXCEPT !["avatar"] = @ + balance["ubi"], !["ubi"] = 0]
  /\ UNCHANGED <<periodStart, distribution, settings, users, clock, poolVars>>

-----------------------------------------------------------------------------
(* The environment: time, the identity contract, the DAO's controller, and *)
(* G$ that arrives (minted UBI, expansion, gifts).                         *)
Received == balance["ubi"] + balance["pool"] + balance["avatar"] + balance["prev"]

Tick ==
  /\ now < MaxTime
  /\ now' = now + 1
  /\ UNCHANGED <<whitelisted, registered, schemeVars, poolVars, balance>>

WhitelistChanges(u) ==
  /\ whitelisted' = (whitelisted \union {u}) \ (whitelisted \intersect {u})
  /\ UNCHANGED <<now, registered, schemeVars, poolVars, balance>>

Unregister ==
  /\ registered
  /\ registered' = FALSE
  /\ UNCHANGED <<now, whitelisted, schemeVars, poolVars, balance>>

Deposit(h, amount) ==
  /\ Received + amount <= MaxFunds
  /\ balance' = [balance EXCEPT ![h] = @ + amount]
  /\ UNCHANGED <<clock, schemeVars, poolVars>>

-----------------------------------------------------------------------------
UserNext ==
  \/ \E u \in Users : claim(u) \/ fishMulti(u)
  \/ \E c, u \in Users : fish(c, u)

OwnerNext ==
  \/ start
  \/ \E prevEnds \in BOOLEAN : upgrade(prevEnds)
  \/ setDay

AvatarNext ==
  \/ end
  \/ \E length \in CycleLengths : setCycleLength(length)
  \/ \E b \in BOOLEAN : setShouldWithdrawFromDAO(b)

PoolStep == PoolNext /\ UNCHANGED <<clock, schemeVars>>

EnvNext ==
  \/ Tick
  \/ Unregister
  \/ \E u \in Users : WhitelistChanges(u)
  \/ \E h \in Holders, amount \in Deposits : Deposit(h, amount)

Next == UserNext \/ OwnerNext \/ AvatarNext \/ PoolStep \/ EnvNext

Spec == Init /\ [][Next]_vars

-----------------------------------------------------------------------------
(* The types of the state.                                                 *)
TypeOK ==
  /\ PoolTypeOK
  /\ now \in Nat /\ whitelisted \subseteq Users /\ registered \in BOOLEAN
  /\ status \in {"deployed", "active", "destroyed"} /\ periodStart \in Nat
  /\ currentDay \in Nat /\ lastWithdrawDay \in Nat
  /\ dailyUbi \in Nat /\ dailyCyclePool \in Nat
  /\ cycleLength \in Nat /\ currentCycleLength \in Nat /\ startOfCycle \in Nat
  /\ shouldWithdrawFromDAO \in BOOLEAN
  /\ activeUsersCount \in Nat
  /\ lastClaimed \in [Users -> Nat] /\ fishedUsersAddresses \subseteq Users
  /\ claimDay \in [Days -> [hasClaimed : SUBSET Users, amountOfClaimers : Nat,
                            claimAmount : Nat]]
  /\ DOMAIN dailyUBIHistory \subseteq Days
  /\ \A d \in DOMAIN dailyUBIHistory :
       dailyUBIHistory[d] \in [hasWithdrawn : BOOLEAN, openAmount : Nat]
  /\ totalClaimsPerUser \in [Users -> Nat]

(* The users who share the daily pool: they claimed or fished once, and    *)
(* have not been fished since.                                             *)
Claimants == {u \in Users : isNotNewUser(u)} \ fishedUsersAddresses

(* The days whose share was calculated in the running cycle.               *)
CycleDays ==
  {d \in DOMAIN dailyUBIHistory : d >= (startOfCycle - periodStart) \div Day}

(* Nobody is counted twice: the pool of the day is never divided by more   *)
(* users than there are to claim it, whatever claims, fishing and          *)
(* re-activations came before.                                             *)
NoUserCountedTwice == activeUsersCount <= Cardinality(Claimants)

(* As long as everybody who may claim is counted and the cycle has not     *)
(* overrun its length, the scheme holds enough for the rest of the cycle:  *)
(* the share of everybody who has not claimed on the last day calculated,  *)
(* and the whole pool of every day of the cycle still to come. No claim of *)
(* the cycle can then fail for lack of funds.                              *)
CycleIsFunded ==
  isActive /\ Cardinality(Claimants) = activeUsersCount
           /\ Cardinality(CycleDays) <= currentCycleLength =>
    balance["ubi"] >=
      (currentCycleLength - Cardinality(CycleDays)) * dailyCyclePool
      + Cardinality(Claimants \ claimDay[lastWithdrawDay].hasClaimed) * dailyUbi

(* A cycle that overruns its length does so by one day only.               *)
CycleOverrunsByOneDay == Cardinality(CycleDays) <= currentCycleLength + 1

(* A user's timestamp and the days' records tell the same story, the one   *)
(* fishing relies on and the other one the limit of a claim a day: the     *)
(* timestamp is in the last day that lists the user. A day counts at least *)
(* as many claims as it lists users.                                       *)
DayOf(t) == (t - periodStart) \div Day
ClaimRecordsAgree ==
  /\ \A u \in Users : isNotNewUser(u) =>
       /\ lastClaimed[u] >= periodStart /\ lastClaimed[u] <= now
       /\ u \in claimDay[DayOf(lastClaimed[u])].hasClaimed
  /\ \A d \in Days, u \in Users : u \in claimDay[d].hasClaimed =>
       isNotNewUser(u) /\ d <= DayOf(lastClaimed[u])
  /\ \A d \in Days : Cardinality(claimDay[d].hasClaimed) <= claimDay[d].amountOfClaimers

(* The share, and the pool it comes from, are calculated by the first      *)
(* transaction of a day and stay the same for every other claim and fish   *)
(* of that day.                                                            *)
ShareFixedForTheDay ==
  [][dailyUbi' # dailyUbi \/ dailyCyclePool' # dailyCyclePool =>
       lastWithdrawDay' > lastWithdrawDay]_vars

(* A cycle that has begun keeps its daily pool for its whole length, even  *)
(* when the DAO sets another length meanwhile.                             *)
PoolFixedForTheCycle ==
  [][dailyCyclePool' # dailyCyclePool =>
       now >= startOfCycle + currentCycleLength * Day]_vars

(* Every G$ that leaves the scheme, the pool and the avatar towards users  *)
(* is in the statistics of some day: only a deposit changes the sum.       *)
Paid == [d \in Days |-> claimDay[d].claimAmount]
Ledger == Received + SumOf(Paid)
PaymentsRecorded ==
  [][Ledger' = Ledger \/ (claimDay' = claimDay /\ Ledger' > Ledger)]_vars

(* Nobody loses the place among the active users who claimed, or fished,   *)
(* on one of the last MaxInactiveDays days.                                *)
FishedAfterInactivity ==
  [][\A u \in fishedUsersAddresses' \ fishedUsersAddresses, d \in Days :
       u \in claimDay[d].hasClaimed => d + MaxInactiveDays <= Today]_vars

-----------------------------------------------------------------------------
(* What the comments say and the code does not do. Each of these fails.    *)

(* UBIScheme.sol, lines 19-21: the number of active users changes when "a  *)
(* new user claim for the first time or when a user has been fished". A    *)
(* new user whose first call is fish() is active and not counted.          *)
ActiveUsersCounted == activeUsersCount = Cardinality(Claimants)

(* Lines 38-39: cycleLength is the "number of days of each UBI pool cycle" *)
(* and the daily pool is Pool/cycleLength. Days change at noon and cycles  *)
(* at the hour of their first claim, so a cycle can have a day more.       *)
CycleKeepsItsLength == Cardinality(CycleDays) <= currentCycleLength

(* Line 74: totalClaimsPerUser is the "Total claims per user stat".        *)
TotalClaimsTracked ==
  \A u \in Users, d \in Days : u \in claimDay[d].hasClaimed => totalClaimsPerUser[u] > 0

(* Line 482: "transfer funds from old scheme here".                        *)
UpgradeMovesOldFunds ==
  [][status = "deployed" /\ status' = "active" /\ balance'["ubi"] > balance["ubi"]
     => balance'["prev"] = 0]_vars

=============================================================================
