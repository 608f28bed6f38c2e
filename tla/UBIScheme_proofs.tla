--------------------------- MODULE UBIScheme_proofs ----------------------------
(***************************************************************************)
(* Proofs about UBIScheme and its pool, for any users, clock and cycles.   *)
(* The inductive invariant adds to the invariants the runs check where the *)
(* clock is, that the fished are known users, that nothing is recorded     *)
(* before the scheme starts (start moves the origin of the days), and that *)
(* the last day calculated is not in the future. A second invariant        *)
(* relates the days of the claims to the days of the cycle, and a third,   *)
(* on top of both, says that the cycle's pools cover what was promised.    *)
(***************************************************************************)
EXTENDS UBIScheme, Sums_proofs, TLAPS

NothingRecorded ==
  /\ lastClaimed = [u \in Users |-> 0] /\ fishedUsersAddresses = {}
  /\ claimDay = [d \in Days |-> NoClaims] /\ lastWithdrawDay = 0

ClockInv ==
  /\ now \in 1 .. MaxTime
  /\ status = "deployed" => NothingRecorded
  /\ IF now >= periodStart THEN lastWithdrawDay <= Today ELSE lastWithdrawDay = 0

FishedAreKnown == \A u \in fishedUsersAddresses : isNotNewUser(u)

UInv == TypeOK /\ ClockInv /\ FishedAreKnown /\ NoUserCountedTwice /\ ClaimRecordsAgree

-----------------------------------------------------------------------------
(* Division by the length of a day.                                        *)
LEMMA DivFacts ==
  ASSUME NEW a \in Nat, NEW d \in Nat \ {0}
  PROVE  a \div d \in Nat /\ d * (a \div d) <= a /\ a < d * (a \div d) + d
OBVIOUS

LEMMA TimesMono ==
  ASSUME NEW d \in Nat \ {0}, NEW m \in Nat, NEW n \in Nat, m <= n
  PROVE  d * m <= d * n
OBVIOUS

(* Later times are in later days.                                          *)
LEMMA DivMono ==
  ASSUME NEW a \in Nat, NEW b \in Nat, NEW d \in Nat \ {0}, a <= b
  PROVE  a \div d <= b \div d
<1> DEFINE p == a \div d
           q == b \div d
<1>1. p \in Nat /\ d * p <= a
  BY DivFacts
<1>2. q \in Nat /\ b < d * q + d
  BY DivFacts
<1> HIDE DEF p, q
<1>3. SUFFICES ASSUME q + 1 <= p PROVE FALSE
  BY <1>1, <1>2 DEF p, q
<1>4. d * (q + 1) <= d * p
  BY TimesMono, <1>1, <1>2, <1>3
<1>5. d * (q + 1) = d * q + d
  BY <1>2
<1> QED  BY <1>1, <1>2, <1>4, <1>5

(* The whole days of two spans make no more than those of their sum.       *)
LEMMA DivSuper ==
  ASSUME NEW a \in Nat, NEW b \in Nat, NEW d \in Nat \ {0}
  PROVE  a \div d + b \div d <= (a + b) \div d
<1> DEFINE p == a \div d
           q == b \div d
           r == (a + b) \div d
<1>1. p \in Nat /\ d * p <= a
  BY DivFacts
<1>2. q \in Nat /\ d * q <= b
  BY DivFacts
<1>3. r \in Nat /\ a + b < d * r + d
  BY DivFacts
<1> HIDE DEF p, q, r
<1>4. SUFFICES ASSUME r + 1 <= p + q PROVE FALSE
  BY <1>1, <1>2, <1>3 DEF p, q, r
<1>5. d * (r + 1) <= d * (p + q)
  BY TimesMono, <1>1, <1>2, <1>3, <1>4
<1>6. d * (r + 1) = d * r + d /\ d * (p + q) = d * p + d * q
  BY <1>1, <1>2, <1>3
<1> QED  BY <1>1, <1>2, <1>3, <1>5, <1>6

(* Once the period has begun, today is one of the days of the model.       *)
LEMMA TodayIsADay ==
  ASSUME UBISchemeAssumption, periodStart \in Nat, now \in 1 .. MaxTime, now >= periodStart
  PROVE  Today \in Days
<1>1. now - periodStart \in Nat /\ now - periodStart <= MaxTime
  OBVIOUS
<1>2. Today \in Nat
  BY <1>1, DivFacts DEF Today, UBISchemeAssumption
<1>3. Today <= MaxTime \div Day
  BY <1>1, DivMono DEF Today, UBISchemeAssumption
<1>4. MaxTime \div Day \in Nat
  BY DivFacts DEF UBISchemeAssumption
<1> QED  BY <1>2, <1>3, <1>4 DEF Days

-----------------------------------------------------------------------------
(* What distributionFormula leaves behind.                                 *)
LEMMA OpenTypes ==
  ASSUME TypeOK
  PROVE  /\ Withdrawn \in Nat /\ OpenAmount \in Nat
         /\ balance["avatar"] - Withdrawn \in Nat
BY DEF TypeOK, PoolTypeOK, Holders, Withdrawn, OpenAmount

LEMMA DistributionTypes ==
  ASSUME UBISchemeAssumption, TypeOK, now \in 1 .. MaxTime, distributionFormula
  PROVE  /\ Today \in Days /\ PoolOfToday \in Nat /\ UbiOfToday \in Nat
         /\ currentDay' \in Nat /\ lastWithdrawDay' \in Nat
         /\ dailyUbi' \in Nat /\ dailyCyclePool' \in Nat
         /\ currentCycleLength' \in Nat /\ startOfCycle' \in Nat
         /\ DOMAIN dailyUBIHistory' \subseteq Days
         /\ \A d \in DOMAIN dailyUBIHistory' :
              dailyUBIHistory'[d] \in [hasWithdrawn : BOOLEAN, openAmount : Nat]
<1> USE DEF TypeOK, distributionFormula
<1>1. Today \in Days
  BY TodayIsADay
<1>2. Today \in Nat
  BY <1>1, DivFacts DEF Days, UBISchemeAssumption
<1>3. PoolOfToday \in Nat
  <2>1. CASE NewCycle
    BY <2>1, OpenTypes, DivFacts DEF PoolOfToday
  <2>2. CASE ~NewCycle
    BY <2>2 DEF PoolOfToday
  <2> QED  BY <2>1, <2>2
<1>4. UbiOfToday \in Nat
  <2>1. CASE NewDay /\ activeUsersCount > 0
    BY <2>1, <1>3, DivFacts DEF UbiOfToday
  <2>2. CASE ~(NewDay /\ activeUsersCount > 0)
    BY <2>2 DEF UbiOfToday
  <2> QED  BY <2>1, <2>2
<1>5. startOfCycle' \in Nat
  <2>1. StartOfHour(now) \in Nat
    <3>1. now \div Hour \in Nat
      BY DivFacts DEF UBISchemeAssumption
    <3> QED  BY <3>1 DEF StartOfHour, UBISchemeAssumption
  <2> QED  BY <2>1
<1>6. /\ DOMAIN dailyUBIHistory' \subseteq Days
      /\ \A d \in DOMAIN dailyUBIHistory' :
              dailyUBIHistory'[d] \in [hasWithdrawn : BOOLEAN, openAmount : Nat]
  <2>1. CASE NewDay
    BY <2>1, <1>1, OpenTypes
  <2>2. CASE ~NewDay
    BY <2>2
  <2> QED  BY <2>1, <2>2
<1> QED  BY <1>1, <1>2, <1>3, <1>4, <1>5, <1>6

(* What recording claims does to the days.                                 *)
LEMMA RecordEffect ==
  ASSUME TypeOK, Today \in Days, now \in Nat,
         NEW u \in Users, NEW n \in Nat, NEW paid \in Nat, RecordClaims(u, n, paid)
  PROVE  /\ lastClaimed' \in [Users -> Nat] /\ totalClaimsPerUser' = totalClaimsPerUser
         /\ \A v \in Users : lastClaimed'[v] = IF v = u THEN now ELSE lastClaimed[v]
         /\ claimDay' \in [Days -> [hasClaimed : SUBSET Users, amountOfClaimers : Nat,
                                    claimAmount : Nat]]
         /\ \A d \in Days :
              /\ d # Today => claimDay'[d] = claimDay[d]
              /\ d = Today =>
                   /\ claimDay'[d].hasClaimed = claimDay[d].hasClaimed \union {u}
                   /\ claimDay'[d].amountOfClaimers = claimDay[d].amountOfClaimers + n
BY DEF TypeOK, RecordClaims, Added

LEMMA PayTypes ==
  ASSUME TypeOK, NEW paid \in Nat, PayFromScheme(paid) \/ PayFromPool
  PROVE  balance' \in [Holders -> Nat]
<1> USE OpenTypes DEF TypeOK, PoolTypeOK, Holders
<1>1. CASE PayFromScheme(paid)
  BY <1>1 DEF PayFromScheme
<1>2. CASE PayFromPool
  BY <1>2 DEF PayFromPool, Award
<1> QED  BY <1>1, <1>2

LEMMA SizeType ==
  ASSUME UBISchemeAssumption, NEW S \in SUBSET Users
  PROVE  IsFiniteSet(S) /\ Cardinality(S) \in Nat
BY FS_Subset, FS_CardinalityType DEF UBISchemeAssumption

-----------------------------------------------------------------------------
(* What claims and fishing do to the sets behind activeUsersCount: a first *)
(* claim adds its user to the claimants, fishing takes the fished away and *)
(* may add the fisher.                                                     *)
LEMMA FirstClaimCounts ==
  ASSUME UBISchemeAssumption, TypeOK, now \in 1 .. MaxTime, now >= periodStart,
         NoUserCountedTwice, NEW u \in Users, ClaimFirst(u)
  PROVE  NoUserCountedTwice'
<1>1. u \notin Claimants /\ Claimants' = Claimants \union {u}
  BY TodayIsADay, RecordEffect
     DEF TypeOK, ClaimFirst, IsFirstTime, isNotNewUser, Claimants, RecordClaims
<1>2. Cardinality(Claimants \union {u}) = Cardinality(Claimants) + 1
  <2>1. IsFiniteSet(Claimants)
    BY SizeType DEF Claimants
  <2> QED  BY <1>1, <2>1, FS_AddElement
<1>3. Cardinality(Claimants) \in Nat
  BY SizeType DEF Claimants
<1> QED  BY <1>1, <1>2, <1>3 DEF ClaimFirst, NoUserCountedTwice, TypeOK

LEMMA FishingCounts ==
  ASSUME UBISchemeAssumption, TypeOK, now \in 1 .. MaxTime, now >= periodStart,
         NoUserCountedTwice,
         NEW c \in Users, NEW S \in SUBSET Users, FishAll(c, S)
  PROVE  NoUserCountedTwice'
<1>1. lastClaimed' = [lastClaimed EXCEPT ![c] = now] /\ lastClaimed \in [Users -> Nat]
  BY DEF FishAll, RecordClaims, TypeOK
<1>2. S \subseteq Claimants /\ Claimants \ S \subseteq Claimants'
  BY <1>1 DEF FishAll, Fishable, isNotNewUser, Claimants
<1>3. IsFiniteSet(Claimants) /\ IsFiniteSet(S)
  BY SizeType DEF Claimants
<1>4. IsFiniteSet(Claimants') /\ Cardinality(Claimants') \in Nat
  <2>1. Claimants' \in SUBSET Users
    BY DEF Claimants
  <2> QED  BY <2>1, SizeType
<1>5. Cardinality(Claimants \ S) = Cardinality(Claimants) - Cardinality(S)
  <2>1. Cardinality(Claimants \ S) = Cardinality(Claimants) - Cardinality(Claimants \intersect S)
    BY <1>3, FS_Difference
  <2>2. Claimants \intersect S = S
    BY <1>2
  <2> QED  BY <2>1, <2>2
<1>6. Cardinality(Claimants \ S) <= Cardinality(Claimants')
  BY <1>2, <1>4, FS_Subset
<1>7. Cardinality(Claimants) \in Nat /\ Cardinality(S) \in Nat /\ Cardinality(Claimants \ S) \in Nat
  BY SizeType DEF Claimants
<1>8. activeUsersCount' = activeUsersCount - Cardinality(S) /\ activeUsersCount \in Nat
  BY DEF FishAll, Deactivate, TypeOK
<1>9. activeUsersCount <= Cardinality(Claimants)
  BY DEF NoUserCountedTwice
<1> QED  BY <1>5, <1>6, <1>7, <1>8, <1>9, <1>4 DEF NoUserCountedTwice

(* Recording a claim keeps timestamps and records in agreement.            *)
LEMMA RecordKeepsAgreement ==
  ASSUME UBISchemeAssumption, TypeOK, now \in 1 .. MaxTime, now >= periodStart,
         ClaimRecordsAgree, NEW u \in Users, NEW n \in Nat \ {0}, NEW paid \in Nat,
         RecordClaims(u, n, paid), now' = now, periodStart' = periodStart
  PROVE  ClaimRecordsAgree'
<1>1. Today \in Days /\ Today = DayOf(now) /\ now \in Nat /\ periodStart \in Nat
  BY TodayIsADay DEF TypeOK, Today, DayOf
<1>2. lastClaimed \in [Users -> Nat]
      /\ claimDay \in [Days -> [hasClaimed : SUBSET Users, amountOfClaimers : Nat,
                                claimAmount : Nat]]
  BY DEF TypeOK
<1>3. \A v \in Users : lastClaimed'[v] = IF v = u THEN now ELSE lastClaimed[v]
  BY <1>1, RecordEffect
<1>4. \A d \in Days :
        /\ d # Today => claimDay'[d] = claimDay[d]
        /\ d = Today =>
             /\ claimDay'[d].hasClaimed = claimDay[d].hasClaimed \union {u}
             /\ claimDay'[d].amountOfClaimers = claimDay[d].amountOfClaimers + n
  BY <1>1, RecordEffect
<1>5. ASSUME NEW v \in Users, isNotNewUser(v)'
      PROVE  /\ lastClaimed'[v] >= periodStart /\ lastClaimed'[v] <= now
             /\ v \in claimDay'[DayOf(lastClaimed'[v])].hasClaimed
  <2>1. CASE v = u
    BY <2>1, <1>1, <1>3, <1>4
  <2>2. CASE v # u
    <3>1. lastClaimed'[v] = lastClaimed[v] /\ isNotNewUser(v)
      BY <2>2, <1>3, <1>5 DEF isNotNewUser
    <3>2. /\ lastClaimed[v] >= periodStart /\ lastClaimed[v] <= now
          /\ v \in claimDay[DayOf(lastClaimed[v])].hasClaimed
      BY <3>1 DEF ClaimRecordsAgree
    <3>3. DayOf(lastClaimed[v]) \in Days
      <4>1. lastClaimed[v] - periodStart \in Nat /\ lastClaimed[v] - periodStart <= now - periodStart
            /\ now - periodStart \in Nat
        BY <3>2, <1>1, <1>2
      <4>2. DayOf(lastClaimed[v]) \in Nat /\ DayOf(lastClaimed[v]) <= Today
        BY <4>1, <1>1, DivFacts, DivMono DEF DayOf, UBISchemeAssumption
      <4> QED  BY <4>2, <1>1, DivFacts DEF Days, UBISchemeAssumption
    <3> QED  BY <3>1, <3>2, <3>3, <1>4
  <2> QED  BY <2>1, <2>2
<1>6. ASSUME NEW d \in Days, NEW v \in Users, v \in claimDay'[d].hasClaimed
      PROVE  isNotNewUser(v)' /\ d <= DayOf(lastClaimed'[v])
  <2>1. CASE d = Today /\ v = u
    BY <2>1, <1>1, <1>3, DivFacts DEF isNotNewUser, Days, UBISchemeAssumption
  <2>2. CASE ~(d = Today /\ v = u)
    <3>1. v \in claimDay[d].hasClaimed
      BY <2>2, <1>4, <1>6
    <3>2. isNotNewUser(v) /\ d <= DayOf(lastClaimed[v])
      BY <3>1 DEF ClaimRecordsAgree
    <3>3. CASE v # u
      BY <3>2, <3>3, <1>3 DEF isNotNewUser
    <3>4. CASE v = u
      <4>1. lastClaimed[v] >= periodStart /\ lastClaimed[v] <= now
        BY <3>2 DEF ClaimRecordsAgree
      <4>2. lastClaimed[v] - periodStart \in Nat /\ now - periodStart \in Nat
            /\ lastClaimed[v] - periodStart <= now - periodStart
        BY <4>1, <1>1, <1>2
      <4>3. /\ DayOf(lastClaimed[v]) \in Nat /\ DayOf(now) \in Nat
            /\ DayOf(lastClaimed[v]) <= DayOf(now)
        BY <4>2, DivFacts, DivMono DEF DayOf, UBISchemeAssumption
      <4>4. d \in Nat
        BY DivFacts DEF Days, UBISchemeAssumption
      <4> QED  BY <3>2, <3>4, <4>3, <4>4, <1>1, <1>3 DEF isNotNewUser
    <3> QED  BY <3>3, <3>4
  <2> QED  BY <2>1, <2>2
<1>7. ASSUME NEW d \in Days
      PROVE  Cardinality(claimDay'[d].hasClaimed) <= claimDay'[d].amountOfClaimers
  <2> DEFINE H == claimDay[d].hasClaimed
  <2>1. H \in SUBSET Users /\ IsFiniteSet(H) /\ Cardinality(H) \in Nat
    BY <1>2, SizeType
  <2>2. Cardinality(H) <= claimDay[d].amountOfClaimers /\ claimDay[d].amountOfClaimers \in Nat
    BY <1>2 DEF ClaimRecordsAgree
  <2>3. Cardinality(H \union {u}) <= Cardinality(H) + 1
    <3>1. Cardinality(H \union {u}) = IF u \in H THEN Cardinality(H) ELSE Cardinality(H) + 1
      BY <2>1, FS_AddElement
    <3> QED  BY <3>1, <2>1
  <2>4. Cardinality(H \union {u}) \in Nat
    BY <2>1, SizeType
  <2> HIDE DEF H
  <2>5. CASE d = Today
    <3>1. claimDay'[d].hasClaimed = H \union {u}
          /\ claimDay'[d].amountOfClaimers = claimDay[d].amountOfClaimers + n
      BY <2>5, <1>4 DEF H
    <3> QED  BY <3>1, <2>1, <2>2, <2>3, <2>4
  <2>6. CASE d # Today
    BY <2>6, <2>2, <1>4 DEF H
  <2> QED  BY <2>5, <2>6
<1> QED  BY <1>5, <1>6, <1>7 DEF ClaimRecordsAgree, DayOf

-----------------------------------------------------------------------------
(* Types.                                                                  *)
LEMMA ClaimTypes ==
  ASSUME UBISchemeAssumption, TypeOK, now \in 1 .. MaxTime, NEW u \in Users, claim(u)
  PROVE  TypeOK'
<1> USE DEF TypeOK, PoolTypeOK
<1>1. /\ Today \in Days /\ UbiOfToday \in Nat
      /\ currentDay' \in Nat /\ lastWithdrawDay' \in Nat
      /\ dailyUbi' \in Nat /\ dailyCyclePool' \in Nat
      /\ currentCycleLength' \in Nat /\ startOfCycle' \in Nat
      /\ DOMAIN dailyUBIHistory' \subseteq Days
      /\ \A d \in DOMAIN dailyUBIHistory' :
              dailyUBIHistory'[d] \in [hasWithdrawn : BOOLEAN, openAmount : Nat]
  BY DistributionTypes DEF claim
<1>2. /\ activeUsersCount' \in Nat /\ fishedUsersAddresses' \subseteq Users
      /\ balance' \in [Holders -> Nat]
      /\ lastClaimed' \in [Users -> Nat] /\ totalClaimsPerUser' \in [Users -> Nat]
      /\ claimDay' \in [Days -> [hasClaimed : SUBSET Users, amountOfClaimers : Nat,
                                 claimAmount : Nat]]
  <2>1. CASE ClaimDaily(u)
    BY <2>1, <1>1, RecordEffect, PayTypes DEF ClaimDaily
  <2>2. CASE ClaimFirst(u)
    <3>1. Award \in Nat
      BY DEF Award
    <3>2. /\ lastClaimed' \in [Users -> Nat] /\ totalClaimsPerUser' \in [Users -> Nat]
          /\ claimDay' \in [Days -> [hasClaimed : SUBSET Users, amountOfClaimers : Nat,
                                     claimAmount : Nat]]
      BY <2>2, <3>1, <1>1, RecordEffect DEF ClaimFirst
    <3>3. balance' \in [Holders -> Nat]
      BY <2>2, <3>1, PayTypes DEF ClaimFirst
    <3> QED  BY <2>2, <3>2, <3>3 DEF ClaimFirst
  <2>3. CASE ClaimAgain(u)
    BY <2>3, PayTypes DEF ClaimAgain, users
  <2> QED  BY <2>1, <2>2, <2>3 DEF claim
<1> QED  BY <1>1, <1>2 DEF claim, clock, settings, poolVars

LEMMA FishTypes ==
  ASSUME UBISchemeAssumption, TypeOK, now \in 1 .. MaxTime,
         NEW c \in Users, NEW S \in SUBSET Users, FishAll(c, S)
  PROVE  TypeOK'
<1> USE DEF TypeOK, PoolTypeOK
<1>1. /\ Today \in Days /\ UbiOfToday \in Nat
      /\ currentDay' \in Nat /\ lastWithdrawDay' \in Nat
      /\ dailyUbi' \in Nat /\ dailyCyclePool' \in Nat
      /\ currentCycleLength' \in Nat /\ startOfCycle' \in Nat
      /\ DOMAIN dailyUBIHistory' \subseteq Days
      /\ \A d \in DOMAIN dailyUBIHistory' :
              dailyUBIHistory'[d] \in [hasWithdrawn : BOOLEAN, openAmount : Nat]
  BY DistributionTypes DEF FishAll
<1>2. Cardinality(S) \in Nat /\ Cardinality(S) * UbiOfToday \in Nat
  BY <1>1, SizeType
<1>3. RecordClaims(c, Cardinality(S), Cardinality(S) * UbiOfToday)
      /\ PayFromScheme(Cardinality(S) * UbiOfToday)
  BY DEF FishAll
<1>4. /\ lastClaimed' \in [Users -> Nat] /\ totalClaimsPerUser' \in [Users -> Nat]
      /\ claimDay' \in [Days -> [hasClaimed : SUBSET Users, amountOfClaimers : Nat,
                                 claimAmount : Nat]]
  BY <1>1, <1>2, <1>3, RecordEffect
<1>5. balance' \in [Holders -> Nat]
  BY <1>2, <1>3, PayTypes
<1>6. activeUsersCount' \in Nat /\ fishedUsersAddresses' \subseteq Users
  BY <1>2 DEF FishAll, Deactivate
<1> QED  BY <1>1, <1>4, <1>5, <1>6 DEF FishAll, clock, settings, poolVars

LEMMA StartTypes ==
  ASSUME UBISchemeAssumption, FirstClaimPoolAssumption, TypeOK, now \in 1 .. MaxTime,
         start \/ \E prevEnds \in BOOLEAN : upgrade(prevEnds)
  PROVE  TypeOK'
<1> USE DEF TypeOK, PoolTypeOK, UBISchemeAssumption, Holders
<1>1. Started
  BY DEF start, upgrade
<1>2. Noonday(now) \in Nat /\ (now - periodStart) \div Day \in Nat
  <2>1. now \div Day \in Nat /\ now - periodStart \in Nat
    BY <1>1, DivFacts DEF Started
  <2>2. \A q \in Nat : q * Day + Noon \in Nat
    OBVIOUS
  <2> QED  BY <2>1, <2>2, DivFacts DEF Noonday
<1>3. claimAmount' \in Nat /\ balance' \in [Holders -> Nat]
  <2>1. CASE start
    BY <2>1 DEF start
  <2>2. ASSUME NEW prevEnds \in BOOLEAN, upgrade(prevEnds)
        PROVE  claimAmount' \in Nat /\ balance' \in [Holders -> Nat]
    BY <2>2 DEF upgrade
  <2> QED  BY <2>1, <2>2
<1> QED  BY <1>1, <1>2, <1>3 DEF Started, Schemes, settings, users, clock

LEMMA TypeStep ==
  UBISchemeAssumption /\ FirstClaimPoolAssumption /\ TypeOK /\ now \in 1 .. MaxTime /\ [Next]_vars
    => TypeOK'
<1> SUFFICES ASSUME UBISchemeAssumption, FirstClaimPoolAssumption, TypeOK,
                    now \in 1 .. MaxTime, [Next]_vars
             PROVE  TypeOK'
  OBVIOUS
<1>1. ASSUME NEW u \in Users, claim(u) PROVE TypeOK'
  BY <1>1, ClaimTypes
<1>2. ASSUME NEW c \in Users, NEW S \in SUBSET Users, FishAll(c, S) PROVE TypeOK'
  BY <1>2, FishTypes
<1>3. CASE UserNext
  BY <1>1, <1>2, <1>3 DEF UserNext, fish, fishMulti
<1>4. CASE OwnerNext
  <2>1. CASE setDay
    <3>1. Today \in Nat
      BY <2>1, DivFacts DEF setDay, Today, TypeOK, UBISchemeAssumption
    <3> QED  BY <2>1, <3>1 DEF setDay, TypeOK, PoolTypeOK, settings, users, clock, poolVars
  <2> QED  BY <2>1, <1>4, StartTypes DEF OwnerNext
<1> USE DEF TypeOK, PoolTypeOK, UBISchemeAssumption, FirstClaimPoolAssumption, Holders,
            distribution, settings, users, clock, poolVars, schemeVars, vars
<1>5. CASE AvatarNext
  BY <1>5 DEF AvatarNext, end, setCycleLength, setShouldWithdrawFromDAO
<1>6. CASE PoolStep
  BY <1>6 DEF PoolStep, PoolNext, startPool, endPool, setUBIScheme, setClaimAmount
<1>7. CASE EnvNext
  <2>1. ASSUME NEW h \in Holders, NEW amount \in Deposits, Deposit(h, amount)
        PROVE  TypeOK'
    BY <2>1 DEF Deposit
  <2>2. CASE Tick
    BY <2>2 DEF Tick
  <2>3. CASE Unregister
    BY <2>3 DEF Unregister
  <2>4. ASSUME NEW u \in Users, WhitelistChanges(u) PROVE TypeOK'
    BY <2>4 DEF WhitelistChanges
  <2> QED  BY <2>1, <2>2, <2>3, <2>4, <1>7 DEF EnvNext
<1>8. CASE UNCHANGED vars
  BY <1>8
<1> QED  BY <1>3, <1>4, <1>5, <1>6, <1>7, <1>8 DEF Next

-----------------------------------------------------------------------------
(* The steps, by what they do to the records of claims.                    *)
Quiet ==
  /\ UNCHANGED <<users, periodStart, now, lastWithdrawDay, dailyUbi, dailyCyclePool,
                 startOfCycle, currentCycleLength, dailyUBIHistory>>
  /\ status' = "deployed" <=> status = "deployed"
  /\ status' = "active" => status = "active"
Fishing == \E c \in Users, S \in SUBSET Users : S # {} /\ FishAll(c, S)

LEMMA StepKinds ==
  [Next]_vars => (\E u \in Users : claim(u)) \/ Fishing \/ Started \/ Tick \/ Quiet
<1> SUFFICES ASSUME [Next]_vars
             PROVE  (\E u \in Users : claim(u)) \/ Fishing \/ Started \/ Tick \/ Quiet
  OBVIOUS
<1>1. CASE UserNext
  <2>1. ASSUME NEW c \in Users, NEW u \in Users, fish(c, u) PROVE Fishing
    <3>1. {u} \in SUBSET Users /\ {u} # {} /\ FishAll(c, {u})
      BY <2>1 DEF fish
    <3> QED  BY <3>1 DEF Fishing
  <2>2. ASSUME NEW c \in Users, fishMulti(c) PROVE Fishing
    BY <2>2 DEF fishMulti, Fishing
  <2> QED  BY <1>1, <2>1, <2>2 DEF UserNext
<1>2. CASE OwnerNext
  BY <1>2 DEF OwnerNext, start, upgrade, setDay, Quiet, users, clock
<1>3. CASE AvatarNext
  BY <1>3 DEF AvatarNext, end, setCycleLength, setShouldWithdrawFromDAO, Quiet,
              isActive, distribution, users, clock
<1>4. CASE PoolStep \/ UNCHANGED vars
  BY <1>4 DEF PoolStep, vars, schemeVars, Quiet, distribution, users, clock
<1>5. CASE EnvNext
  <2> USE DEF schemeVars, Quiet, distribution, users, clock
  <2>1. ASSUME NEW u \in Users, WhitelistChanges(u) PROVE Quiet
    BY <2>1 DEF WhitelistChanges
  <2>2. ASSUME NEW h \in Holders, NEW amount \in Deposits, Deposit(h, amount) PROVE Quiet
    BY <2>2 DEF Deposit
  <2>3. CASE Unregister
    BY <2>3 DEF Unregister
  <2> QED  BY <1>5, <2>1, <2>2, <2>3 DEF EnvNext
<1> QED  BY <1>1, <1>2, <1>3, <1>4, <1>5 DEF Next

LEMMA QuietKeeps ==
  ASSUME UInv, Quiet
  PROVE  ClockInv' /\ FishedAreKnown' /\ NoUserCountedTwice' /\ ClaimRecordsAgree'
<1> USE DEF UInv, Quiet, users
<1>1. ClockInv'
  BY DEF ClockInv, NothingRecorded, Today
<1>2. FishedAreKnown' /\ NoUserCountedTwice'
  BY DEF FishedAreKnown, NoUserCountedTwice, Claimants, isNotNewUser
<1>3. ClaimRecordsAgree'
  BY DEF ClaimRecordsAgree, isNotNewUser, DayOf
<1> QED  BY <1>1, <1>2, <1>3

LEMMA TickKeeps ==
  ASSUME UBISchemeAssumption, UInv, Tick
  PROVE  ClockInv' /\ FishedAreKnown' /\ NoUserCountedTwice' /\ ClaimRecordsAgree'
<1>0. Today' = ((now + 1) - periodStart) \div Day
  <2>1. now' = now + 1 /\ periodStart' = periodStart
    BY DEF Tick, schemeVars
  <2> QED  BY <2>1 DEF Today
<1> USE DEF UInv, Tick, schemeVars, users, distribution
<1>1. ClockInv'
  <2>1. now' \in 1 .. MaxTime /\ (status' = "deployed" => NothingRecorded')
    BY DEF ClockInv, NothingRecorded, UBISchemeAssumption
  <2>2. CASE now >= periodStart
    <3>1. now - periodStart \in Nat /\ (now + 1) - periodStart \in Nat
          /\ now - periodStart <= (now + 1) - periodStart
      BY <2>2 DEF TypeOK
    <3>2. Today \in Nat /\ Today' \in Nat /\ Today <= Today'
      BY <1>0, <3>1, DivFacts, DivMono DEF Today, UBISchemeAssumption
    <3> QED  BY <2>1, <2>2, <3>2 DEF ClockInv, TypeOK
  <2>3. CASE now < periodStart
    <3>1. lastWithdrawDay' = 0
      BY <2>3 DEF ClockInv, TypeOK
    <3>2. ASSUME now + 1 >= periodStart PROVE Today' \in Nat
      <4>1. (now + 1) - periodStart \in Nat
        BY <3>2 DEF TypeOK
      <4> QED  BY <1>0, <4>1, DivFacts DEF UBISchemeAssumption
    <3> QED  BY <2>1, <3>1, <3>2 DEF ClockInv, TypeOK
  <2> QED  BY <2>2, <2>3 DEF TypeOK
<1>2. FishedAreKnown' /\ NoUserCountedTwice'
  BY DEF FishedAreKnown, NoUserCountedTwice, Claimants, isNotNewUser
<1>3. ClaimRecordsAgree'
  BY DEF ClaimRecordsAgree, isNotNewUser, DayOf, TypeOK
<1> QED  BY <1>1, <1>2, <1>3

(* Nothing is recorded when the days get their origin.                     *)
LEMMA StartKeeps ==
  ASSUME UBISchemeAssumption, UInv, Started, TypeOK'
  PROVE  ClockInv' /\ FishedAreKnown' /\ NoUserCountedTwice' /\ ClaimRecordsAgree'
<1> USE DEF UInv, Started, users, clock
<1>1. NothingRecorded /\ now' = now
  BY DEF ClockInv
<1>2. ClockInv'
  <2>1. now' >= periodStart' => Today' \in Nat
    BY DivFacts DEF Today, TypeOK, UBISchemeAssumption
  <2> QED  BY <1>1, <2>1 DEF ClockInv, NothingRecorded
<1>3. FishedAreKnown' /\ NoUserCountedTwice'
  BY <1>1 DEF FishedAreKnown, NoUserCountedTwice, Claimants, isNotNewUser
<1>4. ClaimRecordsAgree'
  <2>1. \A u \in Users : ~isNotNewUser(u)'
    BY <1>1 DEF NothingRecorded, isNotNewUser
  <2>2. \A d \in Days : claimDay'[d] = claimDay[d] /\ claimDay[d].hasClaimed = {}
    BY <1>1 DEF NothingRecorded, NoClaims
  <2>3. \A d \in Days : Cardinality(claimDay[d].hasClaimed) <= claimDay[d].amountOfClaimers
    BY DEF ClaimRecordsAgree
  <2> QED  BY <2>1, <2>2, <2>3 DEF ClaimRecordsAgree
<1> QED  BY <1>2, <1>3, <1>4

(* Both kinds of payments set the last day calculated to today.            *)
LEMMA DayKeepsClock ==
  ASSUME UBISchemeAssumption, UInv, distributionFormula, isActive,
         UNCHANGED <<status, periodStart, now>>
  PROVE  ClockInv' /\ now \in 1 .. MaxTime /\ now >= periodStart
<1>1. now >= periodStart /\ lastWithdrawDay' = Today /\ Today' = Today
  BY DEF distributionFormula, Today
<1>2. Today \in Nat
  BY <1>1, TodayIsADay, DivFacts DEF UInv, ClockInv, TypeOK, Days, UBISchemeAssumption
<1> QED  BY <1>1, <1>2 DEF UInv, ClockInv, isActive

LEMMA ClaimKeeps ==
  ASSUME UBISchemeAssumption, UInv, NEW u \in Users, claim(u)
  PROVE  ClockInv' /\ FishedAreKnown' /\ NoUserCountedTwice' /\ ClaimRecordsAgree'
<1> USE DEF UInv
<1>1. ClockInv' /\ now \in 1 .. MaxTime /\ now >= periodStart /\ now' = now
        /\ periodStart' = periodStart
  BY DayKeepsClock DEF claim, clock
<1>2. Today \in Days /\ UbiOfToday \in Nat /\ Award \in Nat /\ now \in Nat
  BY <1>1, DistributionTypes DEF claim, Award, TypeOK, PoolTypeOK
<1>3. CASE ClaimDaily(u)
  <2>1. RecordClaims(u, 1, UbiOfToday) /\ u \notin fishedUsersAddresses /\ isNotNewUser(u)
        /\ UNCHANGED <<activeUsersCount, fishedUsersAddresses>>
    BY <1>3 DEF ClaimDaily, IsFirstTime
  <2>2. \A v \in Users : lastClaimed'[v] = IF v = u THEN now ELSE lastClaimed[v]
    BY <1>2, <2>1, RecordEffect
  <2>3. \A v \in Users : isNotNewUser(v)' <=> isNotNewUser(v)
    BY <1>1, <2>1, <2>2 DEF isNotNewUser
  <2>4. Claimants' = Claimants
    BY <2>1, <2>3 DEF Claimants
  <2>5. FishedAreKnown'
    BY <2>1, <2>3 DEF FishedAreKnown, TypeOK
  <2> QED
    BY <1>1, <1>2, <2>1, <2>4, <2>5, RecordKeepsAgreement DEF NoUserCountedTwice
<1>4. CASE ClaimFirst(u)
  <2>1. RecordClaims(u, 1, Award) /\ fishedUsersAddresses' = fishedUsersAddresses \ {u}
    BY <1>4 DEF ClaimFirst
  <2>2. \A v \in Users : lastClaimed'[v] = IF v = u THEN now ELSE lastClaimed[v]
    BY <1>2, <2>1, RecordEffect
  <2>3. FishedAreKnown'
    BY <1>1, <2>1, <2>2 DEF FishedAreKnown, TypeOK, isNotNewUser
  <2> QED  BY <1>1, <1>2, <1>4, <2>1, <2>3, RecordKeepsAgreement, FirstClaimCounts
<1>5. CASE ClaimAgain(u)
  <2>1. FishedAreKnown' /\ NoUserCountedTwice'
    BY <1>5 DEF ClaimAgain, users, FishedAreKnown, NoUserCountedTwice, Claimants, isNotNewUser
  <2>2. ClaimRecordsAgree'
    BY <1>1, <1>5 DEF ClaimAgain, users, ClaimRecordsAgree, isNotNewUser, DayOf
  <2> QED  BY <1>1, <2>1, <2>2
<1> QED  BY <1>3, <1>4, <1>5 DEF claim

LEMMA FishKeeps ==
  ASSUME UBISchemeAssumption, UInv,
         NEW c \in Users, NEW S \in SUBSET Users, S # {}, FishAll(c, S)
  PROVE  ClockInv' /\ FishedAreKnown' /\ NoUserCountedTwice' /\ ClaimRecordsAgree'
<1> USE DEF UInv
<1>1. ClockInv' /\ now \in 1 .. MaxTime /\ now >= periodStart /\ now' = now
        /\ periodStart' = periodStart
  BY DayKeepsClock DEF FishAll, clock
<1>2. Today \in Days /\ UbiOfToday \in Nat /\ now \in Nat
  BY <1>1, DistributionTypes DEF FishAll, TypeOK
<1>3. Cardinality(S) \in Nat \ {0}
  BY SizeType, FS_EmptySet
<1>4. Cardinality(S) * UbiOfToday \in Nat
  BY <1>2, <1>3
<1>5. RecordClaims(c, Cardinality(S), Cardinality(S) * UbiOfToday)
  BY DEF FishAll
<1>6. \A v \in Users : lastClaimed'[v] = IF v = c THEN now ELSE lastClaimed[v]
  BY <1>2, <1>3, <1>4, <1>5, RecordEffect
<1>7. FishedAreKnown'
  <2>1. fishedUsersAddresses' = fishedUsersAddresses \union S /\ \A u \in S : isNotNewUser(u)
    BY DEF FishAll, Fishable
  <2> QED  BY <1>1, <1>6, <2>1 DEF FishedAreKnown, TypeOK, isNotNewUser
<1>8. NoUserCountedTwice'
  BY <1>1, FishingCounts
<1>9. ClaimRecordsAgree'
  BY <1>1, <1>3, <1>4, <1>5, RecordKeepsAgreement
<1> QED  BY <1>1, <1>7, <1>8, <1>9

-----------------------------------------------------------------------------
LEMMA InitInvariant == UBISchemeAssumption /\ FirstClaimPoolAssumption /\ Init => UInv
<1> SUFFICES ASSUME UBISchemeAssumption, FirstClaimPoolAssumption, Init PROVE UInv
  OBVIOUS
<1> USE DEF Init
<1>1. TypeOK
  <2>1. PoolTypeOK
    BY DEF PoolInit, PoolTypeOK, Schemes, FirstClaimPoolAssumption
  <2>2. claimDay \in [Days -> [hasClaimed : SUBSET Users, amountOfClaimers : Nat,
                             claimAmount : Nat]]
    BY DEF NoClaims
  <2>3. DOMAIN dailyUBIHistory = {}
    OBVIOUS
  <2> QED  BY <2>1, <2>2, <2>3 DEF TypeOK, UBISchemeAssumption
<1>2. ClockInv
  <2>1. now >= periodStart => Today \in Nat
    BY <1>1, DivFacts DEF Today, TypeOK, UBISchemeAssumption
  <2> QED  BY <2>1 DEF ClockInv, NothingRecorded, UBISchemeAssumption
<1>3. FishedAreKnown /\ NoUserCountedTwice
  <2>1. Cardinality(Claimants) \in Nat
    BY SizeType DEF Claimants
  <2> QED  BY <2>1 DEF FishedAreKnown, NoUserCountedTwice
<1>4. ClaimRecordsAgree
  <2>1. Cardinality({}) = 0
    BY FS_EmptySet
  <2>2. \A d \in Days : claimDay[d].hasClaimed = {} /\ claimDay[d].amountOfClaimers = 0
    BY DEF NoClaims
  <2>3. \A u \in Users : ~isNotNewUser(u)
    BY DEF isNotNewUser
  <2>4. ASSUME NEW d \in Days
        PROVE  Cardinality(claimDay[d].hasClaimed) <= claimDay[d].amountOfClaimers
    <3>1. Cardinality(claimDay[d].hasClaimed) = 0
      BY <2>1, <2>2, Zenon
    <3>2. claimDay[d].amountOfClaimers = 0
      BY <2>2
    <3> QED  BY <3>1, <3>2
  <2> QED  BY <2>2, <2>3, <2>4 DEF ClaimRecordsAgree
<1> QED  BY <1>1, <1>2, <1>3, <1>4 DEF UInv

LEMMA NextInvariant ==
  UBISchemeAssumption /\ FirstClaimPoolAssumption /\ UInv /\ [Next]_vars => UInv'
<1> SUFFICES ASSUME UBISchemeAssumption, FirstClaimPoolAssumption, UInv, [Next]_vars
             PROVE  UInv'
  OBVIOUS
<1>1. TypeOK'
  BY TypeStep DEF UInv, ClockInv
<1>2. ASSUME Fishing
      PROVE  ClockInv' /\ FishedAreKnown' /\ NoUserCountedTwice' /\ ClaimRecordsAgree'
  BY <1>2, FishKeeps DEF Fishing
<1>3. ASSUME NEW u \in Users, claim(u)
      PROVE  ClockInv' /\ FishedAreKnown' /\ NoUserCountedTwice' /\ ClaimRecordsAgree'
  BY <1>3, ClaimKeeps
<1>4. ClockInv' /\ FishedAreKnown' /\ NoUserCountedTwice' /\ ClaimRecordsAgree'
  BY <1>1, <1>2, <1>3, StepKinds, StartKeeps, TickKeeps, QuietKeeps
<1> QED  BY <1>1, <1>4 DEF UInv

(* The inductive invariant holds in every reachable state.                 *)
THEOREM UBIInvariant == Spec => []UInv
<1>1. Init => UInv
  BY InitInvariant, UBISchemeAssumption, FirstClaimPoolAssumption
<1>2. UInv /\ [Next]_vars => UInv'
  BY NextInvariant, UBISchemeAssumption, FirstClaimPoolAssumption
<1> QED  BY <1>1, <1>2, PTL DEF Spec

(* The state of the scheme and its pool always has its types: no balance   *)
(* goes below zero and no day is out of range.                             *)
THEOREM UBITypes == Spec => []TypeOK
<1>1. UInv => TypeOK
  BY DEF UInv
<1> QED  BY <1>1, UBIInvariant, PTL

(* The pool of a day is never divided by more users than may claim.        *)
THEOREM UBINoUserCountedTwice == Spec => []NoUserCountedTwice
<1>1. UInv => NoUserCountedTwice
  BY DEF UInv
<1> QED  BY <1>1, UBIInvariant, PTL

(* The timestamps of fishing and the records of claims agree.              *)
THEOREM UBIClaimRecordsAgree == Spec => []ClaimRecordsAgree
<1>1. UInv => ClaimRecordsAgree
  BY DEF UInv
<1> QED  BY <1>1, UBIInvariant, PTL

(* The share of a day and its pool change with the first claim or fish of  *)
(* a later day, and with nothing else.                                     *)
LEMMA ShareChangesForward ==
  ASSUME UBISchemeAssumption, UInv, TypeOK', [Next]_vars,
         dailyUbi' # dailyUbi \/ dailyCyclePool' # dailyCyclePool
  PROVE  lastWithdrawDay' > lastWithdrawDay
<1> USE DEF UInv
<1>1. ASSUME distributionFormula PROVE lastWithdrawDay' > lastWithdrawDay
  <2>1. NewDay
    BY <1>1 DEF distributionFormula, UbiOfToday, PoolOfToday, NewCycle
  <2>2. lastWithdrawDay <= Today /\ lastWithdrawDay # Today /\ lastWithdrawDay' = Today
    BY <1>1, <2>1 DEF distributionFormula, ClockInv, NewDay
  <2> QED  BY <2>2 DEF TypeOK
<1>2. CASE \E u \in Users : claim(u)
  BY <1>1, <1>2 DEF claim
<1>3. CASE Fishing
  BY <1>1, <1>3 DEF Fishing, FishAll
<1>4. ~Started
  BY DEF Started
<1>5. ~Tick
  BY DEF Tick, schemeVars, distribution
<1>6. ~Quiet
  BY DEF Quiet
<1> QED  BY <1>2, <1>3, <1>4, <1>5, <1>6, StepKinds

(* Every claim and fish of a day is paid from the same share of the same   *)
(* pool.                                                                   *)
THEOREM UBIShareFixed == Spec => ShareFixedForTheDay
<1>1. UInv /\ UInv' /\ [Next]_vars =>
        [dailyUbi' # dailyUbi \/ dailyCyclePool' # dailyCyclePool =>
           lastWithdrawDay' > lastWithdrawDay]_vars
  BY ShareChangesForward, UBISchemeAssumption DEF UInv
<1> QED  BY <1>1, UBIInvariant, PTL DEF ShareFixedForTheDay, Spec

-----------------------------------------------------------------------------
(* A user who is fished claimed last MaxInactiveDays days ago or earlier:  *)
(* the age of the timestamp, which the code checks, is also a number of    *)
(* days of the scheme's calendar.                                          *)
LEMMA FishableIsOld ==
  ASSUME UBISchemeAssumption, UInv, now >= periodStart, NEW u \in Users, Fishable(u),
         NEW d \in Days, u \in claimDay[d].hasClaimed
  PROVE  d + MaxInactiveDays <= Today
<1> DEFINE age == (now - lastClaimed[u]) \div Day
           last == DayOf(lastClaimed[u])
<1> USE DEF UInv, UBISchemeAssumption
<1>1. lastClaimed[u] >= periodStart /\ lastClaimed[u] <= now /\ d <= last
  BY DEF Fishable, ClaimRecordsAgree
<1>2. lastClaimed[u] \in Nat /\ now \in Nat /\ periodStart \in Nat
  BY DEF TypeOK
<1>3. /\ lastClaimed[u] - periodStart \in Nat /\ now - lastClaimed[u] \in Nat
      /\ (lastClaimed[u] - periodStart) + (now - lastClaimed[u]) = now - periodStart
  BY <1>1, <1>2
<1>4. last + age <= Today
  <2>1. last + age <= ((lastClaimed[u] - periodStart) + (now - lastClaimed[u])) \div Day
    BY <1>3, DivSuper DEF DayOf
  <2> QED  BY <1>3, <2>1 DEF Today
<1>5. last \in Nat /\ age \in Nat
  BY <1>3, DivFacts DEF DayOf
<1>6. age >= MaxInactiveDays
  BY <1>5 DEF Fishable, isActiveUser
<1>7. Today \in Nat /\ d \in Nat
  <2>1. now - periodStart \in Nat
    BY <1>2
  <2> QED  BY <2>1, DivFacts DEF Today, Days
<1> HIDE DEF age, last
<1> QED  BY <1>1, <1>4, <1>5, <1>6, <1>7

(* Nobody who claimed or fished on one of the last MaxInactiveDays days    *)
(* loses the place among the active users.                                 *)
THEOREM UBIFishedAfterInactivity == Spec => FishedAfterInactivity
<1>1. ASSUME UInv, TypeOK', [Next]_vars,
             NEW u \in fishedUsersAddresses' \ fishedUsersAddresses,
             NEW d \in Days, u \in claimDay[d].hasClaimed
      PROVE  d + MaxInactiveDays <= Today
  <2>1. PICK c \in Users, S \in SUBSET Users : FishAll(c, S)
    <3>1. ASSUME NEW v \in Users, claim(v) PROVE FALSE
      BY <1>1, <3>1 DEF claim, ClaimDaily, ClaimFirst, ClaimAgain, users
    <3>2. ~Started /\ ~Tick /\ ~Quiet
      BY <1>1 DEF Started, Tick, Quiet, schemeVars, users
    <3>3. Fishing
      BY <1>1, <3>1, <3>2, StepKinds
    <3> QED  BY <3>3 DEF Fishing
  <2>2. u \in Users /\ Fishable(u) /\ now >= periodStart
    BY <1>1, <2>1 DEF FishAll, distributionFormula
  <2> QED  BY <1>1, <2>2, FishableIsOld, UBISchemeAssumption
<1>2. UInv /\ UInv' /\ [Next]_vars =>
        [\A u \in fishedUsersAddresses' \ fishedUsersAddresses, d \in Days :
           u \in claimDay[d].hasClaimed => d + MaxInactiveDays <= Today]_vars
  BY <1>1 DEF UInv
<1> QED  BY <1>2, UBIInvariant, PTL DEF FishedAfterInactivity, Spec
-----------------------------------------------------------------------------
(* Two clocks: days begin at the period's hour, cycles at the hour of      *)
(* their first claim. The facts about division that relate them.           *)
LEMMA IntDivFacts ==
  ASSUME NEW a \in Int, NEW d \in Nat \ {0}
  PROVE  a \div d \in Int /\ d * (a \div d) <= a /\ a < d * (a \div d) + d
OBVIOUS

LEMMA IntTimesMono ==
  ASSUME NEW d \in Nat \ {0}, NEW m \in Int, NEW n \in Int, m <= n
  PROVE  d * m <= d * n
OBVIOUS

(* A time at least d * n after the origin is in day n or a later one.      *)
LEMMA DivAtLeast ==
  ASSUME NEW a \in Int, NEW n \in Int, NEW d \in Nat \ {0}, d * n <= a
  PROVE  n <= a \div d
<1> DEFINE q == a \div d
<1>1. q \in Int /\ a < d * q + d
  BY IntDivFacts
<1> HIDE DEF q
<1>2. SUFFICES ASSUME q + 1 <= n PROVE FALSE
  BY <1>1 DEF q
<1>3. d * (q + 1) <= d * n
  BY IntTimesMono, <1>1, <1>2
<1>4. d * (q + 1) = d * q + d /\ d * q \in Int /\ d * n \in Int
  BY <1>1
<1> QED  BY <1>1, <1>3, <1>4

(* The whole days of a sum are at most one more than those of its parts.   *)
LEMMA DivSub ==
  ASSUME NEW a \in Int, NEW b \in Int, NEW d \in Nat \ {0}
  PROVE  (a + b) \div d <= a \div d + b \div d + 1
<1> DEFINE p == a \div d
           q == b \div d
           r == (a + b) \div d
<1>1. p \in Int /\ a < d * p + d
  BY IntDivFacts
<1>2. q \in Int /\ b < d * q + d
  BY IntDivFacts
<1>3. r \in Int /\ d * r <= a + b
  BY IntDivFacts
<1> HIDE DEF p, q, r
<1>4. SUFFICES ASSUME p + q + 2 <= r PROVE FALSE
  BY <1>1, <1>2, <1>3 DEF p, q, r
<1>5. d * (p + q + 2) <= d * r
  BY IntTimesMono, <1>1, <1>2, <1>3, <1>4
<1>6. d * (p + q + 2) = d * p + d * q + d + d /\ d * p \in Int /\ d * q \in Int /\ d * r \in Int
  BY <1>1, <1>2, <1>3
<1> QED  BY <1>1, <1>2, <1>3, <1>5, <1>6

(* A whole hour that has begun is not after the start of the hour.         *)
LEMMA HourStarts ==
  ASSUME UBISchemeAssumption, NEW t \in Nat, NEW k \in Nat, Hour * k <= t
  PROVE  StartOfHour(t) \in Nat /\ Hour * k <= StartOfHour(t) /\ StartOfHour(t) <= t
<1> DEFINE q == t \div Hour
<1>1. Hour \in Nat \ {0}
  BY DEF UBISchemeAssumption
<1>2. q \in Nat /\ Hour * q <= t
  BY <1>1, DivFacts
<1>3. k <= q
  BY <1>1, DivAtLeast
<1> HIDE DEF q
<1>4. Hour * k <= Hour * q
  BY <1>1, <1>2, <1>3, TimesMono
<1>5. StartOfHour(t) = Hour * q
  BY <1>1, <1>2 DEF StartOfHour, q
<1> QED  BY <1>1, <1>2, <1>4, <1>5

(* What a number without remainder is a multiple of.                       *)
LEMMA Multiple ==
  ASSUME NEW a \in Nat, NEW h \in Nat \ {0}, a % h = 0
  PROVE  \E k \in Nat : a = h * k
<1>1. a \div h \in Nat /\ a = h * (a \div h)
  OBVIOUS
<1> QED  BY <1>1

-----------------------------------------------------------------------------
(* No day whose share was calculated is later than the last one calculated *)
(* nor more than the cycle's length after the day the cycle began. The     *)
(* days begin on a whole hour once the scheme is started, and the cycle    *)
(* has begun by then.                                                      *)
CycleDay == (startOfCycle - periodStart) \div Day
CycleInv ==
  /\ status = "deployed" => DOMAIN dailyUBIHistory = {}
  /\ status # "deployed" => \E k \in Nat : periodStart = Hour * k
  /\ startOfCycle <= now \/ startOfCycle <= periodStart
  /\ \A d \in DOMAIN dailyUBIHistory :
       d <= lastWithdrawDay /\ d <= CycleDay + currentCycleLength

(* The first claim of a cycle begins it on the day of the claim: an hour   *)
(* lies within one day.                                                    *)
LEMMA CycleBeginsToday ==
  ASSUME UBISchemeAssumption, UInv, CycleInv, isActive, now >= periodStart
  PROVE  Today <= (StartOfHour(now) - periodStart) \div Day
<1>1. now \in Nat /\ periodStart \in Nat /\ Day \in Nat \ {0} /\ Hour \in Nat \ {0}
  BY DEF UInv, TypeOK, UBISchemeAssumption
<1>2. PICK k \in Nat : periodStart = Hour * k
  BY DEF CycleInv, isActive
<1>3. PICK j \in Nat : Day = Hour * j
  BY <1>1, Multiple DEF UBISchemeAssumption
<1>4. Today \in Nat /\ Day * Today <= now - periodStart
  BY <1>1, DivFacts DEF Today
<1>5. Hour * (k + j * Today) = periodStart + Day * Today /\ k + j * Today \in Nat
  <2>1. j * Today \in Nat
    BY <1>4
  <2>2. Hour * (k + j * Today) = Hour * k + Hour * (j * Today)
    BY <1>1, <2>1
  <2>3. Hour * (j * Today) = (Hour * j) * Today
    BY <1>1, <1>4
  <2> QED  BY <1>2, <1>3, <2>1, <2>2, <2>3
<1>6. Day * Today \in Nat
  BY <1>1, <1>4
<1>7. StartOfHour(now) \in Nat /\ periodStart + Day * Today <= StartOfHour(now)
  <2>1. Hour * (k + j * Today) <= now
    BY <1>1, <1>4, <1>5, <1>6
  <2> QED  BY <1>1, <1>5, <2>1, HourStarts
<1> DEFINE since == StartOfHour(now) - periodStart
<1>8. since \in Int /\ Day * Today <= since
  BY <1>1, <1>6, <1>7
<1> HIDE DEF since
<1>9. Today <= since \div Day
  BY <1>1, <1>4, <1>8, DivAtLeast
<1> QED  BY <1>9 DEF since

LEMMA DistributionKeepsCycle ==
  ASSUME UBISchemeAssumption, UInv, CycleInv, TypeOK', isActive, distributionFormula,
         UNCHANGED <<status, periodStart, now>>
  PROVE  CycleInv'
<1> USE DEF UInv
<1>1. now >= periodStart /\ Today \in Nat /\ lastWithdrawDay <= Today /\ lastWithdrawDay \in Nat
  BY TodayIsADay, DivFacts DEF distributionFormula, ClockInv, TypeOK, Days, UBISchemeAssumption
<1>2. lastWithdrawDay' = Today
  BY DEF distributionFormula
<1>3. now \in Nat /\ periodStart \in Nat /\ startOfCycle \in Nat /\ Day \in Nat \ {0}
      /\ currentCycleLength \in Nat /\ currentCycleLength' \in Nat
      /\ DOMAIN dailyUBIHistory \subseteq Nat
  BY DivFacts DEF TypeOK, Days, UBISchemeAssumption
<1>4. CycleDay \in Int /\ CycleDay' \in Int
  BY <1>3, IntDivFacts DEF CycleDay, TypeOK
<1>5. ASSUME NEW d \in DOMAIN dailyUBIHistory'
      PROVE  d <= lastWithdrawDay' /\ d <= CycleDay' + currentCycleLength'
  <2>1. CASE NewCycle
    <3>1. startOfCycle' = StartOfHour(now) /\ Today <= CycleDay'
      BY <1>1, <2>1, CycleBeginsToday DEF distributionFormula, CycleDay
    <3>2. d = Today \/ d \in DOMAIN dailyUBIHistory
      BY <2>1, <1>5 DEF distributionFormula
    <3>3. d \in Nat /\ d <= Today
      BY <1>1, <1>3, <3>2 DEF CycleInv
    <3> QED  BY <1>1, <1>2, <1>3, <1>4, <3>1, <3>3
  <2>2. CASE ~NewCycle
    <3>1. CycleDay' = CycleDay /\ currentCycleLength' = currentCycleLength
      BY <2>2 DEF distributionFormula, CycleDay
    <3>2. CASE d \in DOMAIN dailyUBIHistory
      BY <1>1, <1>2, <1>3, <3>1, <3>2 DEF CycleInv
    <3>3. CASE d \notin DOMAIN dailyUBIHistory
      <4> DEFINE since == (now - startOfCycle) \div Day
      <4>1. d = Today /\ NewDay
        BY <1>5, <3>3 DEF distributionFormula
      <4>2. since \in Int /\ since < currentCycleLength
        BY <2>2, <4>1, <1>3, IntDivFacts DEF NewCycle
      <4>3. ((startOfCycle - periodStart) + (now - startOfCycle)) \div Day <= CycleDay + since + 1
        BY <1>3, DivSub DEF CycleDay
      <4>4. (startOfCycle - periodStart) + (now - startOfCycle) = now - periodStart
        BY <1>3
      <4>5. Today <= CycleDay + since + 1
        BY <4>3, <4>4 DEF Today
      <4> HIDE DEF since
      <4> QED  BY <1>1, <1>2, <1>3, <1>4, <3>1, <4>1, <4>2, <4>5
    <3> QED  BY <3>2, <3>3
  <2> QED  BY <2>1, <2>2
<1>6. startOfCycle' <= now
  <2>1. Hour * 0 <= now
    BY <1>3 DEF UBISchemeAssumption
  <2>2. StartOfHour(now) <= now
    BY <1>3, <2>1, HourStarts
  <2> QED  BY <1>1, <1>3, <2>2 DEF distributionFormula, CycleInv
<1> QED  BY <1>5, <1>6 DEF CycleInv, isActive

(* start() puts the origin of the days on a noon, a whole hour.            *)
LEMMA StartKeepsCycle ==
  ASSUME UBISchemeAssumption, UInv, CycleInv, Started
  PROVE  CycleInv'
<1>1. status' = "active" /\ periodStart' = Noonday(now) /\ DOMAIN dailyUBIHistory' = {}
  BY DEF Started, CycleInv
<1>2. now \div Day \in Nat /\ Hour \in Nat \ {0} /\ Noon \in Nat
  BY DivFacts DEF UInv, TypeOK, UBISchemeAssumption
<1>3. PICK j \in Nat : Day = Hour * j
  BY Multiple DEF UBISchemeAssumption
<1>4. PICK n \in Nat : Noon = Hour * n
  BY Multiple DEF UBISchemeAssumption
<1>5. \A q \in Nat : q * (Hour * j) + Hour * n = Hour * (q * j + n) /\ q * j + n \in Nat
  BY <1>2
<1>6. \E k \in Nat : Noonday(now) = Hour * k
  BY <1>2, <1>3, <1>4, <1>5 DEF Noonday
<1>7. startOfCycle' <= periodStart'
  <2>1. startOfCycle' = periodStart' /\ periodStart' \in Nat
    BY <1>2, <1>6 DEF Started
  <2> QED  BY <2>1
<1> QED  BY <1>1, <1>6, <1>7 DEF CycleInv

LEMMA CycleStep == UBISchemeAssumption /\ UInv /\ UInv' /\ CycleInv /\ [Next]_vars => CycleInv'
<1> SUFFICES ASSUME UBISchemeAssumption, UInv, UInv', CycleInv, [Next]_vars PROVE CycleInv'
  OBVIOUS
<1>1. CASE \E u \in Users : claim(u)
  BY <1>1, DistributionKeepsCycle DEF claim, clock, UInv
<1>2. CASE Fishing
  BY <1>2, DistributionKeepsCycle DEF Fishing, FishAll, clock, UInv
<1>3. CASE Started
  BY <1>3, StartKeepsCycle
<1>4. CASE Tick
  BY <1>4 DEF Tick, schemeVars, distribution, CycleInv, CycleDay, UInv, TypeOK
<1>5. CASE Quiet
  BY <1>5 DEF Quiet, CycleInv, CycleDay
<1> QED  BY <1>1, <1>2, <1>3, <1>4, <1>5, StepKinds

(* Where the days lie in their cycle, in every reachable state.            *)
THEOREM UBICycleInvariant == Spec => []CycleInv
<1>1. Init => CycleInv
  BY DEF Init, CycleInv
<1>2. UInv /\ UInv' /\ CycleInv /\ [Next]_vars => CycleInv'
  BY CycleStep, UBISchemeAssumption
<1> QED  BY <1>1, <1>2, UBIInvariant, PTL DEF Spec

(* A cycle pays its daily pool on one day more than its length at most,    *)
(* whatever hours the first claims of its days come at.                    *)
THEOREM UBICycleOverrun == Spec => []CycleOverrunsByOneDay
<1>1. ASSUME UInv, CycleInv PROVE CycleOverrunsByOneDay
  <2> DEFINE from == CycleDay
             to == CycleDay + currentCycleLength
  <2>1. from \in Int /\ to \in Int /\ from <= to + 1 /\ (to - from) + 1 = currentCycleLength + 1
    BY <1>1, IntDivFacts, UBISchemeAssumption DEF UInv, TypeOK, CycleDay, UBISchemeAssumption
  <2>2. DOMAIN dailyUBIHistory \subseteq Int
    BY <1>1, DivFacts, UBISchemeAssumption DEF UInv, TypeOK, Days, UBISchemeAssumption
  <2>3. CycleDays \subseteq from .. to
    BY <1>1, <2>1, <2>2 DEF CycleInv, CycleDays, CycleDay
  <2> HIDE DEF from, to
  <2>4. IsFiniteSet(from .. to) /\ Cardinality(from .. to) = IF from > to THEN 0 ELSE to - from + 1
    BY <2>1, FS_Interval
  <2>5. Cardinality(CycleDays) <= Cardinality(from .. to) /\ Cardinality(CycleDays) \in Nat
    BY <2>3, <2>4, FS_Subset, FS_CardinalityType
  <2>6. currentCycleLength \in Nat
    BY <1>1 DEF UInv, TypeOK
  <2> QED  BY <2>1, <2>4, <2>5, <2>6 DEF CycleOverrunsByOneDay
<1> QED  BY <1>1, UBIInvariant, UBICycleInvariant, PTL

(* The daily pool of a cycle changes no sooner than the cycle's length     *)
(* after its first claim, counted in spans of a day.                       *)
LEMMA PoolChangesAtTheEnd ==
  ASSUME UBISchemeAssumption, UInv, [Next]_vars, dailyCyclePool' # dailyCyclePool
  PROVE  now >= startOfCycle + currentCycleLength * Day
<1>1. distributionFormula
  <2>1. ~Started /\ ~Tick /\ ~Quiet
    BY DEF Started, Tick, schemeVars, distribution, Quiet
  <2> QED  BY <2>1, StepKinds DEF claim, Fishing, FishAll
<1> DEFINE since == (now - startOfCycle) \div Day
<1>2. now \in Nat /\ startOfCycle \in Nat /\ currentCycleLength \in Nat /\ Day \in Nat \ {0}
  BY DEF UInv, TypeOK, UBISchemeAssumption
<1>3. since >= currentCycleLength
  BY <1>1 DEF distributionFormula, PoolOfToday, NewCycle
<1>4. since \in Int /\ Day * since <= now - startOfCycle
  BY <1>2, IntDivFacts
<1> HIDE DEF since
<1>5. Day * currentCycleLength <= Day * since
  BY <1>2, <1>3, <1>4, IntTimesMono
<1> QED  BY <1>2, <1>4, <1>5

(* A cycle that has begun keeps its daily pool for its whole length.       *)
THEOREM UBIPoolFixed == Spec => PoolFixedForTheCycle
<1>1. UInv /\ [Next]_vars =>
        [dailyCyclePool' # dailyCyclePool =>
           now >= startOfCycle + currentCycleLength * Day]_vars
  BY PoolChangesAtTheEnd, UBISchemeAssumption
<1> QED  BY <1>1, UBIInvariant, PTL DEF PoolFixedForTheCycle, Spec

-----------------------------------------------------------------------------
(* The funding of the cycle. First the arithmetic of shares: a part of a   *)
(* whole, taken as often as it is a part or less, is no more than the      *)
(* whole.                                                                  *)
LEMMA PartsFit ==
  ASSUME NEW p \in Nat, NEW n \in Nat \ {0}, NEW k \in Nat, k <= n
  PROVE  k * (p \div n) \in Nat /\ k * (p \div n) <= p
<1> DEFINE q == p \div n
<1>1. q \in Nat /\ n * q <= p
  BY DivFacts
<1> HIDE DEF q
<1>2. q * k <= q * n
  <2>1. CASE q = 0
    BY <2>1
  <2>2. CASE q # 0
    BY <1>1, <2>2, TimesMono
  <2> QED  BY <2>1, <2>2
<1>3. q * k = k * q /\ q * n = n * q /\ k * q \in Nat /\ n * q \in Nat
  BY <1>1
<1>4. k * q \in Nat /\ k * q <= p
  BY <1>1, <1>2, <1>3
<1> QED  BY <1>4 DEF q

(* Paying `n` shares leaves the funds for the others.                      *)
LEMMA PaidAndFunded ==
  ASSUME NEW open \in Nat, NEW rest \in Int, NEW share \in Nat,
         NEW n \in Nat, NEW m \in Nat, NEW k \in Nat, m + n <= k,
         open >= rest + k * share
  PROVE  open - n * share >= rest + m * share
<1>1. CASE share = 0
  BY <1>1
<1>2. CASE share # 0
  <2>1. share * (m + n) <= share * k
    BY <1>2, TimesMono
  <2>2. /\ share * (m + n) = m * share + n * share /\ share * k = k * share
        /\ m * share \in Nat /\ n * share \in Nat /\ k * share \in Nat
    OBVIOUS
  <2> QED  BY <2>1, <2>2
<1> QED  BY <1>1, <1>2

(* The counted days are as many as a set of days of the model.             *)
LEMMA CycleDaysFinite ==
  ASSUME UBISchemeAssumption, NEW D \in SUBSET Days
  PROVE  IsFiniteSet(D) /\ Cardinality(D) \in Nat
<1>1. MaxTime \div Day \in Int
  BY DivFacts DEF UBISchemeAssumption
<1>2. IsFiniteSet(Days)
  BY <1>1, FS_Interval DEF Days
<1> QED  BY <1>2, FS_Subset, FS_CardinalityType

(* How the first transaction of a day extends the days of the cycle.       *)
LEMMA CycleDaysGrow ==
  ASSUME UBISchemeAssumption, UInv, TypeOK', CycleInv, isActive, distributionFormula,
         UNCHANGED <<status, periodStart, now>>
  PROVE  /\ CycleDays \in SUBSET Days /\ CycleDays' \in SUBSET Days
         /\ NewCycle => Cardinality(CycleDays') >= 1
         /\ NewDay /\ ~NewCycle => Cardinality(CycleDays') = Cardinality(CycleDays) + 1
         /\ ~NewDay => CycleDays' = CycleDays
<1> USE DEF UInv
<1>1. now >= periodStart /\ Today \in Nat /\ lastWithdrawDay <= Today /\ lastWithdrawDay \in Nat
  BY TodayIsADay, DivFacts DEF distributionFormula, ClockInv, TypeOK, Days, UBISchemeAssumption
<1>2. now \in Nat /\ periodStart \in Nat /\ startOfCycle \in Nat /\ Day \in Nat \ {0}
      /\ Hour \in Nat \ {0} /\ currentCycleLength \in Nat
  BY DEF TypeOK, UBISchemeAssumption
<1>3. ASSUME NewDay PROVE DOMAIN dailyUBIHistory' = DOMAIN dailyUBIHistory \union {Today}
  BY <1>3 DEF distributionFormula
<1>4. CycleDays \in SUBSET Days /\ CycleDays' \in SUBSET Days
  BY DEF CycleDays, TypeOK
<1>5. ASSUME NEW t \in Nat, t <= now PROVE (t - periodStart) \div Day <= Today
  <2> DEFINE q == (t - periodStart) \div Day
  <2>1. q \in Int /\ Day * q <= t - periodStart
    BY <1>2, IntDivFacts
  <2> HIDE DEF q
  <2>2. Day * q \in Int /\ Day * q <= now - periodStart /\ now - periodStart \in Int
    BY <1>2, <1>5, <2>1
  <2>3. q <= Today
    BY <1>2, <2>1, <2>2, DivAtLeast DEF Today
  <2> QED  BY <2>3 DEF q
<1>6. NewCycle => Cardinality(CycleDays') >= 1
  <2> SUFFICES ASSUME NewCycle PROVE Cardinality(CycleDays') >= 1
    OBVIOUS
  <2>1. StartOfHour(now) \in Nat /\ StartOfHour(now) <= now
    <3>1. Hour * 0 <= now
      BY <1>2
    <3> QED  BY <1>2, <3>1, HourStarts
  <2>2. startOfCycle' = StartOfHour(now) /\ periodStart' = periodStart
    BY DEF distributionFormula
  <2>3. Today \in CycleDays'
    BY <1>3, <1>5, <2>1, <2>2 DEF NewCycle, CycleDays
  <2>4. IsFiniteSet(CycleDays') /\ Cardinality(CycleDays') \in Nat
    BY <1>4, CycleDaysFinite
  <2>5. Cardinality(CycleDays') # 0
    BY <2>3, <2>4, FS_EmptySet
  <2> QED  BY <2>4, <2>5
<1>7. ASSUME NewDay, ~NewCycle PROVE Cardinality(CycleDays') = Cardinality(CycleDays) + 1
  <2>1. startOfCycle' = startOfCycle /\ periodStart' = periodStart
    BY <1>7 DEF distributionFormula
  <2>2. CycleDay <= Today
    <3>1. startOfCycle <= now
      BY <1>1, <1>2 DEF CycleInv
    <3> QED  BY <1>2, <1>5, <3>1 DEF CycleDay
  <2>3. CycleDays' = CycleDays \union {Today}
    BY <1>3, <1>7, <2>1, <2>2 DEF CycleDays, CycleDay
  <2>4. Today \notin CycleDays
    BY <1>1, <1>7 DEF CycleInv, CycleDays, NewDay
  <2>5. IsFiniteSet(CycleDays)
    BY <1>4, CycleDaysFinite
  <2> QED  BY <2>3, <2>4, <2>5, FS_AddElement
<1>8. ~NewDay => CycleDays' = CycleDays
  BY DEF distributionFormula, NewCycle, CycleDays
<1> QED  BY <1>4, <1>6, <1>7, <1>8

-----------------------------------------------------------------------------
(* Whatever a transaction pays, once distributionFormula has run the funds *)
(* suffice for the rest of the cycle and for everybody who has not claimed *)
(* today.                                                                  *)
Waiting == Claimants \ claimDay[Today].hasClaimed

LEMMA CountsAreNumbers ==
  ASSUME UBISchemeAssumption, TypeOK
  PROVE  /\ IsFiniteSet(Claimants) /\ Cardinality(Claimants) \in Nat
         /\ IsFiniteSet(Waiting) /\ Cardinality(Waiting) \in Nat
         /\ Cardinality(Waiting) <= Cardinality(Claimants)
<1>1. Claimants \in SUBSET Users /\ Waiting \in SUBSET Claimants
  BY DEF Claimants, Waiting
<1>2. IsFiniteSet(Claimants) /\ Cardinality(Claimants) \in Nat
  BY <1>1, SizeType
<1> QED  BY <1>1, <1>2, FS_Subset, FS_CardinalityType

(* On a new day the shares of all claimants are within the day's pool.     *)
LEMMA SharesWithinPool ==
  ASSUME UBISchemeAssumption, TypeOK, PoolOfToday \in Nat, NewDay,
         Cardinality(Claimants) = activeUsersCount
  PROVE  Cardinality(Waiting) * UbiOfToday <= PoolOfToday
<1>1. Cardinality(Waiting) \in Nat /\ Cardinality(Waiting) <= activeUsersCount
      /\ activeUsersCount \in Nat
  BY CountsAreNumbers
<1>2. CASE activeUsersCount = 0
  <2>1. Cardinality(Waiting) = 0 /\ UbiOfToday = dailyUbi /\ dailyUbi \in Nat
    BY <1>1, <1>2 DEF UbiOfToday, TypeOK
  <2> QED  BY <2>1
<1>3. CASE activeUsersCount # 0
  <2>1. UbiOfToday = PoolOfToday \div activeUsersCount
    BY <1>1, <1>3 DEF UbiOfToday
  <2> QED  BY <1>1, <1>3, <2>1, PartsFit
<1> QED  BY <1>2, <1>3

LEMMA DayIsFunded ==
  ASSUME UBISchemeAssumption, UInv, TypeOK', CycleInv, CycleIsFunded, isActive,
         distributionFormula, UNCHANGED <<status, periodStart, now>>,
         Cardinality(Claimants) = activeUsersCount,
         Cardinality(CycleDays') <= currentCycleLength'
  PROVE  OpenAmount >= (currentCycleLength' - Cardinality(CycleDays')) * PoolOfToday
                       + Cardinality(Waiting) * UbiOfToday
<1> DEFINE k == Cardinality(CycleDays)
           k1 == Cardinality(CycleDays')
           w == Cardinality(Waiting)
<1>0. TypeOK /\ now \in 1 .. MaxTime
  BY DEF UInv, ClockInv
<1>1. OpenAmount \in Nat /\ PoolOfToday \in Nat /\ UbiOfToday \in Nat
  BY <1>0, OpenTypes, DistributionTypes
<1>2. k \in Nat /\ k1 \in Nat /\ w \in Nat /\ w <= Cardinality(Claimants)
  BY <1>0, CycleDaysGrow, CycleDaysFinite, CountsAreNumbers
<1>3. currentCycleLength \in Nat /\ currentCycleLength' \in Nat
      /\ dailyCyclePool \in Nat /\ dailyUbi \in Nat /\ cycleLength \in Nat
      /\ balance["ubi"] \in Nat
  BY <1>0 DEF TypeOK, PoolTypeOK, Holders
<1>4. CASE NewCycle
  <2> DEFINE L == cycleLength
  <2>1. currentCycleLength' = L /\ PoolOfToday = OpenAmount \div L /\ L \in Nat \ {0}
    BY <1>3, <1>4 DEF distributionFormula, PoolOfToday
  <2>2. k1 \in 1 .. L
    BY <1>2, <1>4, <2>1, CycleDaysGrow
  <2>3. w * UbiOfToday <= PoolOfToday
    BY <1>0, <1>1, <1>4, SharesWithinPool DEF NewCycle
  <2>4. (L - k1) + 1 \in Nat /\ (L - k1) + 1 <= L
    BY <2>1, <2>2
  <2>5. ((L - k1) + 1) * PoolOfToday <= OpenAmount
    BY <1>1, <2>1, <2>4, PartsFit
  <2> HIDE DEF L, k1, w
  <2>6. ((L - k1) + 1) * PoolOfToday = (L - k1) * PoolOfToday + PoolOfToday
        /\ (L - k1) * PoolOfToday \in Int /\ w * UbiOfToday \in Int
    BY <1>1, <1>2, <2>1, <2>2
  <2>7. OpenAmount >= (L - k1) * PoolOfToday + w * UbiOfToday
    BY <1>1, <2>3, <2>5, <2>6
  <2> QED  BY <2>1, <2>7 DEF k1, w
<1>5. CASE ~NewCycle
  <2>1. /\ PoolOfToday = dailyCyclePool /\ currentCycleLength' = currentCycleLength
        /\ OpenAmount = balance["ubi"]
    BY <1>3, <1>5 DEF distributionFormula, PoolOfToday, OpenAmount, Withdrawn
  <2>2. CASE NewDay
    <3>1. k1 = k + 1 /\ k <= currentCycleLength
      BY <1>2, <1>3, <1>5, <2>1, <2>2, CycleDaysGrow
    <3> DEFINE v == Cardinality(Claimants \ claimDay[lastWithdrawDay].hasClaimed)
    <3>2. balance["ubi"] >= (currentCycleLength - k) * dailyCyclePool + v * dailyUbi
      BY <3>1 DEF CycleIsFunded
    <3>3. v \in Nat
      <4>1. Claimants \ claimDay[lastWithdrawDay].hasClaimed \in SUBSET Users
        BY DEF Claimants
      <4> QED  BY <4>1, SizeType
    <3>4. w * UbiOfToday <= PoolOfToday
      BY <1>0, <1>1, <2>2, SharesWithinPool
    <3> HIDE DEF v, k, k1, w
    <3>5. v * dailyUbi \in Nat /\ w * UbiOfToday \in Nat
      BY <1>1, <1>2, <1>3, <3>3
    <3>6. (currentCycleLength - k) * dailyCyclePool
            = (currentCycleLength - k1) * dailyCyclePool + dailyCyclePool
          /\ (currentCycleLength - k1) * dailyCyclePool \in Int
      BY <1>2, <1>3, <3>1
    <3>7. balance["ubi"] >= (currentCycleLength - k1) * dailyCyclePool + w * UbiOfToday
      BY <1>1, <1>3, <2>1, <3>2, <3>4, <3>5, <3>6
    <3> QED  BY <2>1, <3>7 DEF k1, w
  <2>3. CASE ~NewDay
    <3>1. CycleDays' = CycleDays /\ UbiOfToday = dailyUbi /\ Today = lastWithdrawDay
      BY <2>3, CycleDaysGrow DEF UbiOfToday, NewDay
    <3>2. Cardinality(CycleDays) <= currentCycleLength
      BY <2>1, <3>1
    <3> QED  BY <2>1, <3>1, <3>2 DEF CycleIsFunded, Waiting
  <2> QED  BY <2>2, <2>3
<1> QED  BY <1>4, <1>5

-----------------------------------------------------------------------------
(* What is left after a transaction has paid n shares to users who were    *)
(* waiting, or nothing and nobody waits who did not.                       *)
LEMMA PaidDayIsFunded ==
  ASSUME UBISchemeAssumption, UInv, UInv', CycleInv, CycleIsFunded, isActive,
         distributionFormula, UNCHANGED <<status, periodStart, now>>,
         NEW n \in Nat, balance'["ubi"] = OpenAmount - n * UbiOfToday,
         Cardinality(Claimants') = activeUsersCount' =>
           /\ Cardinality(Claimants) = activeUsersCount
           /\ Cardinality(Waiting') + n <= Cardinality(Waiting)
  PROVE  CycleIsFunded'
<1> SUFFICES ASSUME Cardinality(Claimants') = activeUsersCount',
                    Cardinality(CycleDays') <= currentCycleLength'
             PROVE  balance'["ubi"] >=
                      (currentCycleLength' - Cardinality(CycleDays')) * dailyCyclePool'
                      + Cardinality(Claimants' \ claimDay'[lastWithdrawDay'].hasClaimed) * dailyUbi'
  BY DEF CycleIsFunded
<1> DEFINE rest == (currentCycleLength' - Cardinality(CycleDays')) * PoolOfToday
           k == Cardinality(Waiting)
           m == Cardinality(Waiting')
<1>1. dailyCyclePool' = PoolOfToday /\ dailyUbi' = UbiOfToday /\ lastWithdrawDay' = Today
      /\ Today' = Today
  BY DEF distributionFormula, Today
<1>2. OpenAmount \in Nat /\ PoolOfToday \in Nat /\ UbiOfToday \in Nat /\ k \in Nat
  BY OpenTypes, DistributionTypes, CountsAreNumbers DEF UInv, ClockInv
<1>3. m \in Nat
  <2>1. Waiting' \in SUBSET Users
    BY DEF Waiting, Claimants
  <2> QED  BY <2>1, SizeType
<1>4. rest \in Int
  <2>1. CycleDays' \in SUBSET Days
    BY CycleDaysGrow DEF UInv
  <2>2. Cardinality(CycleDays') \in Nat /\ currentCycleLength' \in Nat
    BY <2>1, CycleDaysFinite DEF UInv, TypeOK
  <2> QED  BY <1>2, <2>2
<1>5. OpenAmount >= rest + k * UbiOfToday
  BY DayIsFunded DEF UInv
<1>6. m + n <= k
  OBVIOUS
<1>7. Waiting' = Claimants' \ claimDay'[lastWithdrawDay'].hasClaimed
  BY <1>1 DEF Waiting
<1> HIDE DEF rest, k, m
<1>8. OpenAmount - n * UbiOfToday >= rest + m * UbiOfToday
  BY <1>2, <1>3, <1>4, <1>5, <1>6, PaidAndFunded
<1> QED  BY <1>1, <1>7, <1>8 DEF rest, m

(* A claim: a daily claimer leaves those who wait, a new user never joins  *)
(* them on the day of the claim.                                           *)
LEMMA ClaimKeepsFunds ==
  ASSUME UBISchemeAssumption, UInv, UInv', CycleInv, CycleIsFunded,
         NEW u \in Users, claim(u)
  PROVE  CycleIsFunded'
<1> USE DEF UInv
<1>1. isActive /\ distributionFormula /\ UNCHANGED <<status, periodStart, now>>
      /\ now >= periodStart
  BY DEF claim, clock
<1>2. Today \in Days /\ UbiOfToday \in Nat /\ Award \in Nat /\ now \in Nat /\ now # 0
      /\ OpenAmount \in Nat /\ Today' = Today
  BY <1>1, OpenTypes, DistributionTypes DEF Award, TypeOK, PoolTypeOK, ClockInv, Today
<1>3. IsFiniteSet(Claimants) /\ Cardinality(Claimants) \in Nat
      /\ IsFiniteSet(Waiting) /\ Cardinality(Waiting) \in Nat
  BY CountsAreNumbers
<1>4. CASE ClaimDaily(u)
  <2>1. /\ RecordClaims(u, 1, UbiOfToday) /\ PayFromScheme(UbiOfToday)
        /\ isNotNewUser(u) /\ u \notin fishedUsersAddresses
        /\ u \notin claimDay[Today].hasClaimed
        /\ UNCHANGED <<activeUsersCount, fishedUsersAddresses>>
    BY <1>4 DEF ClaimDaily, IsFirstTime
  <2>2. /\ \A v \in Users : lastClaimed'[v] = IF v = u THEN now ELSE lastClaimed[v]
        /\ claimDay'[Today].hasClaimed = claimDay[Today].hasClaimed \union {u}
    BY <1>2, <2>1, RecordEffect
  <2>3. Claimants' = Claimants /\ Waiting' = Waiting \ {u} /\ u \in Waiting
    BY <1>2, <2>1, <2>2 DEF Claimants, Waiting, isNotNewUser
  <2>4. Cardinality(Waiting') = Cardinality(Waiting) - 1
    BY <1>3, <2>3, FS_RemoveElement
  <2>5. balance'["ubi"] = OpenAmount - 1 * UbiOfToday
    BY <1>2, <2>1 DEF PayFromScheme, TypeOK, PoolTypeOK, Holders
  <2>6. Cardinality(Waiting') + 1 <= Cardinality(Waiting)
    BY <1>3, <2>4
  <2>7. Cardinality(Claimants') = Cardinality(Claimants) /\ activeUsersCount' = activeUsersCount
    BY <2>1, <2>3
  <2>8. 1 \in Nat
    OBVIOUS
  <2> QED  BY <1>1, <2>5, <2>6, <2>7, <2>8, PaidDayIsFunded
<1>5. CASE ClaimFirst(u)
  <2>1. /\ RecordClaims(u, 1, Award) /\ PayFromPool /\ IsFirstTime(u)
        /\ fishedUsersAddresses' = fishedUsersAddresses \ {u}
        /\ activeUsersCount' = activeUsersCount + 1 /\ activeUsersCount \in Nat
    BY <1>5 DEF ClaimFirst, TypeOK
  <2>2. /\ \A v \in Users : lastClaimed'[v] = IF v = u THEN now ELSE lastClaimed[v]
        /\ claimDay'[Today].hasClaimed = claimDay[Today].hasClaimed \union {u}
    BY <1>2, <2>1, RecordEffect
  <2>3. /\ u \notin Claimants /\ Claimants' = Claimants \union {u}
        /\ Waiting' \in SUBSET Waiting
    BY <1>2, <2>1, <2>2 DEF Claimants, Waiting, isNotNewUser, IsFirstTime
  <2>4. Cardinality(Claimants') = Cardinality(Claimants) + 1
    BY <1>3, <2>3, FS_AddElement
  <2>5. Cardinality(Waiting') <= Cardinality(Waiting) /\ Cardinality(Waiting') \in Nat
    BY <1>3, <2>3, FS_Subset, FS_CardinalityType
  <2>6. balance'["ubi"] = OpenAmount - 0 * UbiOfToday
    BY <1>2, <2>1 DEF PayFromPool, TypeOK, PoolTypeOK, Holders
  <2> QED  BY <1>1, <1>3, <2>1, <2>4, <2>5, <2>6, PaidDayIsFunded
<1>6. CASE ClaimAgain(u)
  <2>1. UNCHANGED users /\ PayFromScheme(0)
    BY <1>6 DEF ClaimAgain
  <2>2. Claimants' = Claimants /\ Waiting' = Waiting /\ activeUsersCount' = activeUsersCount
    BY <1>2, <2>1 DEF users, Claimants, Waiting, isNotNewUser
  <2>3. balance'["ubi"] = OpenAmount - 0 * UbiOfToday
    BY <1>2, <2>1 DEF PayFromScheme, TypeOK, PoolTypeOK, Holders
  <2> QED  BY <1>1, <1>3, <2>2, <2>3, PaidDayIsFunded
<1> QED  BY <1>4, <1>5, <1>6 DEF claim

(* Fishing: the fished wait, for they have not claimed for a day at least; *)
(* their shares go to the fisher.                                          *)
LEMMA FishKeepsFunds ==
  ASSUME UBISchemeAssumption, UInv, UInv', CycleInv, CycleIsFunded,
         NEW c \in Users, NEW S \in SUBSET Users, FishAll(c, S)
  PROVE  CycleIsFunded'
<1> USE DEF UInv
<1>1. isActive /\ distributionFormula /\ UNCHANGED <<status, periodStart, now>>
      /\ now >= periodStart
  BY DEF FishAll, clock, distributionFormula
<1>2. Today \in Days /\ UbiOfToday \in Nat /\ now \in Nat /\ now # 0
      /\ OpenAmount \in Nat /\ Today' = Today
  BY <1>1, OpenTypes, DistributionTypes DEF TypeOK, ClockInv, Today
<1>3. IsFiniteSet(Claimants) /\ Cardinality(Claimants) \in Nat
      /\ IsFiniteSet(Waiting) /\ Cardinality(Waiting) \in Nat
  BY CountsAreNumbers
<1>4. IsFiniteSet(S) /\ Cardinality(S) \in Nat
  BY SizeType
<1> DEFINE n == Cardinality(S)
<1>5. /\ RecordClaims(c, n, n * UbiOfToday) /\ PayFromScheme(n * UbiOfToday)
      /\ \A u \in S : Fishable(u)
      /\ fishedUsersAddresses' = fishedUsersAddresses \union S
      /\ n <= activeUsersCount /\ activeUsersCount' = activeUsersCount - n
      /\ activeUsersCount \in Nat /\ n * UbiOfToday \in Nat
  BY <1>2, <1>4 DEF FishAll, Deactivate, TypeOK
<1>6. /\ \A v \in Users : lastClaimed'[v] = IF v = c THEN now ELSE lastClaimed[v]
      /\ claimDay'[Today].hasClaimed = claimDay[Today].hasClaimed \union {c}
  BY <1>2, <1>4, <1>5, RecordEffect
<1>7. S \subseteq Waiting
  <2>1. ASSUME NEW u \in S, u \in claimDay[Today].hasClaimed PROVE FALSE
    <3>1. Today + MaxInactiveDays <= Today
      BY <1>1, <1>2, <1>5, <2>1, FishableIsOld
    <3> QED  BY <1>2, <3>1, DivFacts DEF Days, UBISchemeAssumption
  <2> QED  BY <1>5, <2>1 DEF Waiting, Claimants, Fishable
<1>8. Claimants \ S \subseteq Claimants'
  BY <1>2, <1>5, <1>6 DEF Claimants, isNotNewUser
<1>9. Cardinality(Claimants \ S) = Cardinality(Claimants) - n
  <2>1. Cardinality(Claimants \ S) = Cardinality(Claimants) - Cardinality(Claimants \intersect S)
    BY <1>3, <1>4, FS_Difference
  <2>2. Claimants \intersect S = S
    BY <1>7 DEF Waiting
  <2> QED  BY <2>1, <2>2
<1>10. Cardinality(Waiting \ S) = Cardinality(Waiting) - n
  <2>1. Cardinality(Waiting \ S) = Cardinality(Waiting) - Cardinality(Waiting \intersect S)
    BY <1>3, <1>4, FS_Difference
  <2>2. Waiting \intersect S = S
    BY <1>7
  <2> QED  BY <2>1, <2>2
<1>11. IsFiniteSet(Claimants') /\ Cardinality(Claimants') \in Nat
  <2>1. Claimants' \in SUBSET Users
    BY DEF Claimants
  <2> QED  BY <2>1, SizeType
<1>12. ASSUME Cardinality(Claimants') = activeUsersCount'
       PROVE  /\ Cardinality(Claimants) = activeUsersCount
              /\ Cardinality(Waiting') + n <= Cardinality(Waiting)
  <2>1. Cardinality(Claimants \ S) <= Cardinality(Claimants')
    BY <1>8, <1>11, FS_Subset
  <2>2. Cardinality(Claimants) = activeUsersCount
    BY <1>3, <1>4, <1>5, <1>9, <1>12, <2>1 DEF NoUserCountedTwice
  <2>3. Claimants' = Claimants \ S
    BY <1>5, <1>8, <1>9, <1>11, <1>12, <2>2, FS_Subset
  <2>4. Waiting' \in SUBSET (Waiting \ S)
    BY <1>2, <1>6, <2>3 DEF Waiting
  <2>5. IsFiniteSet(Waiting \ S)
    BY <1>3, FS_Subset
  <2>6. Cardinality(Waiting') <= Cardinality(Waiting \ S) /\ Cardinality(Waiting') \in Nat
    BY <2>4, <2>5, FS_Subset, FS_CardinalityType
  <2> QED  BY <1>3, <1>4, <1>10, <2>2, <2>6
<1>13. balance'["ubi"] = OpenAmount - n * UbiOfToday
  BY <1>2, <1>5 DEF PayFromScheme, TypeOK, PoolTypeOK, Holders
<1> QED  BY <1>1, <1>4, <1>12, <1>13, PaidDayIsFunded

(* No other step takes G$ from an active scheme.                           *)
LEMMA OtherStepsLeaveFunds ==
  ASSUME UBISchemeAssumption, TypeOK, [Next]_vars, ~UserNext,
         status = "active", status' = "active"
  PROVE  balance'["ubi"] >= balance["ubi"]
<1> USE DEF TypeOK, PoolTypeOK, Holders
<1>1. CASE OwnerNext
  BY <1>1 DEF OwnerNext, start, upgrade, Started, setDay
<1>2. CASE AvatarNext
  BY <1>2 DEF AvatarNext, end, setCycleLength, setShouldWithdrawFromDAO
<1>3. CASE PoolStep
  BY <1>3 DEF PoolStep, PoolNext, startPool, endPool, setUBIScheme, setClaimAmount
<1>4. CASE EnvNext
  <2>1. ASSUME NEW h \in Holders, NEW amount \in Deposits, Deposit(h, amount)
        PROVE  balance'["ubi"] >= balance["ubi"]
    <3>1. balance' = [balance EXCEPT ![h] = balance[h] + amount] /\ amount \in Nat
      BY <2>1 DEF Deposit, UBISchemeAssumption
    <3>2. balance \in [Holders -> Nat]
      OBVIOUS
    <3> QED  BY <3>1, <3>2
  <2>2. CASE Tick \/ Unregister \/ \E u \in Users : WhitelistChanges(u)
    BY <2>2 DEF Tick, Unregister, WhitelistChanges
  <2> QED  BY <1>4, <2>1, <2>2 DEF EnvNext
<1>5. CASE UNCHANGED vars
  BY <1>5 DEF vars
<1> QED  BY <1>1, <1>2, <1>3, <1>4, <1>5 DEF Next

(* Before the scheme starts there is no cycle and nothing is promised.     *)
FundedInv == CycleIsFunded /\ (status = "deployed" => currentCycleLength = 0)

LEMMA FundedStep ==
  UBISchemeAssumption /\ UInv /\ UInv' /\ CycleInv /\ FundedInv /\ [Next]_vars => FundedInv'
<1> SUFFICES ASSUME UBISchemeAssumption, UInv, UInv', CycleInv, FundedInv, [Next]_vars
             PROVE  FundedInv'
  OBVIOUS
<1> USE DEF FundedInv
<1>1. CASE \E u \in Users : claim(u)
  BY <1>1, ClaimKeepsFunds DEF claim, isActive
<1>2. CASE Fishing
  BY <1>2, FishKeepsFunds DEF Fishing, FishAll, isActive
<1>3. CASE Started
  <2>1. /\ Claimants' = {} /\ CycleDays' = {} /\ currentCycleLength' = 0
        /\ status' = "active"
    BY <1>3 DEF Started, UInv, ClockInv, CycleInv, NothingRecorded, Claimants, isNotNewUser,
                CycleDays, users
  <2>2. balance'["ubi"] \in Nat /\ dailyUbi' \in Nat /\ dailyCyclePool' \in Nat
    BY DEF UInv, TypeOK, PoolTypeOK, Holders
  <2>3. Claimants' \ claimDay'[lastWithdrawDay'].hasClaimed = {}
    BY <2>1
  <2> QED  BY <2>1, <2>2, <2>3, FS_EmptySet DEF CycleIsFunded
<1>4. CASE (Tick \/ Quiet) /\ ~UserNext
  <2>1. /\ UNCHANGED <<users, periodStart, lastWithdrawDay, dailyUbi, dailyCyclePool,
                       startOfCycle, currentCycleLength, dailyUBIHistory>>
        /\ status' = "active" => status = "active"
        /\ status' = "deployed" => status = "deployed"
    BY <1>4 DEF Tick, Quiet, schemeVars, distribution
  <2>2. Claimants' = Claimants /\ CycleDays' = CycleDays
    BY <2>1 DEF users, Claimants, isNotNewUser, CycleDays
  <2>3. CASE status' = "active"
    <3>1. balance'["ubi"] >= balance["ubi"] /\ balance["ubi"] \in Int /\ balance'["ubi"] \in Int
      BY <1>4, <2>1, <2>3, OtherStepsLeaveFunds DEF UInv, TypeOK, PoolTypeOK, Holders
    <3> DEFINE need == (currentCycleLength - Cardinality(CycleDays)) * dailyCyclePool
                       + Cardinality(Claimants \ claimDay[lastWithdrawDay].hasClaimed) * dailyUbi
    <3>2. need \in Int
      <4>1. Cardinality(CycleDays) \in Nat
        BY CycleDaysFinite DEF CycleDays, UInv, TypeOK
      <4>2. Cardinality(Claimants \ claimDay[lastWithdrawDay].hasClaimed) \in Nat
        <5>1. Claimants \ claimDay[lastWithdrawDay].hasClaimed \in SUBSET Users
          BY DEF Claimants
        <5> QED  BY <5>1, SizeType
      <4> QED  BY <4>1, <4>2 DEF UInv, TypeOK
    <3>3. need' = need
      BY <2>1, <2>2 DEF users
    <3>4. /\ CycleIsFunded =>
               (isActive /\ Cardinality(Claimants) = activeUsersCount
                         /\ Cardinality(CycleDays) <= currentCycleLength => balance["ubi"] >= need)
          /\ (isActive' /\ Cardinality(Claimants') = activeUsersCount'
                        /\ Cardinality(CycleDays') <= currentCycleLength' => balance'["ubi"] >= need')
               => CycleIsFunded'
      BY DEF CycleIsFunded
    <3>5. isActive /\ activeUsersCount' = activeUsersCount /\ currentCycleLength' = currentCycleLength
      BY <2>1, <2>3 DEF isActive, users
    <3> HIDE DEF need
    <3>6. CycleIsFunded'
      BY <2>2, <3>1, <3>2, <3>3, <3>4, <3>5
    <3> QED  BY <2>3, <3>6
  <2>4. CASE status' # "active"
    BY <2>1, <2>4 DEF CycleIsFunded, isActive
  <2> QED  BY <2>3, <2>4
<1>5. UserNext => (\E u \in Users : claim(u)) \/ Fishing
  BY DEF UserNext, fish, fishMulti, Fishing
<1> QED  BY <1>1, <1>2, <1>3, <1>4, <1>5, StepKinds

(* As long as everybody who may claim is counted and the cycle is within   *)
(* its length, the scheme holds what the rest of the cycle will pay.       *)
THEOREM UBICycleIsFunded == Spec => []CycleIsFunded
<1>1. Init => FundedInv
  BY DEF Init, FundedInv, CycleIsFunded, isActive
<1>2. UInv /\ UInv' /\ CycleInv /\ FundedInv /\ [Next]_vars => FundedInv'
  BY FundedStep, UBISchemeAssumption
<1>3. FundedInv => CycleIsFunded
  BY DEF FundedInv
<1> QED  BY <1>1, <1>2, <1>3, UBIInvariant, UBICycleInvariant, PTL DEF Spec

-----------------------------------------------------------------------------
(* The statistics. What the days record of payments sums up to.            *)
LEMMA PaidSum ==
  ASSUME UBISchemeAssumption, TypeOK
  PROVE  Paid \in [Days -> Nat] /\ IsFiniteSet(Days) /\ SumOf(Paid) \in Nat
<1>1. Paid \in [Days -> Nat]
  BY DEF TypeOK, Paid
<1>2. MaxTime \div Day \in Int
  BY DivFacts DEF UBISchemeAssumption
<1>3. IsFiniteSet(Days)
  BY <1>2, FS_Interval DEF Days
<1> QED  BY <1>1, <1>3, SumBounds

(* Recording a payment adds it to the sum.                                 *)
LEMMA RecordAdds ==
  ASSUME UBISchemeAssumption, TypeOK, Today \in Days,
         NEW u \in Users, NEW n \in Nat, NEW paid \in Nat, RecordClaims(u, n, paid)
  PROVE  SumOf(Paid') = SumOf(Paid) + paid
<1>1. Paid \in [Days -> Nat] /\ IsFiniteSet(Days) /\ SumOf(Paid) \in Nat
  BY PaidSum
<1>2. Paid' = [Paid EXCEPT ![Today] = Paid[Today] + paid]
  <2>1. claimDay' = [claimDay EXCEPT ![Today] = Added(claimDay[Today], {u}, n, paid)]
    BY DEF RecordClaims
  <2>2. claimDay \in [Days -> [hasClaimed : SUBSET Users, amountOfClaimers : Nat,
                               claimAmount : Nat]]
    BY DEF TypeOK
  <2>3. \A d \in Days : claimDay'[d].claimAmount =
          IF d = Today THEN claimDay[d].claimAmount + paid ELSE claimDay[d].claimAmount
    BY <2>1, <2>2 DEF Added
  <2>4. /\ Paid \in [Days -> Nat] /\ Paid' = [d \in Days |-> claimDay'[d].claimAmount]
        /\ \A d \in Days : Paid[d] = claimDay[d].claimAmount
    BY <1>1 DEF Paid
  <2> DEFINE more == Paid[Today] + paid
  <2>5. [Paid EXCEPT ![Today] = more] = [d \in Days |-> IF d = Today THEN more ELSE Paid[d]]
    BY <1>1
  <2>6. \A d \in Days : claimDay'[d].claimAmount = IF d = Today THEN more ELSE Paid[d]
    BY <2>3, <2>4
  <2> HIDE DEF more
  <2>7. [d \in Days |-> claimDay'[d].claimAmount]
          = [d \in Days |-> IF d = Today THEN more ELSE Paid[d]]
    BY <2>6
  <2> QED  BY <2>4, <2>5, <2>7 DEF more
<1>3. Paid[Today] \in Nat /\ Paid[Today] + paid \in Nat
  BY <1>1
<1>4. SumOf(Paid') = SumOf(Paid) - Paid[Today] + (Paid[Today] + paid)
  <2> DEFINE more == Paid[Today] + paid
  <2>1. more \in Nat
    BY <1>3
  <2> HIDE DEF more
  <2>2. \A f \in [Days -> Nat], d \in Days, k \in Nat :
          SumOf([f EXCEPT ![d] = k]) = SumOf(f) - f[d] + k
    BY <1>1, SumUpdate, Zenon
  <2>3. SumOf([Paid EXCEPT ![Today] = more]) = SumOf(Paid) - Paid[Today] + more
    BY <1>1, <2>1, <2>2, Zenon
  <2> QED  BY <1>2, <2>3, Zenon DEF more
<1> QED  BY <1>1, <1>3, <1>4

(* A payment leaves scheme, pool and avatar by as much as is recorded.     *)
LEMMA PaymentIsRecorded ==
  ASSUME UBISchemeAssumption, UInv,
         (\E u \in Users : claim(u)) \/ Fishing
  PROVE  Ledger' = Ledger
<1>1. TypeOK /\ now \in 1 .. MaxTime
  BY DEF UInv, ClockInv
<1> USE <1>1
<1>2. ASSUME NEW paid \in Nat, NEW n \in Nat, NEW u \in Users,
             Today \in Days, RecordClaims(u, n, paid),
             \/ PayFromScheme(paid)
             \/ PayFromPool /\ paid = Award
      PROVE  Ledger' = Ledger
  <2>1. SumOf(Paid') = SumOf(Paid) + paid /\ SumOf(Paid) \in Nat
    BY <1>2, RecordAdds, PaidSum
  <2>2. Received' = Received - paid /\ Received \in Nat
    <3>1. \A h \in Holders : balance[h] \in Nat
      BY DEF TypeOK, PoolTypeOK
    <3>2. CASE PayFromScheme(paid)
      BY <1>2, <3>1, <3>2, OpenTypes
         DEF PayFromScheme, Received, OpenAmount, TypeOK, PoolTypeOK, Holders
    <3>3. CASE PayFromPool /\ paid = Award
      BY <1>2, <3>1, <3>3, OpenTypes
         DEF PayFromPool, Received, OpenAmount, TypeOK, PoolTypeOK, Holders
    <3> QED  BY <1>2, <3>2, <3>3
  <2> QED  BY <1>2, <2>1, <2>2 DEF Ledger
<1>3. ASSUME NEW u \in Users, claim(u) PROVE Ledger' = Ledger
  <2>1. Today \in Days /\ UbiOfToday \in Nat /\ Award \in Nat /\ 1 \in Nat
    BY <1>3, DistributionTypes DEF claim, Award, TypeOK, PoolTypeOK
  <2>2. CASE ClaimDaily(u)
    BY <1>2, <2>1, <2>2 DEF ClaimDaily
  <2>3. CASE ClaimFirst(u)
    BY <1>2, <2>1, <2>3 DEF ClaimFirst
  <2>4. CASE ClaimAgain(u)
    <3>1. Paid' = Paid
      BY <2>4 DEF ClaimAgain, users, Paid
    <3>2. Received' = Received
      BY <2>4, OpenTypes
         DEF ClaimAgain, PayFromScheme, Received, OpenAmount, TypeOK, PoolTypeOK, Holders
    <3> QED  BY <3>1, <3>2 DEF Ledger
  <2> QED  BY <1>3, <2>2, <2>3, <2>4 DEF claim
<1>4. ASSUME NEW c \in Users, NEW S \in SUBSET Users, FishAll(c, S) PROVE Ledger' = Ledger
  <2>1. Today \in Days /\ UbiOfToday \in Nat
    BY <1>4, DistributionTypes DEF FishAll
  <2>2. Cardinality(S) \in Nat /\ Cardinality(S) * UbiOfToday \in Nat
    BY <2>1, SizeType
  <2> QED  BY <1>2, <1>4, <2>1, <2>2 DEF FishAll
<1> QED  BY <1>3, <1>4 DEF Fishing

(* Every other step moves G$ among the contracts or brings some in.        *)
LEMMA OtherStepsRecorded ==
  ASSUME UBISchemeAssumption, TypeOK, TypeOK', [Next]_vars, ~UserNext
  PROVE  Ledger' = Ledger \/ (claimDay' = claimDay /\ Ledger' > Ledger)
<1> DEFINE Fine == claimDay' = claimDay /\ (Received' = Received \/ Received' > Received)
<1> USE DEF TypeOK, PoolTypeOK, Holders, Received
<1>0. \A h \in Holders : balance[h] \in Nat
  OBVIOUS
<1>1. ASSUME OwnerNext PROVE Fine
  <2>1. ASSUME start \/ setDay PROVE Fine
    BY <2>1 DEF start, setDay, Started, users
  <2>2. ASSUME NEW prevEnds \in BOOLEAN, upgrade(prevEnds) PROVE Fine
    <3> DEFINE all == balance["prev"]
               moved == IF prevEnds THEN all ELSE 0
    <3>1. moved \in Nat /\ all \in Nat
      BY <1>0
    <3>2. balance' = [balance EXCEPT !["prev"] = balance["prev"] - moved,
                                     !["avatar"] = balance["avatar"] + moved - all,
                                     !["ubi"] = balance["ubi"] + all]
      BY <2>2 DEF upgrade
    <3>3. claimDay' = claimDay
      BY <2>2 DEF upgrade, Started, users
    <3> HIDE DEF all, moved
    <3> QED  BY <1>0, <3>1, <3>2, <3>3
  <2> QED  BY <1>1, <2>1, <2>2 DEF OwnerNext
<1>2. ASSUME AvatarNext PROVE Fine
  BY <1>0, <1>2 DEF AvatarNext, end, setCycleLength, setShouldWithdrawFromDAO, users
<1>3. ASSUME PoolStep PROVE Fine
  BY <1>0, <1>3 DEF PoolStep, PoolNext, startPool, endPool, setUBIScheme, setClaimAmount,
                    schemeVars, users
<1>4. ASSUME EnvNext PROVE Fine
  <2>1. ASSUME NEW h \in Holders, NEW amount \in Deposits, Deposit(h, amount) PROVE Fine
    <3>1. balance' = [balance EXCEPT ![h] = balance[h] + amount] /\ amount \in Nat
          /\ claimDay' = claimDay
      BY <2>1 DEF Deposit, UBISchemeAssumption, schemeVars, users
    <3>2. balance \in [Holders -> Nat]
      OBVIOUS
    <3> QED  BY <1>0, <3>1, <3>2
  <2>2. ASSUME Tick \/ Unregister \/ \E u \in Users : WhitelistChanges(u) PROVE Fine
    BY <2>2 DEF Tick, Unregister, WhitelistChanges, schemeVars, users
  <2> QED  BY <1>4, <2>1, <2>2 DEF EnvNext
<1>5. ASSUME UNCHANGED vars PROVE Fine
  BY <1>5 DEF vars, schemeVars, users
<1>6. Fine
  BY <1>1, <1>2, <1>3, <1>4, <1>5 DEF Next
<1>7. Paid' = Paid
  BY <1>6 DEF Paid
<1>8. SumOf(Paid) \in Nat /\ Received \in Nat /\ Received' \in Nat
  <2>1. SumOf(Paid) \in Nat
    BY PaidSum
  <2> QED  BY <2>1
<1>9. Received' = Received => Ledger' = Ledger
  BY <1>7 DEF Ledger
<1>10. Received' > Received => Ledger' > Ledger
  <2> HIDE DEF Received
  <2> QED  BY <1>7, <1>8 DEF Ledger
<1> QED  BY <1>6, <1>9, <1>10

(* Every G$ that leaves scheme, pool and avatar towards users is in the    *)
(* statistics of some day.                                                 *)
THEOREM UBIPaymentsRecorded == Spec => PaymentsRecorded
<1>1. UserNext => (\E u \in Users : claim(u)) \/ Fishing
  BY DEF UserNext, fish, fishMulti, Fishing
<1>2. UInv /\ UInv' /\ [Next]_vars =>
        [Ledger' = Ledger \/ (claimDay' = claimDay /\ Ledger' > Ledger)]_vars
  BY <1>1, PaymentIsRecorded, OtherStepsRecorded, UBISchemeAssumption DEF UInv
<1> QED  BY <1>2, UBIInvariant, PTL DEF Spec, PaymentsRecorded
===============================================================================
