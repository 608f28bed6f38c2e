------------------------- MODULE DAOScripts_proofs -------------------------
(***************************************************************************)
(* Proofs about DAOScripts: for every set of founders, any order of the    *)
(* scripts, any number of runs, crashes, lost calls and votes by hand, the *)
(* address files name only what is live and agree with what the contracts  *)
(* know of each other, the released proxies are the DAO's, no script is    *)
(* refused a call without a cause, and the scripts implement SchemeLife.   *)
(***************************************************************************)
EXTENDS DAOScripts, SequenceTheorems, FiniteSetTheorems, TLAPS

\* Calls whose contract fits what they do.
Fits(c) ==
  /\ c.op = "propose" => c.key \in SchemeKeys
  /\ c.op = "give" => c.key = "MarketMaker"

\* What a program p releases was started, or given, in an earlier batch.
Earlier(p, i, k) == \E j \in 1..(i - 1) : Start(k) \in p[j] \/ Give(k) \in p[j]
Releases(p, i) == \E c \in p[i] : c.op = "release"

FitProgram(p) ==
  /\ p # Nothing => Len(p) \in Nat \ {0}
  /\ \A i \in 1..Len(p) : \A c \in p[i] : Fits(c)
StartsFirst(p, s, n) ==
  \A i \in 1..Len(p), k \in LiveNames \cap Written(s, n) : Releases(p, i) => Earlier(p, i, k)

\* While a script runs, what its answered batches started is live.
Underway ==
  /\ script \in Scripts
  /\ pc \in 1..Len(Program(script, net))
  /\ sent \subseteq Batch(pc)
  /\ \A j \in 1..pc : \A c \in Batch(j) :
       c.op \in {"start", "give"} /\ (j < pc \/ c \notin sent) => Instance(c.key) \in live

IInv ==
  /\ TypeOK
  /\ \A c \in sent : Fits(c)
  /\ ReleasedIsLive
  /\ status = "running" => Underway

-----------------------------------------------------------------------------
(* The table of the scripts.                                                *)

LEMMA ProgramOf ==
  ASSUME NEW n
  PROVE  /\ Program("new_ubi", n) = DeployNewUBI(n)
         /\ Program("new_signup", n) = DeployNewSignup(n)
         /\ Program("new_otp", n) = DeployNewOTP(n)
         /\ Program("bridges", n) = DeployBridges(n)
         /\ Program("mint_rep", n) = MintMoreRep
         /\ Program("sidechain_ubi", n) = SidechainUBI(n)
         /\ Program("mainnet", n) = Mainnet(n)
         /\ Program("dev", n) = DeployDev(n)
         /\ Program("upgradeUBIScheme", n) = UpgradeUBIScheme
         /\ Program("updateBridgeAndUBIRecipient", n) = UpdateBridgeAndUBIRecipient(n)
         /\ Program("updateAuthPeriod", n) = UpdateAuthPeriod(n)
         /\ Program("updateHomeBridge", n) = UpdateHomeBridge(n)
         /\ Program("updateUBICyclePeriod", n) = UpdateUBICyclePeriod(n)
         /\ Program("collect_interest", n) = CollectInterest(n)
         /\ Program("fake_interest", n) = FakeInterest(n)
         /\ Program("donations", n) = Donations(n)
         /\ Program("donations_upgrade", n) = DonationsUpgrade(n)
         /\ Program("invites", n) = Invites(n)
         /\ Program("invites_upgrade", n) = InvitesUpgrade(n)
         /\ Program("upgradeScheme", n) = UpgradeScheme(n)
         /\ Program("fuse_faucet", n) = DeployFuseFaucet
         /\ Program("fuse_staking", n) = DeployFuseStaking
         /\ Program("fuse_staking_upgrade", n) = UpgradeFuseStaking
BY DEF Program

\* Votes propose and give nothing, start nothing and release nothing.
LEMMA VotesFit ==
  ASSUME NEW n, NEW k
  PROVE  \A c \in Votes(k) \cup VotesOfFirst(k) \cup VotesOfRest(n, k) :
           Fits(c) /\ c.op = "vote"
BY DEF Votes, VotesOfFirst, VotesOfRest, Vote, Call, Fits

LEMMA CallsFit ==
  ASSUME NEW k
  PROVE  /\ Fits(Deploy(k)) /\ Fits(Start(k)) /\ Fits(SetUp(k)) /\ Fits(Use(k))
         /\ Fits(Upgrade(k)) /\ Fits(Handover) /\ Fits(Throw) /\ Fits(Release)
         /\ k \in SchemeKeys => Fits(Propose(k))
         /\ k = "MarketMaker" => Fits(Give(k))
BY DEF Deploy, Start, SetUp, Use, Upgrade, Handover, Throw, Release, Propose, Give, Call, Fits

LEMMA DevFits == ASSUME NEW n PROVE FitProgram(DeployDev(n))
<1> DEFINE K == {"GoodDollar", "UBIScheme", "FirstClaimPool", "DAI", "cDAI", "DAIStaking", "Reserve"}
           U == {Use(k) : k \in K}
<1>4. \A c \in U : Fits(c)
  BY CallsFit
<1>5. \A k \in K : Use(k) \in U
  OBVIOUS
<1> HIDE DEF U
<1>1. FundHome \in Seq(SUBSET U) /\ FundMain \in Seq(SUBSET U) /\ << >> \in Seq(SUBSET U)
  <2>1. Use("GoodDollar") \in U /\ Use("UBIScheme") \in U /\ Use("FirstClaimPool") \in U
        /\ Use("DAI") \in U /\ Use("cDAI") \in U /\ Use("DAIStaking") \in U
        /\ Use("Reserve") \in U
    BY <1>5
  <2> HIDE <1>5
  <2>2. {Use("GoodDollar")} \in SUBSET U /\ {Use("UBIScheme"), Use("FirstClaimPool")} \in SUBSET U
        /\ {Use("DAI")} \in SUBSET U /\ {Use("DAI"), Use("cDAI")} \in SUBSET U
        /\ {Use("DAIStaking"), Use("cDAI")} \in SUBSET U /\ {Use("Reserve")} \in SUBSET U
    BY <2>1
  <2>3. \A a, b, c, d, e \in SUBSET U : <<a, b>> \in Seq(SUBSET U) /\ <<a, b, c, d, e>> \in Seq(SUBSET U)
    OBVIOUS
  <2>4. FundHome \in Seq(SUBSET U)
    BY <2>2, <2>3, Zenon DEF FundHome
  <2>5. FundMain \in Seq(SUBSET U)
    BY <2>2, <2>3, Zenon DEF FundMain
  <2> QED BY <2>4, <2>5
<1>2. DeployDev(n) \in Seq(SUBSET U)
  BY <1>1, ConcatProperties DEF DeployDev, Nothing
<1>3. \A i \in 1..Len(DeployDev(n)) : DeployDev(n)[i] \in SUBSET U
  BY <1>2, ElementOfSeq
<1>6. DeployDev(n) # Nothing => Len(DeployDev(n)) \in Nat \ {0}
  BY <1>2, EmptySeq, LenProperties DEF Nothing
<1> QED BY <1>3, <1>4, <1>6 DEF FitProgram

LEMMA CoreFits ==
  ASSUME NEW n
  PROVE  /\ FitProgram(DeployNewUBI(n)) /\ FitProgram(DeployNewSignup(n))
         /\ FitProgram(DeployNewOTP(n)) /\ FitProgram(DeployBridges(n))
         /\ FitProgram(MintMoreRep)
<1>1. FitProgram(DeployNewUBI(n))
  BY VotesFit, CallsFit DEF FitProgram, DeployNewUBI, Nothing, SchemeKeys
<1>2. FitProgram(DeployNewSignup(n))
  BY VotesFit, CallsFit DEF FitProgram, DeployNewSignup, Nothing, SchemeKeys
<1>3. FitProgram(DeployNewOTP(n))
  BY VotesFit, CallsFit DEF FitProgram, DeployNewOTP, Nothing, SchemeKeys
<1>4. FitProgram(DeployBridges(n))
  BY VotesFit, CallsFit
     DEF FitProgram, DeployBridges, DeployHomeBridge, DeployForeignBridge, SchemeKeys
<1>5. FitProgram(MintMoreRep)
  BY VotesFit, CallsFit DEF FitProgram, MintMoreRep
<1> QED BY <1>1, <1>2, <1>3, <1>4, <1>5

LEMMA MainnetFits == ASSUME NEW n PROVE FitProgram(Mainnet(n))
<1>1. CASE n.env = "tdd" \/ ~BothChains(n)
  BY <1>1 DEF FitProgram, Mainnet, Nothing
<1>2. CASE ~(n.env = "tdd" \/ ~BothChains(n))
  <2> DEFINE p == Mainnet(n)
  <2>1. Len(p) = 16
    BY <1>2 DEF Mainnet
  <2>2. \A c \in p[1] \cup p[2] \cup p[3] \cup p[4] \cup p[5] \cup p[6] : Fits(c)
    BY <1>2, CallsFit DEF Mainnet
  <2>3. \A c \in p[7] \cup p[11] \cup p[12] \cup p[13] : Fits(c)
    BY <1>2, CallsFit DEF Mainnet, SchemeKeys
  <2>4. \A c \in p[8] \cup p[9] \cup p[10] \cup p[14] : Fits(c)
    BY <1>2, VotesFit DEF Mainnet
  <2>5. \A c \in p[15] \cup p[16] : Fits(c)
    BY <1>2, CallsFit DEF Mainnet
  <2>6. \A i \in 1..16 : \A c \in p[i] : Fits(c)
    BY <2>2, <2>3, <2>4, <2>5
  <2> QED BY <2>1, <2>6 DEF FitProgram
<1> QED BY <1>1, <1>2

LEMMA StakingFits ==
  ASSUME NEW n
  PROVE  /\ FitProgram(SidechainUBI(n)) /\ FitProgram(UpgradeUBIScheme)
         /\ FitProgram(UpdateBridgeAndUBIRecipient(n)) /\ FitProgram(UpdateAuthPeriod(n))
         /\ FitProgram(UpdateHomeBridge(n)) /\ FitProgram(UpdateUBICyclePeriod(n))
         /\ FitProgram(CollectInterest(n)) /\ FitProgram(FakeInterest(n))
<1>1. FitProgram(SidechainUBI(n))
  BY VotesFit, CallsFit DEF FitProgram, SidechainUBI, Nothing, SchemeKeys
<1>2. FitProgram(UpgradeUBIScheme)
  BY VotesFit, CallsFit DEF FitProgram, UpgradeUBIScheme, SchemeKeys
<1>3. FitProgram(UpdateBridgeAndUBIRecipient(n))
  BY VotesFit, CallsFit DEF FitProgram, UpdateBridgeAndUBIRecipient, Nothing, SchemeKeys
<1>4. FitProgram(UpdateAuthPeriod(n))
  BY VotesFit, CallsFit DEF FitProgram, UpdateAuthPeriod, Nothing, SchemeKeys
<1>5. FitProgram(UpdateHomeBridge(n))
  BY VotesFit, CallsFit DEF FitProgram, UpdateHomeBridge, Nothing, SchemeKeys
<1>6. FitProgram(UpdateUBICyclePeriod(n))
  BY VotesFit, CallsFit DEF FitProgram, UpdateUBICyclePeriod, Nothing, SchemeKeys
<1>7. FitProgram(CollectInterest(n)) /\ FitProgram(FakeInterest(n))
  BY CallsFit DEF FitProgram, CollectInterest, FakeInterest, Nothing
<1> QED BY <1>1, <1>2, <1>3, <1>4, <1>5, <1>6, <1>7

LEMMA UpgradablesFit ==
  ASSUME NEW n
  PROVE  /\ FitProgram(Donations(n)) /\ FitProgram(DonationsUpgrade(n))
         /\ FitProgram(Invites(n)) /\ FitProgram(InvitesUpgrade(n))
         /\ FitProgram(UpgradeScheme(n)) /\ FitProgram(DeployFuseFaucet)
         /\ FitProgram(DeployFuseStaking) /\ FitProgram(UpgradeFuseStaking)
<1>1. FitProgram(Donations(n)) /\ FitProgram(Invites(n))
  BY CallsFit DEF FitProgram, Donations, Invites, NewProxy, Nothing
<1>2. FitProgram(DonationsUpgrade(n))
  BY VotesFit, CallsFit DEF FitProgram, DonationsUpgrade, UpgradeByDAO, DeployUpgrade,
     ProposeUpgrade, VoteUpgrade, Nothing, SchemeKeys
<1>3. FitProgram(InvitesUpgrade(n))
  BY VotesFit, CallsFit DEF FitProgram, InvitesUpgrade, UpgradeByDAO, DeployUpgrade,
     ProposeUpgrade, VoteUpgrade, Nothing, SchemeKeys
<1>4. FitProgram(UpgradeScheme(n))
  BY VotesFit, CallsFit DEF FitProgram, UpgradeScheme
<1>5. FitProgram(DeployFuseFaucet) /\ FitProgram(DeployFuseStaking)
      /\ FitProgram(UpgradeFuseStaking)
  BY CallsFit DEF FitProgram, DeployFuseFaucet, DeployFuseStaking, UpgradeFuseStaking
<1> QED BY <1>1, <1>2, <1>3, <1>4, <1>5

LEMMA ProgramsFit == ASSUME NEW s \in Scripts, NEW n PROVE FitProgram(Program(s, n))
<1>1. CASE s \in {"new_ubi", "new_signup", "new_otp", "bridges", "mint_rep"}
  BY <1>1, ProgramOf, CoreFits
<1>2. CASE s \in {"mainnet", "dev"}
  BY <1>2, ProgramOf, MainnetFits, DevFits
<1>3. CASE s \in {"sidechain_ubi", "upgradeUBIScheme", "updateBridgeAndUBIRecipient",
                  "updateAuthPeriod", "updateHomeBridge", "updateUBICyclePeriod",
                  "collect_interest", "fake_interest"}
  BY <1>3, ProgramOf, StakingFits
<1>4. CASE s \in {"donations", "donations_upgrade", "invites", "invites_upgrade",
                  "upgradeScheme", "fuse_faucet", "fuse_staking", "fuse_staking_upgrade"}
  BY <1>4, ProgramOf, UpgradablesFit
<1> QED BY <1>1, <1>2, <1>3, <1>4 DEF Scripts

\* No scheme is in a file that its script did not start in an earlier batch.
LEMMA StartingFirst ==
  ASSUME NEW s \in Scripts, NEW n \in [env : STRING, mainnet : BOOLEAN]
  PROVE  StartsFirst(Program(s, n), s, n)
<1> DEFINE p == Program(s, n)
           Schemes == LiveNames \cap Written(s, n)
<1>1. \A c : c \in Votes("OneTimePayments") \cup Votes("HomeBridge") \cup Votes("ForeignBridge")
                  \cup Votes("UBIScheme") \cup Votes("FirstClaimPool")
                  \cup Votes("Reserve") \cup Votes("FundManager") \cup Votes("DAIStaking")
                  \cup Votes("FundManagerSetReserve") \cup VotesOfFirst("SignupBonus")
        => c.op # "release"
  BY DEF Votes, VotesOfFirst, Vote, Call
<1>2. \A k : /\ Deploy(k).op # "release" /\ Use(k).op # "release" /\ Propose(k).op # "release"
              /\ Start(k).op # "release" /\ SetUp(k).op # "release" /\ Give(k).op # "release"
  BY DEF Deploy, Use, Propose, Start, SetUp, Give, Call
<1>3. CASE s = "new_signup"
  <2>1. Schemes \subseteq {"SignupBonus"} /\ p = DeployNewSignup(n)
    BY <1>3, ProgramOf DEF Written
  <2>2. \A i \in 1..Len(p) : Releases(p, i) => i = 6 /\ Start("SignupBonus") \in p[5]
    BY <1>1, <1>2, <2>1 DEF Releases, DeployNewSignup, Nothing
  <2> QED BY <2>1, <2>2 DEF StartsFirst, Earlier
<1>4. CASE s = "new_otp"
  <2>1. Schemes \subseteq {"OneTimePayments"} /\ p = DeployNewOTP(n)
    BY <1>4, ProgramOf DEF Written
  <2>2. \A i \in 1..Len(p) : Releases(p, i) => i = 5 /\ Start("OneTimePayments") \in p[4]
    BY <1>1, <1>2, <2>1 DEF Releases, DeployNewOTP, Nothing
  <2> QED BY <2>1, <2>2 DEF StartsFirst, Earlier
<1>5. CASE s = "bridges"
  <2>1. p = DeployBridges(n)
    BY <1>5, ProgramOf
  <2>2. CASE n.mainnet /\ ~\E env_ \in {"fuse", "staging", "production"} : Is(n, env_)
    <3>1. Schemes \subseteq {"ForeignBridge"}
      BY <1>5, <2>2 DEF Written
    <3>2. \A i \in 1..Len(p) : Releases(p, i) => i = 5 /\ Start("ForeignBridge") \in p[4]
      BY <1>1, <1>2, <2>1, <2>2 DEF Releases, DeployBridges, DeployForeignBridge
    <3> QED BY <3>1, <3>2 DEF StartsFirst, Earlier
  <2>3. CASE \E env_ \in {"fuse", "staging", "production"} : Is(n, env_)
    <3>1. ~n.mainnet
      BY <2>3 DEF Is
    <3>2. Schemes \subseteq {"HomeBridge"}
      BY <1>5, <3>1 DEF Written
    <3>3. \A i \in 1..Len(p) : Releases(p, i) => i = 5 /\ Start("HomeBridge") \in p[4]
      BY <1>1, <1>2, <2>1, <2>3 DEF Releases, DeployBridges, DeployHomeBridge
    <3> QED BY <3>2, <3>3 DEF StartsFirst, Earlier
  <2>4. CASE ~n.mainnet /\ ~\E env_ \in {"fuse", "staging", "production"} : Is(n, env_)
    <3>1. n.env \notin {"fuse", "staging", "production"}
      BY <2>4 DEF Is
    <3>2. Schemes = {}
      BY <1>5, <2>4, <3>1 DEF Written
    <3> QED BY <3>2 DEF StartsFirst
  <2> QED BY <2>2, <2>3, <2>4
<1>6. CASE s = "sidechain_ubi"
  <2>1. Schemes \subseteq {"UBIScheme", "FirstClaimPool"} /\ p = SidechainUBI(n)
    BY <1>6, ProgramOf DEF Written
  <2>2. \A i \in 1..Len(p) : Releases(p, i) =>
          i = 7 /\ Start("UBIScheme") \in p[6] /\ Start("FirstClaimPool") \in p[6]
    BY <1>1, <1>2, <2>1 DEF Releases, SidechainUBI, Nothing
  <2> QED BY <2>1, <2>2 DEF StartsFirst, Earlier
<1>7. CASE s = "upgradeUBIScheme"
  <2>1. Schemes \subseteq {"UBIScheme"} /\ p = UpgradeUBIScheme
    BY <1>7, ProgramOf DEF Written
  <2>2. \A i \in 1..Len(p) : Releases(p, i) => i = 5 /\ Start("UBIScheme") \in p[4]
    BY <1>1, <1>2, <2>1 DEF Releases, UpgradeUBIScheme
  <2> QED BY <2>1, <2>2 DEF StartsFirst, Earlier
<1>8. CASE s = "mainnet"
  <2>1. Schemes \subseteq {"FundManager", "DAIStaking", "Reserve", "MarketMaker"} /\ p = Mainnet(n)
    BY <1>8, ProgramOf DEF Written
  <2>2. CASE n.env = "tdd" \/ ~BothChains(n)
    BY <2>1, <2>2 DEF StartsFirst, Mainnet, Nothing
  <2>3. CASE ~(n.env = "tdd" \/ ~BothChains(n))
    <3>1. Len(p) = 16 /\ Give("MarketMaker") \in p[6] /\ Start("Reserve") \in p[11]
          /\ Start("FundManager") \in p[11] /\ Start("DAIStaking") \in p[11]
      BY <2>1, <2>3 DEF Mainnet
    <3>2. ~Releases(p, 1) /\ ~Releases(p, 2) /\ ~Releases(p, 3) /\ ~Releases(p, 4)
          /\ ~Releases(p, 5) /\ ~Releases(p, 6)
      BY <1>2, <2>1, <2>3 DEF Mainnet, Releases
    <3>3. ~Releases(p, 7) /\ ~Releases(p, 8) /\ ~Releases(p, 9) /\ ~Releases(p, 10)
      BY <1>1, <1>2, <2>1, <2>3 DEF Mainnet, Releases
    <3>4. ~Releases(p, 11)
      BY <1>1, <1>2, <2>1, <2>3 DEF Mainnet, Releases
    <3>5. \A i \in 1..Len(p) : Releases(p, i) => i > 11
      BY <3>1, <3>2, <3>3, <3>4
    <3>6. \A i \in 1..Len(p) : Releases(p, i) => 6 \in 1..(i - 1) /\ 11 \in 1..(i - 1)
      BY <3>5
    <3>7. ASSUME NEW i \in 1..Len(p), NEW k \in Schemes, Releases(p, i)
          PROVE  Earlier(p, i, k)
      <4>1. CASE k = "MarketMaker"
        BY <3>1, <3>6, <3>7, <4>1 DEF Earlier
      <4>2. CASE k # "MarketMaker"
        BY <2>1, <3>1, <3>6, <3>7, <4>2 DEF Earlier
      <4> QED BY <4>1, <4>2
    <3> QED BY <3>7 DEF StartsFirst
  <2> QED BY <2>2, <2>3
<1>9. CASE s \notin {"new_signup", "new_otp", "bridges", "sidechain_ubi", "upgradeUBIScheme", "mainnet"}
  <2>1. Written(s, n) \subseteq {"UBI", "DonationsStaking", "Invites", "FuseFaucet", "FuseStaking"}
    BY <1>9 DEF Written
  <2>2. Schemes = {}
    BY <2>1 DEF LiveNames, Names, SchemeKeys
  <2> QED BY <2>2 DEF StartsFirst
<1> QED BY <1>3, <1>4, <1>5, <1>6, <1>7, <1>8, <1>9

\* The founders do not change, so neither do the programs.
LEMMA VotesStay ==
  ASSUME founders' = founders
  PROVE  /\ \A k : Votes(k)' = Votes(k) /\ VotesOfFirst(k)' = VotesOfFirst(k)
         /\ \A n, k : VotesOfRest(n, k)' = VotesOfRest(n, k)
         /\ Voters' = Voters
BY DEF Votes, VotesOfFirst, VotesOfRest, FirstHalf, AllButFirst, Signers, Voters

LEMMA ProgramStays ==
  ASSUME founders' = founders, NEW s, NEW n
  PROVE  Program(s, n)' = Program(s, n)
<1>1. /\ DeployNewUBI(n)' = DeployNewUBI(n) /\ DeployNewSignup(n)' = DeployNewSignup(n)
      /\ DeployNewOTP(n)' = DeployNewOTP(n) /\ MintMoreRep' = MintMoreRep
  BY VotesStay DEF DeployNewUBI, DeployNewSignup, DeployNewOTP, MintMoreRep
<1>2. DeployBridges(n)' = DeployBridges(n)
  BY VotesStay DEF DeployBridges, DeployHomeBridge, DeployForeignBridge
<1>3. /\ SidechainUBI(n)' = SidechainUBI(n) /\ UpgradeUBIScheme' = UpgradeUBIScheme
      /\ UpdateBridgeAndUBIRecipient(n)' = UpdateBridgeAndUBIRecipient(n)
  BY VotesStay DEF SidechainUBI, UpgradeUBIScheme, UpdateBridgeAndUBIRecipient
<1>4. Mainnet(n)' = Mainnet(n)
  <2>1. /\ Votes("Reserve")' = Votes("Reserve") /\ Votes("FundManager")' = Votes("FundManager")
        /\ Votes("DAIStaking")' = Votes("DAIStaking")
        /\ Votes("FundManagerSetReserve")' = Votes("FundManagerSetReserve")
    BY VotesStay
  <2> QED BY <2>1, Zenon DEF Mainnet
<1>5. /\ UpdateAuthPeriod(n)' = UpdateAuthPeriod(n) /\ UpdateHomeBridge(n)' = UpdateHomeBridge(n)
      /\ UpdateUBICyclePeriod(n)' = UpdateUBICyclePeriod(n)
  BY VotesStay DEF UpdateAuthPeriod, UpdateHomeBridge, UpdateUBICyclePeriod
<1>6. /\ DonationsUpgrade(n)' = DonationsUpgrade(n) /\ InvitesUpgrade(n)' = InvitesUpgrade(n)
      /\ UpgradeScheme(n)' = UpgradeScheme(n)
  BY VotesStay DEF DonationsUpgrade, InvitesUpgrade, UpgradeByDAO, VoteUpgrade, UpgradeScheme
<1> QED BY <1>1, <1>2, <1>3, <1>4, <1>5, <1>6 DEF Program

-----------------------------------------------------------------------------
(* What the calls do.                                                       *)

LEMMA NetworkFacts ==
  ASSUME TypeOK
  PROVE  /\ Networks \subseteq [env : STRING, mainnet : BOOLEAN]
         /\ net \in Networks /\ Home(net) \in Networks
         /\ net \in [env : STRING, mainnet : BOOLEAN]
<1>1. Networks \subseteq [env : STRING, mainnet : BOOLEAN]
  <2> SUFFICES ASSUME NEW e \in Environments, NEW n \in NetworksOf(e)
               PROVE  n \in [env : STRING, mainnet : BOOLEAN]
    BY DEF Networks
  <2>1. e \in STRING
    BY EnvironmentsAssumption
  <2>2. n = [env |-> e, mainnet |-> FALSE] \/ n = [env |-> e, mainnet |-> TRUE]
    BY DEF NetworksOf
  <2>3. /\ [env |-> e, mainnet |-> FALSE] \in [env : STRING, mainnet : BOOLEAN]
        /\ [env |-> e, mainnet |-> TRUE] \in [env : STRING, mainnet : BOOLEAN]
    BY <2>1
  <2> QED BY <2>2, <2>3, Zenon
<1>2. net \in NetworksOf(env) /\ env \in Environments
  BY DEF TypeOK
<1>3. net \in Networks
  BY <1>2 DEF Networks
<1>4. Home(net) = [env |-> env, mainnet |-> FALSE]
  <2>1. net = [env |-> env, mainnet |-> FALSE] \/ net = [env |-> env, mainnet |-> TRUE]
    BY <1>2 DEF NetworksOf
  <2>2. CASE net = [env |-> env, mainnet |-> FALSE]
    BY <2>2 DEF Home
  <2>3. CASE net = [env |-> env, mainnet |-> TRUE]
    BY <2>3 DEF Home
  <2> QED BY <2>1, <2>2, <2>3, Zenon
<1>5. Home(net) \in Networks
  BY <1>2, <1>4 DEF Networks, NetworksOf
<1> QED BY <1>1, <1>3, <1>5

\* What is live stays so, what is started becomes so, and only releaser writes.
LEMMA EffectFacts ==
  ASSUME NEW c, Effect(c)
  PROVE  /\ live \subseteq live'
         /\ c.op \in {"start", "give"} => Instance(c.key) \in live'
         /\ c.op # "release" => file' = file
         /\ c.op = "release" => Released(c)
<1>1. CASE Deployed(c) \/ HandedOver(c)
  BY <1>1 DEF Deployed, HandedOver, dao
<1>2. CASE Proposed(c) \/ Voted(c)
  BY <1>2 DEF Proposed, Voted, CastVote
<1>3. CASE Started(c) \/ Given(c)
  BY <1>3 DEF Started, Given
<1>4. CASE Called(c)
  BY <1>4 DEF Called, dao
<1>5. CASE Released(c)
  <2>1. c.op = "release" /\ live' = live
    BY <1>5 DEF Released, dao
  <2> QED BY <1>5, <2>1
<1> QED BY <1>1, <1>2, <1>3, <1>4, <1>5 DEF Effect

LEMMA InstanceTyped ==
  ASSUME TypeOK, NEW k \in Names
  PROVE  Instance(k) \in Contracts /\ Instance(k)[1] = k
<1>1. run \in 0..MaxRuns /\ 0 \in 0..MaxRuns
  BY BoundsAssumption DEF TypeOK
<1> QED BY <1>1 DEF Instance, Contracts

\* The part of the type that a call may disturb.
Typed ==
  /\ proposed \subseteq Contracts /\ registered \subseteq proposed
  /\ live \subseteq Contracts
  /\ \A c \in live : c[1] \in SchemeKeys => c \in registered
  /\ poolOf \in [Runs -> 0..MaxRuns] /\ poolUbi \in [Runs -> 0..MaxRuns]
  /\ fmReserve \in [Runs -> 0..MaxRuns] /\ fmRecipient \in [Runs -> 0..MaxRuns]
  /\ proxyOwner \in [Networks -> {"none", "deployer", "avatar"}]
  /\ minters \subseteq {"factory", "bridge"}
  /\ file \in [Networks -> [FileKeys -> 0..MaxRuns]]

LEMMA EffectTyped ==
  ASSUME TypeOK, NEW c, Fits(c), Accepted(c), Effect(c)
  PROVE  Typed'
<1>1. Typed /\ run \in 0..MaxRuns /\ net \in Networks /\ Home(net) \in Networks
  BY NetworkFacts DEF TypeOK, Typed
<1>2. "UBIScheme" \in FileKeys /\ "FirstClaimPool" \in FileKeys /\ "FundManager" \in FileKeys
  BY DEF FileKeys
<1>3. CASE Deployed(c)
  <2>1. PoolFor \in 0..MaxRuns /\ file[Home(net)]["UBIScheme"] \in 0..MaxRuns
    BY <1>1, <1>2 DEF PoolFor, Typed
  <2>2. poolOf' \in [Runs -> 0..MaxRuns] /\ fmRecipient' \in [Runs -> 0..MaxRuns]
    BY <1>1, <1>3, <2>1 DEF Deployed, Typed
  <2>3. proxyOwner' \in [Networks -> {"none", "deployer", "avatar"}]
    BY <1>1, <1>3 DEF Deployed, Typed
  <2> QED BY <1>1, <1>3, <2>2, <2>3 DEF Deployed, Typed, dao, Contracts, Names, Runs
<1>4. CASE Proposed(c)
  <2>1. c.key \in Names
    BY <1>4 DEF Proposed, Fits, Names
  <2> QED BY <1>1, <1>4, <2>1, InstanceTyped DEF Proposed, Typed, wiring, Contracts
<1>5. CASE Voted(c)
  <2>1. Instance(c.key) \in proposed
    BY <1>5 DEF Voted, Accepted, Open
  <2>2. registered \subseteq registered' /\ registered' \subseteq registered \cup {Instance(c.key)}
    BY <1>5 DEF Voted, CastVote
  <2> QED BY <1>1, <1>5, <2>1, <2>2 DEF Voted, CastVote, Typed, wiring, Contracts
<1>6. CASE Started(c)
  <2>1. Instance(c.key) \in registered
    BY <1>6 DEF Started, Accepted, Startable
  <2>2. live' = live \cup {Instance(c.key)} /\ UNCHANGED <<proposed, registered>>
    BY <1>6 DEF Started
  <2>3. (/\ proposed \subseteq Contracts /\ registered \subseteq proposed
         /\ live \subseteq Contracts
         /\ \A d \in live : d[1] \in SchemeKeys => d \in registered)'
    BY <1>1, <2>1, <2>2 DEF Typed, Contracts
  <2>4. poolUbi' \in [Runs -> 0..MaxRuns] /\ fmReserve' \in [Runs -> 0..MaxRuns]
    BY <1>1, <1>6 DEF Started, Typed
  <2>5. fmRecipient' \in [Runs -> 0..MaxRuns]
    <3>1. file[Home(net)]["UBIScheme"] \in 0..MaxRuns
      BY <1>1, <1>2 DEF Typed
    <3> QED BY <1>1, <1>6, <3>1 DEF Started, Typed
  <2>6. minters' \subseteq {"factory", "bridge"}
    BY <1>1, <1>6 DEF Started, Typed
  <2> QED BY <1>1, <1>6, <2>3, <2>4, <2>5, <2>6 DEF Started, Typed
<1>7. CASE Given(c)
  <2>1. c.key \in Names \ SchemeKeys
    BY <1>7 DEF Given, Fits, Names, SchemeKeys
  <2>2. Instance(c.key) \in Contracts /\ Instance(c.key)[1] \notin SchemeKeys
    BY <2>1, InstanceTyped
  <2> QED BY <1>1, <1>7, <2>2 DEF Given, Typed, wiring, Contracts
<1>8. CASE Called(c)
  BY <1>1, <1>8 DEF Called, Typed, dao, wiring
<1>9. CASE HandedOver(c)
  BY <1>1, <1>9 DEF HandedOver, Typed, dao
<1>10. CASE Released(c)
  <2> DEFINE record == [k \in FileKeys |-> IF k \in Written(script, net) THEN run
                                           ELSE IF k \in Dropped(script) THEN 0
                                           ELSE file[net][k]]
  <2>2. file[net] \in [FileKeys -> 0..MaxRuns] /\ 0 \in 0..MaxRuns
    BY <1>1, BoundsAssumption DEF Typed
  <2>3. record \in [FileKeys -> 0..MaxRuns]
    BY <1>1, <2>2
  <2>4. file' = [file EXCEPT ![net] = record]
    BY <1>10 DEF Released
  <2>1. file' \in [Networks -> [FileKeys -> 0..MaxRuns]]
    <3> HIDE DEF record
    <3> QED BY <1>1, <2>3, <2>4 DEF Typed
  <2> QED BY <1>1, <1>10, <2>1 DEF Released, Typed, dao, wiring
<1> QED BY <1>3, <1>4, <1>5, <1>6, <1>7, <1>8, <1>9, <1>10 DEF Effect

-----------------------------------------------------------------------------
(* Every step keeps the invariant.                                          *)

\* What a file names after a call is live.
LEMMA EffectReleases ==
  ASSUME IInv, NEW c \in sent, Effect(c), c.op = "release" => status = "running"
  PROVE  ReleasedIsLive'
<1> SUFFICES ASSUME NEW n \in Networks, NEW k \in LiveNames, file'[n][k] # 0
             PROVE  <<k, file'[n][k]>> \in live'
  BY DEF ReleasedIsLive
<1>1. live \subseteq live' /\ TypeOK
  BY EffectFacts DEF IInv
<1>2. CASE file'[n][k] = file[n][k]
  BY <1>1, <1>2 DEF IInv, ReleasedIsLive
<1>3. CASE file'[n][k] # file[n][k]
  <2>1. c.op = "release" /\ Released(c) /\ Underway
    BY <1>3, EffectFacts DEF IInv
  <2>2. k \in FileKeys /\ k \notin FixedKeys
    BY DEF LiveNames, FileKeys, FixedKeys
  <2>3. n = net /\ k \in Written(script, net) /\ file'[n][k] = run
    BY <1>1, <1>3, <2>1, <2>2 DEF Released, TypeOK
  <2>4. c \in Batch(pc) /\ pc \in 1..Len(Program(script, net)) /\ script \in Scripts
    BY <2>1 DEF Underway
  <2>5. Earlier(Program(script, net), pc, k)
    <3>1. Releases(Program(script, net), pc)
      BY <2>1, <2>4 DEF Releases, Batch
    <3>2. StartsFirst(Program(script, net), script, net)
      BY <1>1, <2>4, NetworkFacts, StartingFirst
    <3> QED BY <2>3, <2>4, <3>1, <3>2 DEF StartsFirst
  <2>6. PICK j \in 1..(pc - 1) : Start(k) \in Batch(j) \/ Give(k) \in Batch(j)
    BY <2>5 DEF Earlier, Batch
  <2>7. j \in 1..pc /\ j < pc
    BY <2>4
  <2>8. /\ Start(k).op = "start" /\ Start(k).key = k
        /\ Give(k).op = "give" /\ Give(k).key = k
    BY DEF Start, Give, Call
  <2>9. Instance(k) \in live
    BY <2>1, <2>6, <2>7, <2>8 DEF Underway
  <2> QED BY <1>1, <2>2, <2>3, <2>9 DEF Instance
<1> QED BY <1>2, <1>3

\* A call is mined, in time or late.
LEMMA MinedInv ==
  ASSUME IInv, NEW c \in sent, Accepted(c), Effect(c), sent' = sent \ {c},
         c.op = "release" => status = "running",
         UNCHANGED <<founders, env, script, net, run, pc, status, mishaps>>
  PROVE  IInv'
<1>1. TypeOK /\ Fits(c) /\ crashes' = crashes
  BY DEF IInv, mishaps
<1>2. TypeOK'
  BY <1>1, EffectTyped DEF Typed, TypeOK
<1>3. ReleasedIsLive'
  BY EffectReleases
<1>4. \A d \in sent' : Fits(d)
  BY DEF IInv
<1>5. ASSUME status' = "running" PROVE Underway'
  <2>1. Underway
    BY <1>5 DEF IInv
  <2>2. Program(script, net)' = Program(script, net)
    BY ProgramStays
  <2>3. \A j : Batch(j)' = Batch(j)
    BY <2>2 DEF Batch
  <2>4. \A k : Instance(k)' = Instance(k)
    BY DEF Instance
  <2>5. (\A j \in 1..pc : \A d \in Batch(j) :
           d.op \in {"start", "give"} /\ (j < pc \/ d \notin sent) => Instance(d.key) \in live)'
    <3> SUFFICES ASSUME NEW j \in 1..pc, NEW d \in Batch(j), d.op \in {"start", "give"},
                        j < pc \/ d \notin sent'
                 PROVE  Instance(d.key) \in live'
      BY <2>3, <2>4
    <3>1. CASE d = c
      BY <3>1, EffectFacts
    <3>2. CASE d # c
      BY <2>1, <3>2, EffectFacts DEF Underway
    <3> QED BY <3>1, <3>2
  <2> QED BY <2>1, <2>2, <2>3, <2>5 DEF Underway
<1>6. (\A d \in sent : Fits(d))'
  BY <1>4 DEF Fits
<1> QED BY <1>2, <1>3, <1>5, <1>6 DEF IInv

\* Steps after which fewer calls are under way and no contract has changed.
LEMMA QuietInv ==
  ASSUME IInv, sent' \subseteq sent, status' \in {"idle", "running", "done", "failed", "crashed"},
         status' = "running" =>
           /\ status = "running"
           /\ \A c \in sent \ sent' : c.op \notin {"start", "give"},
         crashes' \in Nat,
         UNCHANGED <<founders, env, script, net, run, pc, dao, wiring, file>>
  PROVE  IInv'
<1>1. /\ UNCHANGED <<proposed, registered, live, poolOf, poolUbi, fmReserve, fmRecipient>>
      /\ UNCHANGED <<proxyOwner, minters>>
  BY DEF dao, wiring
<1>2. TypeOK'
  BY <1>1 DEF IInv, TypeOK
<1>3. ReleasedIsLive'
  BY <1>1 DEF IInv, ReleasedIsLive
<1>4. (\A c \in sent : Fits(c))'
  BY DEF IInv, Fits
<1>5. ASSUME status' = "running" PROVE Underway'
  <2>1. Underway
    BY <1>5 DEF IInv
  <2>2. Program(script, net)' = Program(script, net)
    BY ProgramStays
  <2>3. \A j : Batch(j)' = Batch(j)
    BY <2>2 DEF Batch
  <2>4. \A k : Instance(k)' = Instance(k)
    BY DEF Instance
  <2>5. (\A j \in 1..pc : \A d \in Batch(j) :
           d.op \in {"start", "give"} /\ (j < pc \/ d \notin sent) => Instance(d.key) \in live)'
    BY <1>1, <1>5, <2>1, <2>3, <2>4 DEF Underway
  <2> QED BY <2>1, <2>2, <2>3, <2>5 DEF Underway
<1> QED BY <1>2, <1>3, <1>4, <1>5 DEF IInv

\* A refused or lost call: none that makes a contract live is let pass.
LEMMA GivenUpInv ==
  ASSUME IInv, NEW c \in sent, Refuse(c) \/ Lose(c)
  PROVE  IInv'
<1>1. /\ status = "running" /\ sent' = sent \ {c}
      /\ status' = IF Tolerated(c) THEN status ELSE "failed"
      /\ UNCHANGED <<founders, env, script, net, run, pc, dao, wiring, file, crashes>>
  BY DEF Refuse, Lose, mishaps
<1>2. crashes' \in Nat /\ status' \in {"running", "failed"}
  BY <1>1 DEF IInv, TypeOK
<1>3. status' = "running" => c.op \notin {"start", "give"}
  BY <1>1 DEF Tolerated, SetUp, Call
<1> QED BY <1>1, <1>2, <1>3, QuietInv

LEMMA NextBatchInv ==
  ASSUME IInv, NextBatch
  PROVE  IInv'
<1>1. /\ status = "running" /\ sent = {} /\ pc < Len(Program(script, net))
      /\ pc' = pc + 1 /\ sent' = Batch(pc + 1) /\ Underway /\ TypeOK
      /\ UNCHANGED <<founders, env, script, net, run, status, file, crashes>>
      /\ UNCHANGED <<proposed, registered, live, poolOf, poolUbi, fmReserve, fmRecipient>>
      /\ UNCHANGED <<proxyOwner, minters>>
  BY DEF NextBatch, IInv, dao, wiring, mishaps
<1>2. TypeOK'
  BY <1>1 DEF TypeOK
<1>3. ReleasedIsLive'
  BY <1>1 DEF IInv, ReleasedIsLive
<1>4. script \in Scripts /\ FitProgram(Program(script, net))
  BY <1>1, ProgramsFit DEF Underway
<1>5. Program(script, net) # Nothing
  BY <1>1 DEF Underway, Nothing
<1>6. pc \in Nat \ {0} /\ Len(Program(script, net)) \in Nat
  BY <1>1, <1>4, <1>5 DEF Underway, FitProgram
<1>7. pc + 1 \in 1..Len(Program(script, net))
  BY <1>1, <1>6
<1>8. \A c \in sent' : Fits(c)
  BY <1>1, <1>4, <1>7 DEF FitProgram, Batch
<1>9. Underway'
  <2>1. Program(script, net)' = Program(script, net)
    BY <1>1, ProgramStays
  <2>2. \A j : Batch(j)' = Batch(j)
    BY <1>1, <2>1 DEF Batch
  <2>3. \A k : Instance(k)' = Instance(k)
    BY <1>1 DEF Instance
  <2>4. \A j \in 1..(pc + 1) : \A d \in Batch(j) :
          d.op \in {"start", "give"} /\ (j < pc + 1 \/ d \notin Batch(pc + 1))
            => Instance(d.key) \in live
    <3> SUFFICES ASSUME NEW j \in 1..(pc + 1), NEW d \in Batch(j), d.op \in {"start", "give"},
                        j < pc + 1 \/ d \notin Batch(pc + 1)
                 PROVE  Instance(d.key) \in live
      OBVIOUS
    <3>1. j \in 1..pc
      BY <1>6
    <3> QED BY <1>1, <3>1 DEF Underway
  <2> QED BY <1>1, <1>4, <1>7, <2>1, <2>2, <2>3, <2>4 DEF Underway
<1>10. (\A c \in sent : Fits(c))'
  BY <1>8 DEF Fits
<1> QED BY <1>1, <1>2, <1>3, <1>9, <1>10 DEF IInv

LEMMA RunInv ==
  ASSUME IInv, NEW s \in Scripts, NEW n \in NetworksOf(env), Run(s, n)
  PROVE  IInv'
<1>1. /\ run < MaxRuns /\ Program(s, n) # Nothing
      /\ script' = s /\ net' = n /\ run' = run + 1 /\ pc' = 1 /\ sent' = Program(s, n)[1]
      /\ status' = "running" /\ TypeOK
      /\ UNCHANGED <<founders, env, file, crashes>>
      /\ UNCHANGED <<proposed, registered, live, poolOf, poolUbi, fmReserve, fmRecipient>>
      /\ UNCHANGED <<proxyOwner, minters>>
  BY DEF Run, IInv, dao, wiring, mishaps
<1>2. run + 1 \in 0..MaxRuns
  BY <1>1, BoundsAssumption DEF TypeOK
<1>3. TypeOK'
  BY <1>1, <1>2 DEF TypeOK
<1>4. ReleasedIsLive'
  BY <1>1 DEF IInv, ReleasedIsLive
<1>5. FitProgram(Program(s, n)) /\ 1 \in 1..Len(Program(s, n))
  BY <1>1, ProgramsFit DEF FitProgram
<1>6. (\A c \in sent : Fits(c))'
  BY <1>1, <1>5 DEF FitProgram, Fits
<1>7. Program(script, net)' = Program(s, n)
  <2>1. Program(s, n)' = Program(s, n)
    BY <1>1, ProgramStays
  <2>2. Program(script, net)' = Program(s, n)'
    BY <1>1
  <2> QED BY <2>1, <2>2
<1>8. \A j : Batch(j)' = Program(s, n)[j]
  BY <1>7 DEF Batch
<1>9. Underway'
  BY <1>1, <1>5, <1>7, <1>8 DEF Underway
<1> QED BY <1>1, <1>3, <1>4, <1>6, <1>9 DEF IInv

LEMMA HandVoteInv ==
  ASSUME IInv, NEW c \in Open, NEW f \in Voters, HandVote(c, f)
  PROVE  IInv'
<1>1. /\ registered \subseteq registered' /\ registered' \subseteq registered \cup {c}
      /\ TypeOK
      /\ UNCHANGED <<founders, env, script, net, run, pc, sent, status, file, crashes>>
      /\ UNCHANGED <<proposed, live, poolOf, poolUbi, fmReserve, fmRecipient>>
      /\ UNCHANGED <<proxyOwner, minters>>
  BY DEF HandVote, CastVote, IInv, wiring, process
<1>2. TypeOK'
  BY <1>1 DEF TypeOK, Open
<1>3. ReleasedIsLive'
  BY <1>1 DEF IInv, ReleasedIsLive
<1>4. (\A d \in sent : Fits(d))'
  BY <1>1 DEF IInv, Fits
<1>5. ASSUME status' = "running" PROVE Underway'
  <2>1. Underway
    BY <1>1, <1>5 DEF IInv
  <2>2. Program(script, net)' = Program(script, net)
    BY <1>1, ProgramStays
  <2>3. \A j : Batch(j)' = Batch(j)
    BY <1>1, <2>2 DEF Batch
  <2>4. \A k : Instance(k)' = Instance(k)
    BY <1>1 DEF Instance
  <2> QED BY <1>1, <2>1, <2>2, <2>3, <2>4 DEF Underway
<1> QED BY <1>2, <1>3, <1>4, <1>5 DEF IInv

LEMMA InitInv == Init => IInv
<1> SUFFICES ASSUME Init PROVE IInv
  OBVIOUS
<1>1. 0 \in 0..MaxRuns
  BY BoundsAssumption
<1>2. proposed \subseteq Contracts
  BY <1>1 DEF Init, Contracts, Names, FixedKeys, SchemeKeys
<1>3. net \in NetworksOf(env)
  BY DEF Init, NetworksOf
<1>4. TypeOK
  BY <1>1, <1>2, <1>3 DEF Init, TypeOK
<1>5. ReleasedIsLive
  BY DEF Init, ReleasedIsLive, LiveNames
<1> QED BY <1>4, <1>5 DEF Init, IInv

LEMMA NextInv == IInv /\ [Next]_vars => IInv'
<1> SUFFICES ASSUME IInv, [Next]_vars PROVE IInv'
  OBVIOUS
<1>1. ASSUME NEW s \in Scripts, NEW n \in NetworksOf(env), Run(s, n) PROVE IInv'
  BY <1>1, RunInv
<1>2. ASSUME NEW c \in sent, Answer(c) PROVE IInv'
  BY <1>2, MinedInv DEF Answer
<1>3. ASSUME NEW c \in sent, Refuse(c) \/ Lose(c) PROVE IInv'
  BY <1>3, GivenUpInv
<1>4. ASSUME NEW c \in sent, LateAnswer(c) PROVE IInv'
  BY <1>4, MinedInv DEF LateAnswer
<1>5. CASE NextBatch
  BY <1>5, NextBatchInv
<1>6. CASE Finish \/ Crash
  <2>1. crashes' \in Nat
    BY <1>6 DEF Finish, Crash, IInv, TypeOK, mishaps
  <2> QED BY <1>6, <2>1, QuietInv DEF Finish, Crash
<1>7. ASSUME NEW c \in Open, NEW f \in Voters, HandVote(c, f) PROVE IInv'
  BY <1>7, HandVoteInv
<1>8. CASE UNCHANGED vars
  <2>1. crashes' \in Nat /\ status' \in {"idle", "running", "done", "failed", "crashed"}
    BY <1>8 DEF vars, mishaps, process, IInv, TypeOK
  <2> QED BY <1>8, <2>1, QuietInv DEF vars, process
<1> QED BY <1>1, <1>2, <1>3, <1>4, <1>5, <1>6, <1>7, <1>8 DEF Next, ScriptStep

-----------------------------------------------------------------------------
\* Every reachable state of the scripts satisfies the invariant.
THEOREM Inductive == Spec => []IInv
BY InitInv, NextInv, PTL DEF Spec

\* Types, and no scheme acts for the DAO that a majority has not registered.
THEOREM TypeCorrect == Spec => []TypeOK
<1>1. IInv => TypeOK
  BY DEF IInv
<1> QED BY <1>1, Inductive, PTL

\* The address files name only schemes that were started and market makers
\* that their reserve owns, whichever scripts died before.
THEOREM ReleasedLive == Spec => []ReleasedIsLive
<1>1. IInv => ReleasedIsLive
  BY DEF IInv
<1> QED BY <1>1, Inductive, PTL

-----------------------------------------------------------------------------
(* The scripts implement SchemeLife.                                        *)

published == [p \in Places |-> file[p.net][p.key]]

LEMMA SameCardinality == ASSUME NEW S PROVE Life!Cardinality(S) = Cardinality(S)
BY Zenon DEF Life!Cardinality, Cardinality

LEMMA LifeInit == Init => Life!Init
<1> SUFFICES ASSUME Init PROVE Life!Init
  OBVIOUS
<1>1. proposed \subseteq Contracts
  BY InitInv DEF IInv, TypeOK
<1>2. \A p \in Places : file[p.net][p.key] = 0
  <2> SUFFICES ASSUME NEW n \in Networks, NEW k \in FileKeys PROVE file[n][k] = 0
    BY DEF Places
  <2> QED BY DEF Init
<1>3. published = [p \in Places |-> 0]
  BY <1>2 DEF published
<1> QED BY <1>1, <1>3 DEF Init, Life!Init, published

\* A file is written with contracts that are ready.
LEMMA LifePublish ==
  ASSUME IInv, NEW c \in sent, Released(c), status = "running", founders' = founders, IInv'
  PROVE  Life!Publish
<1>1. UNCHANGED <<ballots, proposed, registered, live>> /\ Voters' = Voters
  BY VotesStay DEF Released, dao
<1>2. ASSUME NEW p \in Places
      PROVE  \/ published'[p] \in {published[p], 0}
             \/ Life!Ready(<<p.key, published'[p]>>)
  <2>1. p.net \in Networks /\ p.key \in FileKeys
    BY DEF Places
  <2>2. published'[p] = file'[p.net][p.key]
    BY DEF published
  <2>3. CASE p.key \in LiveNames /\ published'[p] # 0
    <3>1. <<p.key, published'[p]>> \in live
      BY <1>1, <2>1, <2>2, <2>3 DEF IInv, ReleasedIsLive
    <3> QED BY <3>1 DEF Life!Ready
  <2>4. CASE p.key \notin LiveNames
    BY <2>4 DEF Life!Ready
  <2> QED BY <2>3, <2>4
<1>3. DOMAIN published' = Places
  BY DEF published
<1> QED BY <1>1, <1>2, <1>3 DEF Life!Publish, published

LEMMA LifeCall ==
  ASSUME IInv, IInv', NEW c \in sent, Accepted(c), Effect(c), founders' = founders,
         c.op = "release" => status = "running"
  PROVE  Life!Next \/ UNCHANGED Life!vars
<1>1. Voters' = Voters /\ TypeOK /\ Fits(c)
  BY VotesStay DEF IInv
<1>2. file' = file => published' = published
  BY DEF published
<1>3. CASE Deployed(c) \/ Called(c) \/ HandedOver(c)
  BY <1>1, <1>2, <1>3 DEF Deployed, Called, HandedOver, dao, Life!vars, published
<1>4. CASE Proposed(c)
  <2>1. Instance(c.key) \in Contracts
    BY <1>1, <1>4, InstanceTyped DEF Proposed, Fits, Names
  <2>2. Life!Propose(Instance(c.key))
    BY <1>1, <1>2, <1>4 DEF Proposed, Life!Propose, published
  <2> QED BY <2>1, <2>2 DEF Life!Next
<1>5. CASE Voted(c)
  <2>1. Instance(c.key) \in Open /\ c.by \in Voters
    BY <1>5 DEF Voted, Accepted
  <2>2. Instance(c.key) \in Contracts
    BY <1>1, <2>1 DEF Open, TypeOK
  <2>3. Life!Approve(Instance(c.key), c.by)
    BY <1>1, <1>2, <1>5, <2>1, SameCardinality
       DEF Voted, CastVote, Open, Carries, Life!Approve, Life!Majority, published
  <2> QED BY <2>1, <2>2, <2>3 DEF Life!Next
<1>6. CASE Started(c)
  <2>1. Instance(c.key) \in registered
    BY <1>6 DEF Started, Accepted, Startable
  <2>2. Instance(c.key) \in Contracts
    BY <1>1, <2>1 DEF TypeOK
  <2>3. Life!GoLive(Instance(c.key))
    BY <1>1, <1>2, <1>6, <2>1 DEF Started, Life!GoLive, published
  <2> QED BY <2>2, <2>3 DEF Life!Next
<1>7. CASE Given(c)
  <2>1. c.key \in Names /\ c.key \notin SchemeKeys
    BY <1>1, <1>7 DEF Given, Fits, Names, SchemeKeys
  <2>2. Instance(c.key) \in Contracts /\ Instance(c.key)[1] \notin SchemeKeys
    BY <1>1, <2>1, InstanceTyped
  <2>3. Life!GoLive(Instance(c.key))
    BY <1>1, <1>2, <1>7, <2>2 DEF Given, Life!GoLive, published
  <2> QED BY <2>2, <2>3 DEF Life!Next
<1>8. CASE Released(c)
  BY <1>8, LifePublish DEF Released, Life!Next
<1> QED BY <1>3, <1>4, <1>5, <1>6, <1>7, <1>8 DEF Effect

LEMMA LifeNext == IInv /\ IInv' /\ [Next]_vars => [Life!Next]_(Life!vars)
<1> SUFFICES ASSUME IInv, IInv', [Next]_vars
             PROVE  Life!Next \/ UNCHANGED Life!vars
  OBVIOUS
<1>1. UNCHANGED <<founders, dao, file>> => UNCHANGED Life!vars
  BY VotesStay DEF dao, Life!vars
<1>2. ASSUME NEW s \in Scripts, NEW n \in NetworksOf(env), Run(s, n)
      PROVE  UNCHANGED Life!vars
  BY <1>1, <1>2 DEF Run
<1>3. ASSUME NEW c \in sent, Answer(c) PROVE Life!Next \/ UNCHANGED Life!vars
  BY <1>3, LifeCall DEF Answer
<1>4. ASSUME NEW c \in sent, Refuse(c) \/ Lose(c) PROVE UNCHANGED Life!vars
  BY <1>1, <1>4 DEF Refuse, Lose
<1>5. ASSUME NEW c \in sent, LateAnswer(c) PROVE Life!Next \/ UNCHANGED Life!vars
  BY <1>5, LifeCall DEF LateAnswer
<1>6. CASE NextBatch \/ Finish \/ Crash
  BY <1>1, <1>6 DEF NextBatch, Finish, Crash
<1>7. ASSUME NEW c \in Open, NEW f \in Voters, HandVote(c, f) PROVE Life!Next
  <2>1. c \in Contracts /\ Voters' = Voters
    BY <1>7, VotesStay DEF Open, IInv, TypeOK, HandVote
  <2>2. Life!Approve(c, f)
    BY <1>7, <2>1, SameCardinality DEF HandVote, CastVote, Open, Carries, Life!Approve, Life!Majority
  <2> QED BY <2>1, <2>2 DEF Life!Next
<1>8. CASE UNCHANGED vars
  BY <1>1, <1>8 DEF vars
<1> QED BY <1>2, <1>3, <1>4, <1>5, <1>6, <1>7, <1>8 DEF Next, ScriptStep

\* Every behaviour of the scripts is one that SchemeLife allows: proposed,
\* approved by a majority, live, and only then in a file.
THEOREM Refinement == Spec => LifeSpec
<1>1. Spec => Life!Init
  BY LifeInit DEF Spec
<1>2. IInv /\ IInv' /\ [Next]_vars => [Life!Next]_(Life!vars)
  BY LifeNext
<1> QED BY <1>1, <1>2, Inductive, PTL DEF Spec, LifeSpec, Life!Spec

-----------------------------------------------------------------------------
(* The order in which each script does its work, by its batches alone.      *)

Before(p, i, c) == \E j \in 1..(i - 1) : c \in p[j]
Standing == {"mint_rep", "upgradeScheme"}   \* scripts for a proposal that stands
Twins == {"FundManager", "Reserve", "MarketMaker"}   \* written together

\* Calls of released contracts that need nothing of the DAO, and the others.
Unguarded == {"GoodDollar", "AdminWallet", "DAI", "cDAI", "FuseStaking"}
Guarded == {"UBIScheme", "FirstClaimPool", "DAIStaking", "FundManager", "Reserve"}

Ops == {"deploy", "propose", "vote", "start", "setup", "give", "use", "handover", "upgrade",
        "throw", "release"}

\* Which script makes which call.
Belongs(s, n, c) ==
  /\ c.op \in Ops
  /\ c.op = "throw" => s = "updateUBICyclePeriod"
  /\ c.op = "upgrade" => s = "fuse_staking_upgrade"
  /\ c.op = "handover" => s \in {"donations", "invites"}
  /\ c.op = "use" => c.key \in Unguarded \/ c.key \in Guarded \cap Reads(s, n)
  /\ c.op \in {"deploy", "start"} /\ c.key = "UBIScheme" => s \in {"sidechain_ubi", "upgradeUBIScheme"}
  /\ c.op = "deploy" /\ c.key = "FundManager" => s = "mainnet"
  /\ c.op = "start" =>
       /\ c.key \in SchemeKeys
       /\ c.key = "ChangeHomeBridge" => s = "updateHomeBridge"
       /\ c.key = "FundManagerSetUBIAndBridge" => s = "updateBridgeAndUBIRecipient"
       /\ c.key = "DonationsUpgrade" => s = "donations_upgrade"
       /\ c.key = "InvitesUpgrade" => s = "invites_upgrade"
  /\ c.op \in {"vote", "start"} => (c.key \in FixedKeys <=> s \in Standing)
  /\ c.op \in {"give", "setup"} => c.key \in {"MarketMaker", "FuseStaking"}

\* What the release in batch i relies on.
Complete(p, s, n, i) ==
  LET W == Written(s, n) IN
  /\ "FundManager" \in W => Before(p, i, Start("FundManagerSetReserve"))
  /\ "UBIScheme" \in W => Before(p, i, Start("UBIScheme"))
  /\ \A k \in W \cap Proxies : Before(p, i, Deploy(k)) /\ (k # "FuseStaking" => Before(p, i, Handover))

\* What the call c of batch i relies on was done in an earlier batch.
Prepared(p, s, n, i, c) ==
  /\ c.op = "vote" /\ s \notin Standing => c.by \in FirstHalf /\ Before(p, i, Propose(c.key))
  /\ c.op = "start" /\ s \notin Standing => \A v \in Votes(c.key) : Before(p, i, v)
  /\ c.op = "start" /\ c.key = "UBIScheme" => Before(p, i, Deploy("UBIScheme"))
  /\ c.op = "handover" => \E k \in Proxies : Before(p, i, Deploy(k))
  /\ c.op = "release" => Complete(p, s, n, i)

Twice(c, d) ==
  \/ c.op \in {"start", "give"} /\ d.op = c.op /\ d.key = c.key
  \/ c.op = "vote" /\ d.op = "vote" /\ d.key = c.key /\ d.by = c.by

\* No vote is cast twice, nothing is started twice, or set up when it is given.
Once(p) ==
  \A i, j \in 1..Len(p) : \A c \in p[i], d \in p[j] :
    /\ Twice(c, d) => i = j /\ d = c
    /\ c.op = "setup" /\ d.op = "give" /\ d.key = c.key => i < j

Ordered(p, s, n) ==
  /\ \A i \in 1..Len(p) : \A c \in p[i] : Belongs(s, n, c) /\ Prepared(p, s, n, i, c)
  /\ Once(p)

\* What the calls are made of.
LEMMA CallFields ==
  /\ \A k : /\ Deploy(k).op = "deploy" /\ Deploy(k).key = k
            /\ Propose(k).op = "propose" /\ Propose(k).key = k
            /\ Start(k).op = "start" /\ Start(k).key = k
            /\ SetUp(k).op = "setup" /\ SetUp(k).key = k
            /\ Give(k).op = "give" /\ Give(k).key = k
            /\ Use(k).op = "use" /\ Use(k).key = k
            /\ Upgrade(k).op = "upgrade" /\ Upgrade(k).key = k
  /\ Handover.op = "handover" /\ Throw.op = "throw" /\ Release.op = "release"
BY DEF Deploy, Propose, Start, SetUp, Give, Use, Upgrade, Handover, Throw, Release, Call

LEMMA VoteFields ==
  ASSUME NEW k
  PROVE  /\ \A c \in Votes(k) : c.op = "vote" /\ c.key = k /\ c.by \in FirstHalf
         /\ \A c, d \in Votes(k) : c.by = d.by => c = d
BY DEF Votes, Vote, Call

\* A script that deploys one scheme, has it voted on, starts and releases it.
LEMMA OneScheme ==
  ASSUME NEW p, NEW s, NEW n, NEW k \in SchemeKeys \ FixedKeys, s \notin Standing,
         Len(p) \in 4..5, p[1] = {Deploy(k)}, p[2] = {Propose(k)}, p[3] = Votes(k),
         p[4] = {Start(k)}, Len(p) = 5 => p[5] = {Release} /\ Written(s, n) \cap Proxies = {},
         Belongs(s, n, Deploy(k)), Belongs(s, n, Start(k)),
         "FundManager" \notin Written(s, n), "UBIScheme" \in Written(s, n) => k = "UBIScheme"
  PROVE  Ordered(p, s, n)
<1>1. ASSUME NEW i \in 1..Len(p), NEW c \in p[i]
      PROVE  \/ i = 1 /\ c = Deploy(k)
             \/ i = 2 /\ c = Propose(k)
             \/ i = 3 /\ c \in Votes(k)
             \/ i = 4 /\ c = Start(k)
             \/ i = 5 /\ c = Release /\ Len(p) = 5
  <2>1. i = 1 \/ i = 2 \/ i = 3 \/ i = 4 \/ (i = 5 /\ Len(p) = 5)
    OBVIOUS
  <2>2. CASE i = 1
    BY <2>2, Zenon
  <2>3. CASE i = 2
    BY <2>3, Zenon
  <2>4. CASE i = 3
    BY <2>4, Zenon
  <2>5. CASE i = 4
    BY <2>5, Zenon
  <2>6. CASE i = 5 /\ Len(p) = 5
    BY <2>6, Zenon
  <2> QED BY <2>1, <2>2, <2>3, <2>4, <2>5, <2>6
<1>2. /\ Before(p, 3, Propose(k)) /\ \A v \in Votes(k) : Before(p, 4, v)
      /\ Before(p, 4, Deploy(k)) /\ Before(p, 5, Start(k))
  BY DEF Before
<1>3. Len(p) = 5 => Complete(p, s, n, 5)
  BY <1>2 DEF Complete
<1>4. ASSUME NEW c \in Votes(k) PROVE Belongs(s, n, c) /\ Prepared(p, s, n, 3, c)
  BY <1>2, VoteFields DEF Belongs, Prepared, Ops
<1>5. /\ Belongs(s, n, Propose(k)) /\ Prepared(p, s, n, 2, Propose(k))
      /\ Belongs(s, n, Release) /\ (Len(p) = 5 => Prepared(p, s, n, 5, Release))
      /\ Prepared(p, s, n, 1, Deploy(k)) /\ Prepared(p, s, n, 4, Start(k))
  BY <1>2, <1>3, CallFields DEF Belongs, Prepared, Ops
<1>7. ASSUME NEW i \in 1..Len(p), NEW c \in p[i]
      PROVE  Belongs(s, n, c) /\ Prepared(p, s, n, i, c)
  BY <1>1, <1>4, <1>5
<1>6. Once(p)
  <2>1. ASSUME NEW i \in 1..Len(p), NEW c \in p[i]
        PROVE  /\ c.op = "vote" => i = 3 /\ c \in Votes(k)
               /\ c.op = "start" => i = 4 /\ c = Start(k)
               /\ c.op \notin {"give", "setup"}
    BY <1>1, CallFields, VoteFields
  <2> QED BY <2>1, VoteFields DEF Once, Twice
<1> QED BY <1>6, <1>7 DEF Ordered

LEMMA NothingOrdered == ASSUME NEW s, NEW n PROVE Ordered(Nothing, s, n)
BY DEF Ordered, Once, Nothing

LEMMA OneSchemeScripts ==
  ASSUME NEW n
  PROVE  /\ Ordered(DeployNewOTP(n), "new_otp", n)
         /\ Ordered(UpgradeUBIScheme, "upgradeUBIScheme", n)
         /\ Ordered(UpdateBridgeAndUBIRecipient(n), "updateBridgeAndUBIRecipient", n)
         /\ Ordered(UpdateAuthPeriod(n), "updateAuthPeriod", n)
         /\ Ordered(UpdateHomeBridge(n), "updateHomeBridge", n)
<1>1. Ordered(DeployNewOTP(n), "new_otp", n)
  <2>1. CASE n.mainnet
    BY <2>1, NothingOrdered DEF DeployNewOTP
  <2>2. CASE ~n.mainnet
    <3> DEFINE k == "OneTimePayments"
    <3>1. k \in SchemeKeys \ FixedKeys /\ Written("new_otp", n) = {k} /\ k \notin Proxies
      BY DEF SchemeKeys, FixedKeys, Written, Proxies
    <3>2. Belongs("new_otp", n, Deploy(k)) /\ Belongs("new_otp", n, Start(k))
      BY <3>1, CallFields DEF Belongs, Ops, Standing
    <3>3. DeployNewOTP(n) = <<{Deploy(k)}, {Propose(k)}, Votes(k), {Start(k)}, {Release}>>
      BY <2>2 DEF DeployNewOTP
    <3> QED BY <3>1, <3>2, <3>3, OneScheme DEF Standing
  <2> QED BY <2>1, <2>2
<1>2. Ordered(UpgradeUBIScheme, "upgradeUBIScheme", n)
  <2> DEFINE k == "UBIScheme"
  <2>1. k \in SchemeKeys \ FixedKeys /\ Written("upgradeUBIScheme", n) = {k} /\ k \notin Proxies
    BY DEF SchemeKeys, FixedKeys, Written, Proxies
  <2>2. Belongs("upgradeUBIScheme", n, Deploy(k)) /\ Belongs("upgradeUBIScheme", n, Start(k))
    BY <2>1, CallFields DEF Belongs, Ops, Standing
  <2>3. UpgradeUBIScheme = <<{Deploy(k)}, {Propose(k)}, Votes(k), {Start(k)}, {Release}>>
    BY DEF UpgradeUBIScheme
  <2> QED BY <2>1, <2>2, <2>3, OneScheme DEF Standing
<1>3. ASSUME NEW p, NEW s, NEW k,
             \/ s = "updateBridgeAndUBIRecipient" /\ k = "FundManagerSetUBIAndBridge"
             \/ s = "updateAuthPeriod" /\ k = "ChangeAuthPeriod"
             \/ s = "updateHomeBridge" /\ k = "ChangeHomeBridge",
             p = <<{Deploy(k)}, {Propose(k)}, Votes(k), {Start(k)}>>
      PROVE  Ordered(p, s, n)
  <2>1. k \in SchemeKeys \ FixedKeys /\ Written(s, n) = {} /\ s \notin Standing
    BY <1>3 DEF SchemeKeys, FixedKeys, Written, Standing
  <2>2. Belongs(s, n, Deploy(k)) /\ Belongs(s, n, Start(k))
    BY <1>3, <2>1, CallFields DEF Belongs, Ops, Standing
  <2> QED BY <1>3, <2>1, <2>2, OneScheme
<1>4. /\ Ordered(UpdateBridgeAndUBIRecipient(n), "updateBridgeAndUBIRecipient", n)
      /\ Ordered(UpdateAuthPeriod(n), "updateAuthPeriod", n)
      /\ Ordered(UpdateHomeBridge(n), "updateHomeBridge", n)
  BY <1>3, NothingOrdered DEF UpdateBridgeAndUBIRecipient, UpdateAuthPeriod, UpdateHomeBridge
<1> QED BY <1>1, <1>2, <1>4

LEMMA BridgesOrdered ==
  ASSUME NEW n \in [env : STRING, mainnet : BOOLEAN]
  PROVE  Ordered(DeployBridges(n), "bridges", n)
<1> DEFINE HasHome == \E env_ \in {"fuse", "staging", "production"} : Is(n, env_)
           k == IF HasHome THEN "HomeBridge" ELSE "ForeignBridge"
<1>1. CASE HasHome \/ n.mainnet
  <2>1. HasHome => ~n.mainnet /\ n.env \in {"fuse", "staging", "production"}
    BY DEF Is
  <2>2. k \in SchemeKeys \ FixedKeys /\ Written("bridges", n) = {k} /\ k \notin Proxies
    BY <1>1, <2>1 DEF SchemeKeys, FixedKeys, Written, Proxies
  <2>3. Belongs("bridges", n, Deploy(k)) /\ Belongs("bridges", n, Start(k))
    BY <2>2, CallFields DEF Belongs, Ops, Standing
  <2>4. DeployBridges(n) = <<{Deploy(k)}, {Propose(k)}, Votes(k), {Start(k)}, {Release}>>
    BY <1>1 DEF DeployBridges, DeployHomeBridge, DeployForeignBridge
  <2>5. k # "FundManager" /\ k # "UBIScheme"
    OBVIOUS
  <2> HIDE DEF k
  <2> QED BY <2>2, <2>3, <2>4, <2>5, OneScheme DEF Standing
<1>2. CASE ~HasHome /\ ~n.mainnet
  <2>1. DeployBridges(n) = <<{Release}>>
    BY <1>2 DEF DeployBridges
  <2>2. Written("bridges", n) = {}
    <3>1. n.env \notin {"fuse", "staging", "production"}
      BY <1>2 DEF Is
    <3> QED BY <1>2, <3>1 DEF Written
  <2>3. Belongs("bridges", n, Release) /\ Prepared(<<{Release}>>, "bridges", n, 1, Release)
    BY <2>2, CallFields DEF Belongs, Prepared, Complete, Ops
  <2>4. Once(<<{Release}>>)
    BY CallFields DEF Once, Twice
  <2> QED BY <2>1, <2>3, <2>4 DEF Ordered
<1> QED BY <1>1, <1>2

\* Outside production there is one founder, so the first one's votes are all.
LEMMA FirstVotes ==
  ASSUME Len(founders) \in Nat \ {0}, NEW k
  PROVE  /\ VotesOfFirst(k) \subseteq Votes(k)
         /\ Len(founders) = 1 => VotesOfFirst(k) = Votes(k)
<1>1. 1 \in 1..((Len(founders) + 1) \div 2)
  OBVIOUS
<1>2. founders[1] \in FirstHalf
  BY <1>1 DEF FirstHalf
<1>3. Len(founders) = 1 => FirstHalf = {founders[1]}
  <2> SUFFICES ASSUME Len(founders) = 1 PROVE FirstHalf = {founders[1]}
    OBVIOUS
  <2>1. (Len(founders) + 1) \div 2 = 1
    OBVIOUS
  <2>2. 1..((Len(founders) + 1) \div 2) = {1}
    BY <2>1
  <2> QED BY <2>2 DEF FirstHalf
<1> QED BY <1>2, <1>3 DEF VotesOfFirst, Votes

LEMMA CoreOrdered ==
  ASSUME NEW n, Len(founders) \in Nat \ {0}, n.env # "production" => Len(founders) = 1
  PROVE  Ordered(DeployNewUBI(n), "new_ubi", n) /\ Ordered(DeployNewSignup(n), "new_signup", n)
<1>1. Ordered(DeployNewUBI(n), "new_ubi", n)
  <2> DEFINE p == <<{Deploy("UBI")}, {Propose("UBI")}, VotesOfFirst("UBI"), {Release}>>
             s == "new_ubi"
  <2>1. VotesOfFirst("UBI") \subseteq Votes("UBI") /\ Len(p) = 4
    BY FirstVotes
  <2>2. Before(p, 3, Propose("UBI"))
    BY DEF Before
  <2>3. ASSUME NEW c \in Votes("UBI") PROVE Belongs(s, n, c) /\ Prepared(p, s, n, 3, c)
    BY <2>2, VoteFields DEF Belongs, Prepared, Ops, FixedKeys, Standing
  <2>4. /\ Belongs(s, n, Deploy("UBI")) /\ Belongs(s, n, Propose("UBI")) /\ Belongs(s, n, Release)
        /\ Prepared(p, s, n, 1, Deploy("UBI")) /\ Prepared(p, s, n, 2, Propose("UBI"))
        /\ Prepared(p, s, n, 4, Release)
    BY CallFields DEF Belongs, Prepared, Ops, Complete, Written, Proxies
  <2>5. ASSUME NEW i \in 1..Len(p), NEW c \in p[i]
        PROVE  \/ i = 1 /\ c = Deploy("UBI")
               \/ i = 2 /\ c = Propose("UBI")
               \/ i = 3 /\ c \in Votes("UBI")
               \/ i = 4 /\ c = Release
    BY <2>1
  <2>6. Once(p)
    <3>1. ASSUME NEW i \in 1..Len(p), NEW c \in p[i]
          PROVE  c.op = "vote" => (i = 3 /\ c \in Votes("UBI"))
      BY <2>5, CallFields
    <3>2. ASSUME NEW i \in 1..Len(p), NEW c \in p[i]
          PROVE  c.op \notin {"start", "give", "setup"}
      BY <2>5, CallFields, VoteFields
    <3> HIDE DEF p
    <3> QED BY <3>1, <3>2, VoteFields DEF Once, Twice
  <2>7. Ordered(p, s, n)
    <3>1. ASSUME NEW i \in 1..Len(p), NEW c \in p[i]
          PROVE  Belongs(s, n, c) /\ Prepared(p, s, n, i, c)
      <4> HIDE DEF p
      <4> QED BY <2>3, <2>4, <2>5
    <3> HIDE DEF p
    <3> QED BY <2>6, <3>1 DEF Ordered
  <2> QED BY <2>7, NothingOrdered DEF DeployNewUBI
<1>2. Ordered(DeployNewSignup(n), "new_signup", n)
  <2>1. CASE n.mainnet \/ n.env # "test"
    BY <2>1, NothingOrdered DEF DeployNewSignup
  <2>2. CASE ~(n.mainnet \/ n.env # "test")
    <3> DEFINE k == "SignupBonus"
               p == <<{Deploy(k)}, {Use("AdminWallet")}, {Propose(k)}, Votes(k), {Start(k)}, {Release}>>
               s == "new_signup"
    <3>1. VotesOfFirst(k) = Votes(k)
      BY <2>2, FirstVotes
    <3>2. DeployNewSignup(n) = p
      BY <2>2, <3>1 DEF DeployNewSignup
    <3>3. Before(p, 4, Propose(k)) /\ \A v \in Votes(k) : Before(p, 5, v)
      BY DEF Before
    <3>4. ASSUME NEW c \in Votes(k) PROVE Belongs(s, n, c) /\ Prepared(p, s, n, 4, c)
      BY <3>3, VoteFields DEF Belongs, Prepared, Ops, FixedKeys, Standing
    <3>5. /\ Belongs(s, n, Deploy(k)) /\ Belongs(s, n, Propose(k)) /\ Belongs(s, n, Release)
          /\ Belongs(s, n, Use("AdminWallet")) /\ Belongs(s, n, Start(k))
      BY CallFields DEF Belongs, Ops, Unguarded, SchemeKeys, FixedKeys, Standing
    <3>6. /\ Prepared(p, s, n, 1, Deploy(k)) /\ Prepared(p, s, n, 2, Use("AdminWallet"))
          /\ Prepared(p, s, n, 3, Propose(k)) /\ Prepared(p, s, n, 5, Start(k))
          /\ Prepared(p, s, n, 6, Release)
      BY <3>3, CallFields DEF Prepared, Complete, Written, Proxies
    <3>7. ASSUME NEW i \in 1..Len(p), NEW c \in p[i]
          PROVE  \/ i = 1 /\ c = Deploy(k)
                 \/ i = 2 /\ c = Use("AdminWallet")
                 \/ i = 3 /\ c = Propose(k)
                 \/ i = 4 /\ c \in Votes(k)
                 \/ i = 5 /\ c = Start(k)
                 \/ i = 6 /\ c = Release
      OBVIOUS
    <3> HIDE DEF p
    <3>8. Once(p)
      <4>1. ASSUME NEW i \in 1..Len(p), NEW c \in p[i]
            PROVE  /\ c.op = "vote" => i = 4 /\ c \in Votes(k)
                   /\ c.op = "start" => i = 5 /\ c = Start(k)
                   /\ c.op \notin {"give", "setup"}
        BY <3>7, CallFields, VoteFields
      <4> QED BY <4>1, VoteFields DEF Once, Twice
    <3> QED BY <3>2, <3>4, <3>5, <3>6, <3>7, <3>8 DEF Ordered
  <2> QED BY <2>1, <2>2
<1> QED BY <1>1, <1>2

LEMMA SidechainOrdered == ASSUME NEW n PROVE Ordered(SidechainUBI(n), "sidechain_ubi", n)
<1>1. CASE n.mainnet \/ n.env = "tdd"
  BY <1>1, NothingOrdered DEF SidechainUBI
<1>2. CASE ~(n.mainnet \/ n.env = "tdd")
  <2> DEFINE u == "UBIScheme"
             f == "FirstClaimPool"
             p == <<{Deploy(f)}, {Deploy(u)}, {Propose(u), Propose(f)}, Votes(u), Votes(f),
                    {Start(u), Start(f)}, {Release}>>
             s == "sidechain_ubi"
  <2>1. SidechainUBI(n) = p
    BY <1>2 DEF SidechainUBI
  <2>2. /\ Before(p, 4, Propose(u)) /\ Before(p, 5, Propose(f)) /\ Before(p, 6, Deploy(u))
        /\ \A v \in Votes(u) \cup Votes(f) : Before(p, 6, v)
        /\ Before(p, 7, Start(u))
    BY DEF Before
  <2>3. /\ \A c \in Votes(u) : Belongs(s, n, c) /\ Prepared(p, s, n, 4, c)
        /\ \A c \in Votes(f) : Belongs(s, n, c) /\ Prepared(p, s, n, 5, c)
    BY <2>2, VoteFields DEF Belongs, Prepared, Ops, FixedKeys, Standing
  <2>4. \A k \in {u, f} : Belongs(s, n, Deploy(k)) /\ Belongs(s, n, Propose(k)) /\ Belongs(s, n, Start(k))
    BY CallFields DEF Belongs, Ops, SchemeKeys, FixedKeys, Standing
  <2>5. /\ Prepared(p, s, n, 1, Deploy(f)) /\ Prepared(p, s, n, 2, Deploy(u))
        /\ Prepared(p, s, n, 3, Propose(u)) /\ Prepared(p, s, n, 3, Propose(f))
        /\ Prepared(p, s, n, 6, Start(u)) /\ Prepared(p, s, n, 6, Start(f))
        /\ Prepared(p, s, n, 7, Release) /\ Belongs(s, n, Release)
    BY <2>2, CallFields DEF Belongs, Ops, Prepared, Complete, Written, Proxies
  <2>6. ASSUME NEW i \in 1..Len(p), NEW c \in p[i]
        PROVE  \/ i = 1 /\ c = Deploy(f)
               \/ i = 2 /\ c = Deploy(u)
               \/ i = 3 /\ c \in {Propose(u), Propose(f)}
               \/ i = 4 /\ c \in Votes(u)
               \/ i = 5 /\ c \in Votes(f)
               \/ i = 6 /\ c \in {Start(u), Start(f)}
               \/ i = 7 /\ c = Release
    OBVIOUS
  <2> HIDE DEF p
  <2>7. Once(p)
    <3>1. ASSUME NEW i \in 1..Len(p), NEW c \in p[i]
          PROVE  /\ c.op = "vote" => (i = 4 /\ c \in Votes(u)) \/ (i = 5 /\ c \in Votes(f))
                 /\ c.op = "start" => i = 6 /\ c \in {Start(u), Start(f)}
                 /\ c.op \notin {"give", "setup"}
      BY <2>6, CallFields, VoteFields
    <3> QED BY <3>1, CallFields, VoteFields DEF Once, Twice
  <2>8. ASSUME NEW i \in 1..Len(p), NEW c \in p[i]
        PROVE  Belongs(s, n, c) /\ Prepared(p, s, n, i, c)
    BY <2>3, <2>4, <2>5, <2>6
  <2> QED BY <2>1, <2>7, <2>8 DEF Ordered
<1> QED BY <1>1, <1>2

LEMMA MainnetOrdered == ASSUME NEW n PROVE Ordered(Mainnet(n), "mainnet", n)
<1>1. CASE n.env = "tdd" \/ ~BothChains(n)
  BY <1>1, NothingOrdered DEF Mainnet
<1>2. CASE ~(n.env = "tdd" \/ ~BothChains(n))
  <2> DEFINE p == Mainnet(n)
             s == "mainnet"
             r == "Reserve"
             m == "FundManager"
             d == "DAIStaking"
             q == "FundManagerSetReserve"
             D == {"ForeignBridgeMock", "DAI", "cDAI", m, "Contribution", "MarketMaker", d, r, q}
  <2>1. /\ Len(p) = 16
        /\ p[5] = {SetUp("MarketMaker")} /\ p[6] = {Give("MarketMaker")}
        /\ p[7] = {Propose(r), Propose(m), Propose(d)}
        /\ p[8] = Votes(r) /\ p[9] = Votes(m) /\ p[10] = Votes(d)
        /\ p[11] = {Start(r), Start(m), Start(d)}
    BY <1>2 DEF Mainnet
  <2>2. /\ p[12] = {Deploy(q)} /\ p[13] = {Propose(q)} /\ p[14] = Votes(q) /\ p[15] = {Start(q)}
        /\ p[16] = {Release}
    BY <1>2 DEF Mainnet
  <2>3. \A i \in 1..4 : \A c \in p[i] : \E k \in D : c = Deploy(k)
    BY <1>2 DEF Mainnet
  <2> HIDE DEF p
  <2>4. ASSUME NEW i \in 1..Len(p), NEW c \in p[i]
        PROVE  \/ i \in {1, 2, 3, 4, 12} /\ \E k \in D : c = Deploy(k)
               \/ i = 5 /\ c = SetUp("MarketMaker")
               \/ i = 6 /\ c = Give("MarketMaker")
               \/ i \in {7, 13} /\ \E k \in {r, m, d, q} : c = Propose(k)
               \/ i = 8 /\ c \in Votes(r)
               \/ i = 9 /\ c \in Votes(m)
               \/ i = 10 /\ c \in Votes(d)
               \/ i = 11 /\ c \in {Start(r), Start(m), Start(d)}
               \/ i = 14 /\ c \in Votes(q)
               \/ i = 15 /\ c = Start(q)
               \/ i = 16 /\ c = Release
    <3>1. CASE i \in 1..4
      BY <2>3, <3>1
    <3>2. CASE i \in 5..8
      BY <2>1, <3>2
    <3>3. CASE i \in 9..11
      BY <2>1, <3>3
    <3>4. CASE i \in 12..16
      BY <2>2, <3>4
    <3> QED BY <2>1, <3>1, <3>2, <3>3, <3>4
  <2>5. /\ Before(p, 8, Propose(r)) /\ Before(p, 9, Propose(m)) /\ Before(p, 10, Propose(d))
        /\ \A v \in Votes(r) \cup Votes(m) \cup Votes(d) : Before(p, 11, v)
        /\ Before(p, 14, Propose(q)) /\ \A v \in Votes(q) : Before(p, 15, v)
        /\ Before(p, 16, Start(q))
    <3>1. /\ 7 \in 1..(8 - 1) /\ 7 \in 1..(9 - 1) /\ 7 \in 1..(10 - 1)
          /\ 8 \in 1..(11 - 1) /\ 9 \in 1..(11 - 1) /\ 10 \in 1..(11 - 1)
          /\ 13 \in 1..(14 - 1) /\ 14 \in 1..(15 - 1) /\ 15 \in 1..(16 - 1)
      OBVIOUS
    <3>2. Before(p, 8, Propose(r)) /\ Before(p, 9, Propose(m)) /\ Before(p, 10, Propose(d))
      BY <2>1, <3>1 DEF Before
    <3>3. \A v \in Votes(r) \cup Votes(m) \cup Votes(d) : Before(p, 11, v)
      BY <2>1, <3>1 DEF Before
    <3>4. Before(p, 14, Propose(q)) /\ (\A v \in Votes(q) : Before(p, 15, v))
          /\ Before(p, 16, Start(q))
      BY <2>2, <3>1 DEF Before
    <3> QED BY <3>2, <3>3, <3>4
  <2>6. \A k \in {r, m, d, q} : \A c \in Votes(k) : Belongs(s, n, c)
    BY VoteFields DEF Belongs, Ops, FixedKeys, Standing
  <2>7. /\ \A c \in Votes(r) : Prepared(p, s, n, 8, c)
        /\ \A c \in Votes(m) : Prepared(p, s, n, 9, c)
        /\ \A c \in Votes(d) : Prepared(p, s, n, 10, c)
        /\ \A c \in Votes(q) : Prepared(p, s, n, 14, c)
    BY <2>5, VoteFields DEF Prepared
  <2>8. /\ \A k \in D : Belongs(s, n, Deploy(k)) /\ \A i : Prepared(p, s, n, i, Deploy(k))
        /\ \A k : Belongs(s, n, Propose(k)) /\ \A i : Prepared(p, s, n, i, Propose(k))
    BY CallFields DEF Belongs, Ops, Prepared
  <2>9. \A k \in {r, m, d, q} : Belongs(s, n, Start(k))
    BY CallFields DEF Belongs, Ops, SchemeKeys, FixedKeys, Standing
  <2>10. /\ \A k \in {r, m, d} : Prepared(p, s, n, 11, Start(k))
         /\ Prepared(p, s, n, 15, Start(q))
    BY <2>5, CallFields DEF Prepared
  <2>11. /\ Belongs(s, n, Release) /\ Prepared(p, s, n, 16, Release)
         /\ Belongs(s, n, SetUp("MarketMaker")) /\ Prepared(p, s, n, 5, SetUp("MarketMaker"))
         /\ Belongs(s, n, Give("MarketMaker")) /\ Prepared(p, s, n, 6, Give("MarketMaker"))
    BY <2>5, CallFields DEF Belongs, Ops, Prepared, Complete, Written, Proxies
  <2>12. ASSUME NEW i \in 1..Len(p), NEW c \in p[i]
         PROVE  Belongs(s, n, c) /\ Prepared(p, s, n, i, c)
    <3> HIDE DEF r, m, d, q, s, D
    <3>1. CASE i \in {1, 2, 3, 4, 12} /\ \E k \in D : c = Deploy(k)
      BY <2>8, <3>1
    <3>2. CASE i \in {7, 13} /\ \E k \in {r, m, d, q} : c = Propose(k)
      BY <2>8, <3>2
    <3>3. CASE i \in {8, 9, 10, 14} /\ \/ i = 8 /\ c \in Votes(r)
                                       \/ i = 9 /\ c \in Votes(m)
                                       \/ i = 10 /\ c \in Votes(d)
                                       \/ i = 14 /\ c \in Votes(q)
      BY <2>6, <2>7, <3>3
    <3>4. CASE (i = 11 /\ c \in {Start(r), Start(m), Start(d)}) \/ (i = 15 /\ c = Start(q))
      BY <2>9, <2>10, <3>4
    <3>5. CASE \/ i = 5 /\ c = SetUp("MarketMaker")
               \/ i = 6 /\ c = Give("MarketMaker")
               \/ i = 16 /\ c = Release
      BY <2>11, <3>5
    <3> QED BY <2>4, <3>1, <3>2, <3>3, <3>4, <3>5
  <2>13. Once(p)
    <3>1. ASSUME NEW i \in 1..Len(p), NEW c \in p[i]
          PROVE  /\ c.op = "vote" => \/ i = 8 /\ c \in Votes(r)
                                     \/ i = 9 /\ c \in Votes(m)
                                     \/ i = 10 /\ c \in Votes(d)
                                     \/ i = 14 /\ c \in Votes(q)
                 /\ c.op = "start" => \/ i = 11 /\ c \in {Start(r), Start(m), Start(d)}
                                      \/ i = 15 /\ c = Start(q)
                 /\ c.op = "give" => i = 6 /\ c = Give("MarketMaker")
                 /\ c.op = "setup" => i = 5
      BY <2>4, CallFields, VoteFields
    <3>2. ASSUME NEW i \in 1..Len(p), NEW j \in 1..Len(p), NEW c \in p[i], NEW e \in p[j],
                 c.op = "vote", e.op = "vote", e.key = c.key, e.by = c.by
          PROVE  i = j /\ e = c
      BY <3>1, <3>2, VoteFields
    <3>3. ASSUME NEW i \in 1..Len(p), NEW j \in 1..Len(p), NEW c \in p[i], NEW e \in p[j],
                 c.op = "start", e.op = "start", e.key = c.key
          PROVE  i = j /\ e = c
      BY <3>1, <3>3, CallFields
    <3> QED BY <3>1, <3>2, <3>3 DEF Once, Twice
  <2> QED BY <2>12, <2>13 DEF Ordered, p
<1> QED BY <1>1, <1>2

\* Calls of released contracts: nothing is asked of the DAO.
LEMMA UsesOrdered ==
  ASSUME NEW p, NEW s, NEW n, NEW K, K \subseteq Unguarded \cup (Guarded \cap Reads(s, n)),
         \A i \in 1..Len(p) : \A c \in p[i] : \E k \in K : c = Use(k)
  PROVE  Ordered(p, s, n)
<1>1. ASSUME NEW i \in 1..Len(p), NEW c \in p[i]
      PROVE  c.op = "use" /\ c.key \in K
  BY CallFields
<1>2. ASSUME NEW i \in 1..Len(p), NEW c \in p[i]
      PROVE  Belongs(s, n, c) /\ Prepared(p, s, n, i, c)
  BY <1>1 DEF Belongs, Ops, Prepared
<1>3. Once(p)
  BY <1>1 DEF Once, Twice
<1> QED BY <1>2, <1>3 DEF Ordered

LEMMA DevOrdered ==
  ASSUME NEW n \in [env : STRING, mainnet : BOOLEAN]
  PROVE  Ordered(DeployDev(n), "dev", n)
<1> DEFINE KH == {"GoodDollar", "UBIScheme", "FirstClaimPool"}
           KM == {"DAI", "cDAI", "DAIStaking", "Reserve"}
           U(K) == SUBSET {Use(k) : k \in K}
<1>1. ASSUME NEW K, KH \subseteq K PROVE FundHome \in Seq(U(K))
  <2>1. /\ {Use("GoodDollar")} \in U(K)
        /\ {Use("UBIScheme"), Use("FirstClaimPool")} \in U(K)
    BY <1>1
  <2> HIDE DEF U
  <2>2. \A a, b \in U(K) : <<a, b>> \in Seq(U(K))
    OBVIOUS
  <2> QED BY <2>1, <2>2, Zenon DEF FundHome
<1>2. ASSUME NEW K, KM \subseteq K PROVE FundMain \in Seq(U(K))
  <2>1. /\ {Use("DAI")} \in U(K) /\ {Use("DAI"), Use("cDAI")} \in U(K)
        /\ {Use("DAIStaking"), Use("cDAI")} \in U(K) /\ {Use("Reserve")} \in U(K)
    BY <1>2
  <2> HIDE DEF U
  <2>2. \A a, b, c, d, e \in U(K) : <<a, b, c, d, e>> \in Seq(U(K))
    OBVIOUS
  <2> QED BY <2>1, <2>2, Zenon DEF FundMain
<1>3. ASSUME NEW K, NEW p \in Seq(U(K)),
             K \subseteq Unguarded \cup (Guarded \cap Reads("dev", n))
      PROVE  Ordered(p, "dev", n)
  <2>1. \A i \in 1..Len(p) : p[i] \in U(K)
    BY <1>3, ElementOfSeq
  <2>2. \A i \in 1..Len(p) : \A c \in p[i] : \E k \in K : c = Use(k)
    BY <2>1
  <2> QED BY <1>3, <2>2, UsesOrdered
<1>4. CASE n.env \in {"tdd", "production", "test"}
  BY <1>4, NothingOrdered DEF DeployDev
<1>5. CASE n.env \notin {"tdd", "production", "test"} /\ n.mainnet
  <2>1. ~Is(n, "develop") /\ Reads("dev", n) = {"DAIStaking", "Reserve"}
    BY <1>5 DEF Is, Reads
  <2>2. KM \subseteq Unguarded \cup (Guarded \cap Reads("dev", n))
    BY <2>1 DEF Unguarded, Guarded
  <2>3. DeployDev(n) = << >> \o FundMain
    BY <1>5 DEF DeployDev
  <2>4. << >> \o FundMain = FundMain
    BY <1>2, ConcatEmptySeq
  <2> QED BY <1>2, <1>3, <2>2, <2>3, <2>4
<1>6. CASE n.env \notin {"tdd", "production", "test"} /\ Is(n, "develop")
  <2>1. ~n.mainnet /\ Reads("dev", n) = {"UBIScheme", "FirstClaimPool", "DAIStaking", "Reserve"}
    BY <1>6 DEF Is, Reads
  <2>2. KH \cup KM \subseteq Unguarded \cup (Guarded \cap Reads("dev", n))
    BY <2>1 DEF Unguarded, Guarded
  <2>3. DeployDev(n) = FundHome \o FundMain
    BY <1>6, <2>1 DEF DeployDev
  <2>5. FundHome \in Seq(U(KH \cup KM)) /\ FundMain \in Seq(U(KH \cup KM))
    <3> HIDE DEF U, KH, KM
    <3> QED BY <1>1, <1>2
  <2>6. FundHome \o FundMain \in Seq(U(KH \cup KM))
    <3> HIDE DEF U, KH, KM
    <3> QED BY <2>5, ConcatProperties
  <2>7. Ordered(FundHome \o FundMain, "dev", n)
    <3> HIDE DEF U, KH, KM
    <3> QED BY <1>3, <2>2, <2>6, Zenon
  <2> QED BY <2>3, <2>7, Zenon
<1>7. CASE n.env \notin {"tdd", "production", "test"} /\ ~n.mainnet /\ ~Is(n, "develop")
  <2>1. Reads("dev", n) = {"UBIScheme", "FirstClaimPool"}
    BY <1>7 DEF Reads
  <2>2. KH \subseteq Unguarded \cup (Guarded \cap Reads("dev", n))
    BY <2>1 DEF Unguarded, Guarded
  <2>3. DeployDev(n) = FundHome \o << >>
    BY <1>7 DEF DeployDev
  <2>4. FundHome \o << >> = FundHome
    BY <1>1, ConcatEmptySeq
  <2> QED BY <1>1, <1>3, <2>2, <2>3, <2>4
<1> QED BY <1>4, <1>5, <1>6, <1>7

LEMMA InterestOrdered ==
  ASSUME NEW n
  PROVE  /\ Ordered(CollectInterest(n), "collect_interest", n)
         /\ Ordered(FakeInterest(n), "fake_interest", n)
<1>1. Ordered(<<{Use("DAIStaking")}, {Use("FundManager")}>>, "collect_interest", n)
  <2>1. {"DAIStaking", "FundManager"} \subseteq Guarded \cap Reads("collect_interest", n)
    BY DEF Guarded, Reads
  <2> DEFINE p == <<{Use("DAIStaking")}, {Use("FundManager")}>>
  <2>2. \A i \in 1..Len(p) : \A c \in p[i] : \E k \in {"DAIStaking", "FundManager"} : c = Use(k)
    OBVIOUS
  <2> QED BY <2>1, <2>2, UsesOrdered
<1>2. Ordered(<<{Use("DAI")}, {Use("DAI")}, {Use("cDAI")}, {Use("DAIStaking")}>>, "fake_interest", n)
  <2>1. {"DAI", "cDAI", "DAIStaking"} \subseteq Unguarded \cup (Guarded \cap Reads("fake_interest", n))
    BY DEF Unguarded, Guarded, Reads
  <2> DEFINE p == <<{Use("DAI")}, {Use("DAI")}, {Use("cDAI")}, {Use("DAIStaking")}>>
  <2>2. ASSUME NEW i \in 1..Len(p), NEW c \in p[i]
        PROVE  c = Use("DAI") \/ c = Use("cDAI") \/ c = Use("DAIStaking")
    OBVIOUS
  <2> HIDE DEF p
  <2>3. Ordered(p, "fake_interest", n)
    BY <2>1, <2>2, UsesOrdered
  <2> QED BY <2>3 DEF p
<1> QED BY <1>1, <1>2, NothingOrdered DEF CollectInterest, FakeInterest

LEMMA ThrowingOrdered ==
  ASSUME NEW n
  PROVE  Ordered(UpdateUBICyclePeriod(n), "updateUBICyclePeriod", n)
<1> DEFINE k == "ChangeUBICyclePeriod"
           s == "updateUBICyclePeriod"
           p == <<{Deploy(k)}, {Throw}, {Propose(k)}, Votes(k), {Start(k)}>>
<1>1. Before(p, 4, Propose(k)) /\ \A v \in Votes(k) : Before(p, 5, v)
  BY DEF Before
<1>2. \A c \in Votes(k) : Belongs(s, n, c) /\ Prepared(p, s, n, 4, c)
  BY <1>1, VoteFields DEF Belongs, Prepared, Ops, FixedKeys, Standing
<1>3. /\ Belongs(s, n, Deploy(k)) /\ Belongs(s, n, Throw) /\ Belongs(s, n, Propose(k))
      /\ Belongs(s, n, Start(k))
  BY CallFields DEF Belongs, Ops, SchemeKeys, FixedKeys, Standing
<1>4. /\ Prepared(p, s, n, 1, Deploy(k)) /\ Prepared(p, s, n, 2, Throw)
      /\ Prepared(p, s, n, 3, Propose(k)) /\ Prepared(p, s, n, 5, Start(k))
  BY <1>1, CallFields DEF Prepared
<1>5. ASSUME NEW i \in 1..Len(p), NEW c \in p[i]
      PROVE  \/ i = 1 /\ c = Deploy(k)
             \/ i = 2 /\ c = Throw
             \/ i = 3 /\ c = Propose(k)
             \/ i = 4 /\ c \in Votes(k)
             \/ i = 5 /\ c = Start(k)
  OBVIOUS
<1>8. UpdateUBICyclePeriod(n) = IF n.mainnet THEN Nothing ELSE p
  BY DEF UpdateUBICyclePeriod
<1> HIDE DEF p
<1>6. Once(p)
  <2>1. ASSUME NEW i \in 1..Len(p), NEW c \in p[i]
        PROVE  /\ c.op = "vote" => i = 4 /\ c \in Votes(k)
               /\ c.op = "start" => i = 5 /\ c = Start(k)
               /\ c.op \notin {"give", "setup"}
    BY <1>5, CallFields, VoteFields
  <2> QED BY <2>1, VoteFields DEF Once, Twice
<1>7. Ordered(p, s, n)
  BY <1>2, <1>3, <1>4, <1>5, <1>6 DEF Ordered
<1> QED BY <1>7, <1>8, NothingOrdered

LEMMA StandingOrdered ==
  ASSUME NEW n
  PROVE  Ordered(MintMoreRep, "mint_rep", n) /\ Ordered(UpgradeScheme(n), "upgradeScheme", n)
<1>1. ASSUME NEW s \in Standing, NEW k \in FixedKeys, NEW V, NEW p, p = <<V, {Start(k)}>>,
             \A c \in V : c.op = "vote" /\ c.key = k,
             \A c, d \in V : c.by = d.by => c = d
      PROVE  Ordered(p, s, n)
  <2>1. k \in SchemeKeys /\ k \notin {"UBIScheme", "ChangeHomeBridge", "FundManagerSetUBIAndBridge",
                                      "DonationsUpgrade", "InvitesUpgrade"}
    BY DEF FixedKeys, SchemeKeys
  <2>2. ASSUME NEW i \in 1..Len(p), NEW c \in p[i]
        PROVE  (i = 1 /\ c \in V) \/ (i = 2 /\ c = Start(k))
    BY <1>1
  <2>3. Belongs(s, n, Start(k)) /\ \A i : Prepared(p, s, n, i, Start(k))
    BY <2>1, CallFields DEF Belongs, Ops, Prepared
  <2>4. \A c \in V : Belongs(s, n, c) /\ Prepared(p, s, n, 1, c)
    BY <1>1 DEF Belongs, Ops, Prepared
  <2>5. Once(p)
    BY <1>1, <2>2, CallFields DEF Once, Twice
  <2> QED BY <2>2, <2>3, <2>4, <2>5 DEF Ordered
<1>2. Ordered(MintMoreRep, "mint_rep", n)
  <2>1. \A c \in VotesOfFirst("ReputationMintOnce") : c.op = "vote" /\ c.key = "ReputationMintOnce"
    BY DEF VotesOfFirst, Vote, Call
  <2>2. \A c, d \in VotesOfFirst("ReputationMintOnce") : c = d
    BY DEF VotesOfFirst
  <2> QED BY <1>1, <2>1, <2>2 DEF MintMoreRep, Standing, FixedKeys
<1>3. Ordered(UpgradeScheme(n), "upgradeScheme", n)
  <2> DEFINE k == "UpgradeImplSchemeV2"
  <2>1. \A c \in VotesOfRest(n, k) : c.op = "vote" /\ c.key = k
    BY DEF VotesOfRest, Vote, Call
  <2>2. \A c, d \in VotesOfRest(n, k) : c.by = d.by => c = d
    BY DEF VotesOfRest, Vote, Call
  <2> QED BY <1>1, <2>1, <2>2 DEF UpgradeScheme, Standing, FixedKeys
<1> QED BY <1>2, <1>3

LEMMA ProxiesOrdered ==
  ASSUME NEW n
  PROVE  Ordered(Donations(n), "donations", n) /\ Ordered(Invites(n), "invites", n)
<1>1. ASSUME NEW s, NEW k, \/ s = "donations" /\ k = "DonationsStaking"
                           \/ s = "invites" /\ k = "Invites"
      PROVE  Ordered(NewProxy(k), s, n)
  <2> DEFINE p == NewProxy(k)
  <2>1. k \in Proxies /\ Written(s, n) = {k}
    BY <1>1 DEF Proxies, Written
  <2>2. Before(p, 2, Deploy(k)) /\ Before(p, 3, Deploy(k)) /\ Before(p, 3, Handover)
    BY DEF Before, NewProxy
  <2>3. Belongs(s, n, Deploy(k)) /\ Belongs(s, n, Handover) /\ Belongs(s, n, Release)
    BY <1>1, CallFields DEF Belongs, Ops
  <2>4. /\ Prepared(p, s, n, 1, Deploy(k)) /\ Prepared(p, s, n, 2, Handover)
        /\ Prepared(p, s, n, 3, Release)
    <3>1. Complete(p, s, n, 3)
      BY <1>1, <2>1, <2>2 DEF Complete
    <3> HIDE DEF p
    <3> QED BY <2>1, <2>2, <3>1, CallFields DEF Prepared
  <2>5. ASSUME NEW i \in 1..Len(p), NEW c \in p[i]
        PROVE  (i = 1 /\ c = Deploy(k)) \/ (i = 2 /\ c = Handover) \/ (i = 3 /\ c = Release)
    BY DEF NewProxy
  <2> HIDE DEF p
  <2>6. Once(p)
    BY <2>5, CallFields DEF Once, Twice
  <2>7. Ordered(p, s, n)
    BY <2>3, <2>4, <2>5, <2>6 DEF Ordered
  <2> QED BY <2>7 DEF p
<1>2. Ordered(NewProxy("DonationsStaking"), "donations", n) /\ Ordered(NewProxy("Invites"), "invites", n)
  BY <1>1
<1> QED BY <1>2, NothingOrdered DEF Donations, Invites

LEMMA UpgradesOrdered ==
  ASSUME NEW n
  PROVE  /\ Ordered(DonationsUpgrade(n), "donations_upgrade", n)
         /\ Ordered(InvitesUpgrade(n), "invites_upgrade", n)
<1>1. ASSUME NEW s, NEW k, NEW impl,
             \/ s = "donations_upgrade" /\ k = "DonationsUpgrade" /\ impl = "DonationsImpl"
             \/ s = "invites_upgrade" /\ k = "InvitesUpgrade" /\ impl = "InvitesImpl"
      PROVE  Ordered(UpgradeByDAO(impl, k), s, n)
  <2> DEFINE p == UpgradeByDAO(impl, k)
  <2>1. Len(p) = 5 /\ p[1] = {Deploy(impl)} /\ p[2] = {Deploy(k)} /\ p[3] = {Propose(k)}
        /\ p[4] = Votes(k) /\ p[5] = {Start(k)}
    BY DEF UpgradeByDAO, DeployUpgrade, ProposeUpgrade, VoteUpgrade
  <2> HIDE DEF p
  <2>2. Before(p, 4, Propose(k)) /\ \A v \in Votes(k) : Before(p, 5, v)
    BY <2>1 DEF Before
  <2>3. \A c \in Votes(k) : Belongs(s, n, c) /\ Prepared(p, s, n, 4, c)
    BY <1>1, <2>2, VoteFields DEF Belongs, Prepared, Ops, FixedKeys, Standing
  <2>4. /\ Belongs(s, n, Deploy(impl)) /\ Belongs(s, n, Deploy(k)) /\ Belongs(s, n, Propose(k))
        /\ Belongs(s, n, Start(k))
    BY <1>1, CallFields DEF Belongs, Ops, SchemeKeys, FixedKeys, Standing
  <2>5. /\ Prepared(p, s, n, 1, Deploy(impl)) /\ Prepared(p, s, n, 2, Deploy(k))
        /\ Prepared(p, s, n, 3, Propose(k)) /\ Prepared(p, s, n, 5, Start(k))
    BY <1>1, <2>2, CallFields DEF Prepared
  <2>6. ASSUME NEW i \in 1..Len(p), NEW c \in p[i]
        PROVE  \/ i = 1 /\ c = Deploy(impl)
               \/ i = 2 /\ c = Deploy(k)
               \/ i = 3 /\ c = Propose(k)
               \/ i = 4 /\ c \in Votes(k)
               \/ i = 5 /\ c = Start(k)
    BY <2>1
  <2>7. Once(p)
    <3>1. ASSUME NEW i \in 1..Len(p), NEW c \in p[i]
          PROVE  /\ c.op = "vote" => i = 4 /\ c \in Votes(k)
                 /\ c.op = "start" => i = 5 /\ c = Start(k)
                 /\ c.op \notin {"give", "setup"}
      BY <2>6, CallFields, VoteFields
    <3> QED BY <3>1, VoteFields DEF Once, Twice
  <2>8. Ordered(p, s, n)
    BY <2>3, <2>4, <2>5, <2>6, <2>7 DEF Ordered
  <2> QED BY <2>8 DEF p
<1>2. /\ Ordered(UpgradeByDAO("DonationsImpl", "DonationsUpgrade"), "donations_upgrade", n)
      /\ Ordered(UpgradeByDAO("InvitesImpl", "InvitesUpgrade"), "invites_upgrade", n)
  BY <1>1
<1> QED BY <1>2, NothingOrdered DEF DonationsUpgrade, InvitesUpgrade

LEMMA FuseOrdered ==
  ASSUME NEW n
  PROVE  /\ Ordered(DeployFuseFaucet, "fuse_faucet", n)
         /\ Ordered(DeployFuseStaking, "fuse_staking", n)
         /\ Ordered(UpgradeFuseStaking, "fuse_staking_upgrade", n)
<1>1. Ordered(DeployFuseFaucet, "fuse_faucet", n)
  <2> DEFINE p == DeployFuseFaucet
  <2>1. ASSUME NEW i \in 1..Len(p), NEW c \in p[i]
        PROVE  (i = 1 /\ c = Deploy("FuseFaucet")) \/ (i = 2 /\ c = Release)
    BY DEF DeployFuseFaucet
  <2>2. /\ Belongs("fuse_faucet", n, Deploy("FuseFaucet")) /\ Belongs("fuse_faucet", n, Release)
        /\ Prepared(p, "fuse_faucet", n, 1, Deploy("FuseFaucet"))
        /\ Prepared(p, "fuse_faucet", n, 2, Release)
    BY CallFields DEF Belongs, Ops, Prepared, Complete, Written, Proxies
  <2>3. Once(p)
    BY <2>1, CallFields DEF Once, Twice
  <2> QED BY <2>1, <2>2, <2>3 DEF Ordered
<1>2. Ordered(DeployFuseStaking, "fuse_staking", n)
  <2> DEFINE p == DeployFuseStaking
             k == "FuseStaking"
  <2>1. ASSUME NEW i \in 1..Len(p), NEW c \in p[i]
        PROVE  (i = 1 /\ c = Deploy(k)) \/ (i = 2 /\ c = Release) \/ (i = 2 /\ c = SetUp(k))
    BY DEF DeployFuseStaking
  <2>2. Before(p, 2, Deploy(k))
    BY DEF Before, DeployFuseStaking
  <2>3. Complete(p, "fuse_staking", n, 2)
    BY <2>2 DEF Complete, Written
  <2>4. /\ Belongs("fuse_staking", n, Deploy(k)) /\ Belongs("fuse_staking", n, Release)
        /\ Belongs("fuse_staking", n, SetUp(k))
        /\ Prepared(p, "fuse_staking", n, 1, Deploy(k))
        /\ Prepared(p, "fuse_staking", n, 2, Release)
        /\ Prepared(p, "fuse_staking", n, 2, SetUp(k))
    BY <2>3, CallFields DEF Belongs, Ops, Prepared
  <2> HIDE DEF p
  <2>5. Once(p)
    BY <2>1, CallFields DEF Once, Twice
  <2>6. Ordered(p, "fuse_staking", n)
    BY <2>1, <2>4, <2>5 DEF Ordered
  <2> QED BY <2>6 DEF p
<1>3. Ordered(UpgradeFuseStaking, "fuse_staking_upgrade", n)
  <2> DEFINE p == UpgradeFuseStaking
             k == "FuseStaking"
             s == "fuse_staking_upgrade"
  <2>1. ASSUME NEW i \in 1..Len(p), NEW c \in p[i]
        PROVE  c = Deploy("FuseStakingImpl") \/ c = Upgrade(k) \/ c = Use(k)
    BY DEF UpgradeFuseStaking
  <2>2. Belongs(s, n, Deploy("FuseStakingImpl")) /\ Belongs(s, n, Upgrade(k)) /\ Belongs(s, n, Use(k))
    BY CallFields DEF Belongs, Ops, Unguarded
  <2>3. \A i : /\ Prepared(p, s, n, i, Deploy("FuseStakingImpl")) /\ Prepared(p, s, n, i, Upgrade(k))
               /\ Prepared(p, s, n, i, Use(k))
    BY CallFields DEF Prepared
  <2> HIDE DEF p
  <2>4. Once(p)
    BY <2>1, CallFields DEF Once, Twice
  <2>5. Ordered(p, s, n)
    BY <2>1, <2>2, <2>3, <2>4 DEF Ordered
  <2> QED BY <2>5 DEF p
<1> QED BY <1>1, <1>2, <1>3

\* Every script does its work in order: what a call relies on is done in an
\* earlier batch, and nothing is done twice.
LEMMA AllOrdered ==
  ASSUME NEW s \in Scripts, NEW n \in [env : STRING, mainnet : BOOLEAN],
         Len(founders) \in Nat \ {0}, n.env # "production" => Len(founders) = 1
  PROVE  Ordered(Program(s, n), s, n)
<1>1. CASE s \in {"new_ubi", "new_signup", "new_otp", "bridges"}
  BY <1>1, ProgramOf, CoreOrdered, OneSchemeScripts, BridgesOrdered
<1>2. CASE s \in {"mint_rep", "upgradeScheme", "mainnet", "dev"}
  BY <1>2, ProgramOf, StandingOrdered, MainnetOrdered, DevOrdered
<1>3. CASE s \in {"sidechain_ubi", "upgradeUBIScheme", "updateBridgeAndUBIRecipient",
                  "updateAuthPeriod", "updateHomeBridge"}
  BY <1>3, ProgramOf, SidechainOrdered, OneSchemeScripts
<1>4. CASE s \in {"updateUBICyclePeriod", "collect_interest", "fake_interest"}
  BY <1>4, ProgramOf, ThrowingOrdered, InterestOrdered
<1>5. CASE s \in {"donations", "donations_upgrade", "invites", "invites_upgrade",
                  "fuse_faucet", "fuse_staking", "fuse_staking_upgrade"}
  BY <1>5, ProgramOf, ProxiesOrdered, UpgradesOrdered, FuseOrdered
<1> QED BY <1>1, <1>2, <1>3, <1>4, <1>5 DEF Scripts

-----------------------------------------------------------------------------
(* Heads.                                                                   *)

\* Every founder counts once, and the first half is half of them, rounded up.
LEMMA VoterFacts ==
  ASSUME TypeOK
  PROVE  /\ IsFiniteSet(Voters) /\ Cardinality(Voters) \in Nat
         /\ FirstHalf \subseteq Voters
         /\ 2 * Cardinality(FirstHalf) <= Cardinality(Voters) + 1
         /\ Len(founders) \in Nat \ {0}
         /\ env # "production" => Len(founders) = 1
<1>1. /\ Len(founders) \in Nat \ {0}
      /\ \A i, j \in 1..Len(founders) : founders[i] = founders[j] => i = j
      /\ env # "production" => Len(founders) = 1
  <2>1. CASE env = "production"
    <3>1. founders \in Keystores
      BY <2>1 DEF TypeOK, FounderLists
    <3>2. founders \in Seq(STRING) /\ Len(founders) > 0
      BY <3>1, KeystoresAssumption
    <3>3. Len(founders) \in Nat \ {0}
      BY <3>2
    <3>4. \A i, j \in 1..Len(founders) : founders[i] = founders[j] => i = j
      BY <3>1, KeystoresAssumption, Zenon
    <3>5. env # "production" => Len(founders) = 1
      BY <2>1
    <3> QED BY <3>3, <3>4, <3>5, Zenon
  <2>2. CASE env # "production"
    <3>1. founders = <<"account1">>
      BY <2>2 DEF TypeOK, FounderLists
    <3>2. Len(<<"account1">>) = 1
      OBVIOUS
    <3>3. Len(founders) = 1
      BY <3>1, <3>2, Zenon
    <3>4. \A i, j \in 1..Len(founders) : i = j
      BY <3>3
    <3> QED BY <3>3, <3>4
  <2> QED BY <2>1, <2>2
<1> DEFINE L == Len(founders)
           h == (L + 1) \div 2
<1>2. L \in Nat /\ h \in Nat /\ h <= L /\ 2 * h <= L + 1
  BY <1>1
<1>3. ASSUME NEW m \in Nat, m <= L
      PROVE  /\ IsFiniteSet({founders[i] : i \in 1..m})
             /\ Cardinality({founders[i] : i \in 1..m}) = m
  <2> DEFINE S == {founders[i] : i \in 1..m}
             g == [i \in 1..m |-> founders[i]]
  <2>1. g \in [1..m -> S]
    OBVIOUS
  <2>2. \A i, j \in 1..m : g[i] = g[j] => i = j
    <3>1. 1..m \subseteq 1..L
      BY <1>2, <1>3
    <3> QED BY <1>1, <3>1
  <2>3. \A x \in S : \E i \in 1..m : g[i] = x
    OBVIOUS
  <2>4. ExistsBijection(1..m, S)
    <3> HIDE DEF g, S
    <3>1. g \in Bijection(1..m, S)
      BY <2>1, <2>2, <2>3 DEF Bijection, Injection, Surjection, IsInjective
    <3> QED BY <3>1 DEF ExistsBijection
  <2>5. IsFiniteSet(1..m) /\ Cardinality(1..m) = m
    BY <1>3, FS_Interval
  <2> HIDE DEF S
  <2>6. IsFiniteSet(S) /\ Cardinality(S) = m
    BY <2>4, <2>5, FS_Bijection
  <2> QED BY <2>6 DEF S
<1>4. IsFiniteSet(Voters) /\ Cardinality(Voters) = L
  <2>1. L \in Nat /\ L <= L
    BY <1>2
  <2>2. IsFiniteSet({founders[i] : i \in 1..L}) /\ Cardinality({founders[i] : i \in 1..L}) = L
    BY <1>3, <2>1, Zenon
  <2> QED BY <2>2, Zenon DEF Voters
<1>5. Cardinality(FirstHalf) = h
  BY <1>2, <1>3 DEF FirstHalf
<1>6. FirstHalf \subseteq Voters
  <2>1. 1..h \subseteq 1..L
    BY <1>2
  <2> QED BY <2>1 DEF FirstHalf, Voters
<1> QED BY <1>1, <1>2, <1>4, <1>5, <1>6

\* Nobody's votes carry nothing; the votes of the first half carry what they
\* are a majority for; and without one of them they never do.
LEMMA HeadFacts ==
  ASSUME TypeOK, NEW c, NEW b
  PROVE  /\ (\A f : <<c, f>> \notin b) => ~Carries(c, b)
         /\ (\A f \in FirstHalf : <<c, f>> \in b)
              /\ 2 * Cardinality(FirstHalf) > Cardinality(Voters) => Carries(c, b)
         /\ \A f \in FirstHalf :
              (\A g : <<c, g>> \in b => g \in FirstHalf \ {f}) => ~Carries(c, b)
<1> DEFINE H == {f \in Voters : <<c, f>> \in b}
<1>1. /\ IsFiniteSet(H) /\ Cardinality(H) \in Nat
      /\ IsFiniteSet(FirstHalf) /\ Cardinality(FirstHalf) \in Nat
      /\ Cardinality(Voters) \in Nat
  <2>1. H \subseteq Voters
    OBVIOUS
  <2> HIDE DEF H
  <2> QED BY <2>1, VoterFacts, FS_Subset, FS_CardinalityType
<1>2. Carries(c, b) <=> 2 * Cardinality(H) > Cardinality(Voters)
  BY DEF Carries
<1>3. (\A f : <<c, f>> \notin b) => ~Carries(c, b)
  <2> SUFFICES ASSUME \A f : <<c, f>> \notin b PROVE ~Carries(c, b)
    OBVIOUS
  <2>1. H = {}
    OBVIOUS
  <2>2. Cardinality(H) = 0
    <3> HIDE DEF H
    <3> QED BY <2>1, FS_EmptySet
  <2> HIDE DEF H
  <2> QED BY <1>1, <1>2, <2>2
<1>4. ASSUME \A f \in FirstHalf : <<c, f>> \in b,
             2 * Cardinality(FirstHalf) > Cardinality(Voters)
      PROVE  Carries(c, b)
  <2>1. FirstHalf \subseteq H
    BY <1>4, VoterFacts
  <2> HIDE DEF H
  <2>2. Cardinality(FirstHalf) <= Cardinality(H)
    BY <1>1, <2>1, FS_Subset
  <2> QED BY <1>1, <1>2, <1>4, <2>2
<1>5. ASSUME NEW f \in FirstHalf, \A g : <<c, g>> \in b => g \in FirstHalf \ {f}
      PROVE  ~Carries(c, b)
  <2>1. H \subseteq FirstHalf \ {f}
    BY <1>5
  <2> HIDE DEF H
  <2>2. IsFiniteSet(FirstHalf \ {f}) /\ Cardinality(FirstHalf \ {f}) = Cardinality(FirstHalf) - 1
    BY <1>1, FS_RemoveElement
  <2>3. Cardinality(H) <= Cardinality(FirstHalf) - 1
    BY <1>1, <2>1, <2>2, FS_Subset
  <2>4. 2 * Cardinality(FirstHalf) <= Cardinality(Voters) + 1
    BY VoterFacts
  <2> QED BY <1>1, <1>2, <2>3, <2>4
<1> QED BY <1>3, <1>4, <1>5

-----------------------------------------------------------------------------
(* What the answered calls of the running script have achieved, and what    *)
(* the votes, the contracts and the files agree on.                         *)

Work == Program(script, net)
Lossy == \E l \in lost : l[1] = run
HomeUBI == file[Home(net)]["UBIScheme"]
Answered(i, c) == i < pc \/ (i = pc /\ c \notin sent)

\* For the DAO; a vote may have been lost.
AchievedDAO(c) ==
  /\ c.op \in {"start", "give"} => Instance(c.key) \in live
  /\ c.op = "propose" => Instance(c.key) \in proposed
  /\ c.op = "vote" =>
       Instance(c.key) \in registered \/ <<Instance(c.key), c.by>> \in ballots \/ Lossy

\* Between the contracts.
AchievedWiring(c) ==
  /\ c.op = "deploy" =>
       /\ c.key \in Proxies => proxyOwner[net] # "none"
       /\ c.key = "UBIScheme" => poolOf[run] = PoolFor
       /\ c.key = "FundManager" => fmRecipient[run] = HomeUBI
  /\ c.op = "start" =>
       /\ c.key = "UBIScheme" => PoolFor \in Runs /\ poolUbi[PoolFor] = run
       /\ c.key = "FundManagerSetReserve" => fmReserve[run] = run
       /\ c.key = "FundManagerSetUBIAndBridge" => fmRecipient[file[net]["FundManager"]] = HomeUBI

\* For those who read the file, or upgrade its proxies.
AchievedFile(c) ==
  /\ c.op = "handover" => proxyOwner[net] = "avatar" \/ <<run, "handover">> \in lost
  /\ c.op = "release" => \A k \in Written(script, net) : file[net][k] = run

Achieved(c) == AchievedDAO(c) /\ AchievedWiring(c) /\ AchievedFile(c)

\* Nothing has anticipated a call that is not answered yet.
Untouched(c) ==
  /\ c.op \in {"start", "give", "setup"} /\ c.key \notin FixedKeys => Instance(c.key) \notin live
  /\ c.op = "vote" /\ c.key \notin FixedKeys =>
       <<Instance(c.key), c.by>> \notin ballots \ byHand

Placed ==
  status # "idle" =>
    script \in Scripts /\ pc \in 1..Len(Work) /\ sent \subseteq Work[pc] /\ run > 0

Progress ==
  /\ \A i \in 1..Len(Work) : \A c \in Work[i] :
       IF Answered(i, c) THEN Achieved(c) ELSE Untouched(c)
  /\ \A k \in Reads(script, net) : file[net][k] # 0
  /\ status = "done" => pc = Len(Work) /\ sent = {}

\* A scheme is registered when, and only when, its votes are a majority, and
\* this run's votes are those of the first half of the founders, or by hand.
Counted ==
  /\ registered = {c \in proposed : Carries(c, ballots)}
  /\ \A b \in ballots : b[1] \in proposed
  /\ \A c \in proposed \cup live : c[2] <= run
  /\ \A b \in ballots : b[1][2] = run /\ run > 0 => b[2] \in FirstHalf \/ b \in byHand

\* What the files say of the contracts is true of them.
Files ==
  /\ \A n \in Networks :
       /\ \A k, l \in Twins : file[n][k] = file[n][l]
       /\ file[n]["FundManager"] # 0 => fmReserve[file[n]["FundManager"]] = file[n]["FundManager"]
       /\ file[n]["FirstClaimPool"] # 0 => poolUbi[file[n]["FirstClaimPool"]] >= file[n]["UBIScheme"]
       /\ \A k \in Proxies : file[n][k] # 0 => proxyOwner[n] # "none"
       /\ \A k \in FileKeys : file[n][k] <= run
  /\ \A r \in Runs : poolUbi[r] <= run

Arranged ==
  /\ Placed /\ Counted /\ Files
  /\ status \in {"running", "done"} => Progress
  /\ ProxyBelongsToDAO
  /\ FailureHasCause

\* A call is mined, in time or late.
Mined(c) ==
  /\ status \in {"running", "failed", "crashed"} /\ c \in sent
  /\ Accepted(c) /\ Effect(c)
  /\ sent' = sent \ {c}
  /\ c.op = "release" => status = "running"
  /\ UNCHANGED <<founders, env, script, net, run, pc, status, mishaps>>

LEMMA EffectByOp ==
  ASSUME NEW c, Effect(c)
  PROVE  /\ c.op = "deploy" => Deployed(c)
         /\ c.op = "propose" => Proposed(c)
         /\ c.op = "vote" => Voted(c)
         /\ c.op = "start" => Started(c)
         /\ c.op = "give" => Given(c)
         /\ c.op \in {"setup", "use", "upgrade"} => Called(c)
         /\ c.op = "handover" => HandedOver(c)
         /\ c.op = "release" => Released(c)
         /\ c.op \in {"deploy", "propose", "vote", "start", "give", "setup", "use", "upgrade",
                      "handover", "release"}
BY DEF Effect, Deployed, Proposed, Voted, Started, Given, Called, HandedOver, Released

\* Which calls touch what.
LEMMA EffectFrames ==
  ASSUME NEW c, Effect(c)
  PROVE  /\ c.op # "propose" => proposed' = proposed
         /\ c.op # "vote" => registered' = registered /\ ballots' = ballots
         /\ c.op \notin {"start", "give"} => live' = live
         /\ c.op \in {"start", "give"} => live' = live \cup {Instance(c.key)}
         /\ c.op # "deploy" => poolOf' = poolOf
         /\ c.op # "start" => poolUbi' = poolUbi /\ fmReserve' = fmReserve /\ minters' = minters
         /\ c.op \notin {"deploy", "start"} => fmRecipient' = fmRecipient
         /\ c.op \notin {"deploy", "handover"} => proxyOwner' = proxyOwner
         /\ c.op # "release" => file' = file
<1>1. CASE Deployed(c) \/ HandedOver(c)
  BY <1>1 DEF Deployed, HandedOver, dao
<1>2. CASE Proposed(c) \/ Voted(c)
  BY <1>2 DEF Proposed, Voted, CastVote, wiring
<1>3. CASE Started(c) \/ Given(c)
  BY <1>3 DEF Started, Given, wiring
<1>4. CASE Called(c) \/ Released(c)
  BY <1>4 DEF Called, Released, dao, wiring
<1> QED BY <1>1, <1>2, <1>3, <1>4 DEF Effect

\* Where the running script is.
LEMMA ActiveFacts ==
  ASSUME IInv, Placed, status # "idle"
  PROVE  /\ script \in Scripts /\ pc \in 1..Len(Work) /\ sent \subseteq Work[pc]
         /\ run \in Runs /\ net \in Networks /\ Home(net) \in Networks
         /\ Len(Work) \in Nat
         /\ Ordered(Work, script, net)
<1>1. TypeOK /\ net \in [env : STRING, mainnet : BOOLEAN] /\ net \in Networks /\ Home(net) \in Networks
  BY NetworkFacts DEF IInv
<1>2. script \in Scripts /\ pc \in 1..Len(Work) /\ sent \subseteq Work[pc] /\ run > 0
  BY DEF Placed
<1>3. run \in Runs
  BY <1>1, <1>2, BoundsAssumption DEF TypeOK, Runs
<1>4. net.env = env
  BY <1>1 DEF TypeOK, NetworksOf
<1>5. Ordered(Work, script, net)
  BY <1>1, <1>2, <1>4, VoterFacts, AllOrdered DEF Work
<1>6. Len(Work) \in Nat
  <2>1. Work # Nothing
    BY <1>2 DEF Nothing
  <2> QED BY <1>2, <2>1, ProgramsFit DEF FitProgram, Work
<1> QED BY <1>1, <1>2, <1>3, <1>5, <1>6

\* What an earlier batch did is done.
LEMMA EarlierAchieved ==
  ASSUME IInv, Arranged, status = "running", NEW d, Before(Work, pc, d)
  PROVE  Achieved(d)
<1>1. PICK j \in 1..(pc - 1) : d \in Work[j]
  BY DEF Before
<1>2. pc \in 1..Len(Work) /\ Len(Work) \in Nat
  BY ActiveFacts DEF Arranged
<1>3. j \in 1..Len(Work) /\ Answered(j, d)
  BY <1>1, <1>2 DEF Answered
<1> QED BY <1>1, <1>3 DEF Arranged, Progress

LEMMA PoolFacts ==
  ASSUME IInv, Arranged, status = "running", script \in {"sidechain_ubi", "upgradeUBIScheme"}
  PROVE  PoolFor \in Runs
<1>1. run \in Runs /\ net \in Networks
  BY ActiveFacts DEF Arranged
<1>2. CASE script = "sidechain_ubi"
  BY <1>1, <1>2 DEF PoolFor
<1>3. CASE script # "sidechain_ubi"
  <2>1. "FirstClaimPool" \in Reads(script, net) /\ "FirstClaimPool" \in FileKeys
    BY <1>3 DEF Reads, FileKeys
  <2>2. file[net]["FirstClaimPool"] # 0
    BY <2>1 DEF Arranged, Progress
  <2>3. file[net]["FirstClaimPool"] \in 0..MaxRuns
    BY <1>1, <2>1 DEF IInv, TypeOK
  <2> QED BY <1>3, <2>2, <2>3, BoundsAssumption DEF PoolFor, Runs
<1> QED BY <1>2, <1>3

\* The writing of the file moves nothing that the calls of its script look at.
LEMMA ReleaseMoves ==
  ASSUME IInv, Placed, status = "running", NEW c, Released(c), UNCHANGED <<script, net, run>>
  PROVE  /\ script \in {"sidechain_ubi", "upgradeUBIScheme"} => PoolFor' = PoolFor
         /\ script \in {"mainnet", "updateBridgeAndUBIRecipient"} => HomeUBI' = HomeUBI
         /\ script = "updateBridgeAndUBIRecipient" => file' = file
         /\ \A k \in Written(script, net) : file'[net][k] = run
         /\ \A k \in Reads(script, net) : file[net][k] # 0 => file'[net][k] # 0
<1>1. net \in Networks /\ Home(net) \in Networks /\ run \in Runs /\ TypeOK /\ run # 0
  BY ActiveFacts DEF IInv, Runs
<1>2. /\ \A k \in FileKeys : file'[net][k] = IF k \in Written(script, net) THEN run
                                            ELSE IF k \in Dropped(script) THEN 0
                                            ELSE file[net][k]
      /\ \A n \in Networks : n # net => file'[n] = file[n]
  BY <1>1 DEF Released, TypeOK
<1>3. "UBIScheme" \in FileKeys /\ "FirstClaimPool" \in FileKeys
  BY DEF FileKeys
<1>4. script \in {"sidechain_ubi", "upgradeUBIScheme"} => PoolFor' = PoolFor
  <2>1. script = "upgradeUBIScheme" =>
          "FirstClaimPool" \notin Written(script, net) /\ Dropped(script) = {}
    BY DEF Written, Dropped
  <2> QED BY <1>2, <1>3, <2>1 DEF PoolFor
<1>5. script \in {"mainnet", "updateBridgeAndUBIRecipient"} => HomeUBI' = HomeUBI
  <2>1. script \in {"mainnet", "updateBridgeAndUBIRecipient"} =>
          "UBIScheme" \notin Written(script, net) /\ Dropped(script) = {}
    BY DEF Written, Dropped
  <2>2. script \in {"mainnet", "updateBridgeAndUBIRecipient"} =>
          file'[Home(net)]["UBIScheme"] = file[Home(net)]["UBIScheme"]
    BY <1>1, <1>2, <1>3, <2>1
  <2> QED BY <2>2 DEF HomeUBI
<1>6. script = "updateBridgeAndUBIRecipient" => file' = file
  <2> SUFFICES ASSUME script = "updateBridgeAndUBIRecipient" PROVE file' = file
    OBVIOUS
  <2>1. Written(script, net) = {} /\ Dropped(script) = {}
    BY DEF Written, Dropped
  <2>2. file[net] = [k \in FileKeys |-> file[net][k]]
    BY <1>1 DEF TypeOK
  <2>3. [k \in FileKeys |-> IF k \in Written(script, net) THEN run
                            ELSE IF k \in Dropped(script) THEN 0 ELSE file[net][k]] = file[net]
    BY <2>1, <2>2
  <2> QED BY <1>1, <2>3 DEF Released, TypeOK
<1>7. \A k \in Written(script, net) : file'[net][k] = run
  <2>1. Written(script, net) \subseteq FileKeys
    BY DEF Written, FileKeys
  <2> QED BY <1>2, <2>1
<1>8. \A k \in Reads(script, net) : file[net][k] # 0 => file'[net][k] # 0
  <2>1. \A k \in Reads(script, net) : k \in FileKeys /\ k \notin Dropped(script)
    BY DEF Reads, FileKeys, Dropped, UpgradableKeys
  <2> QED BY <1>1, <1>2, <2>1
<1> QED BY <1>4, <1>5, <1>6, <1>7, <1>8

\* What is achieved stays so.
LEMMA AchievedStays ==
  ASSUME IInv, Arranged, status = "running", NEW c, Mined(c),
         NEW d, Belongs(script, net, d), Achieved(d)
  PROVE  Achieved(d)'
<1>1. /\ Effect(c) /\ UNCHANGED <<script, net, run, lost>> /\ net \in Networks /\ run \in Runs
      /\ \A k : Instance(k)' = Instance(k)
  BY ActiveFacts DEF Arranged, Mined, mishaps, Instance
<1>2. AchievedDAO(d)'
  <2>1. live \subseteq live' /\ proposed \subseteq proposed' /\ registered \subseteq registered'
        /\ ballots \subseteq ballots'
    BY <1>1, EffectByOp, EffectFrames DEF Proposed, Voted, CastVote
  <2>2. Lossy' = Lossy
    BY <1>1 DEF Lossy
  <2> QED BY <1>1, <2>1, <2>2 DEF Achieved, AchievedDAO
<1>3. CASE c.op = "release"
  <2>1. Released(c) /\ UNCHANGED <<poolOf, poolUbi, fmReserve, fmRecipient, proxyOwner>>
    BY <1>1, <1>3, EffectByOp, EffectFrames
  <2>2. /\ script \in {"sidechain_ubi", "upgradeUBIScheme"} => PoolFor' = PoolFor
        /\ script \in {"mainnet", "updateBridgeAndUBIRecipient"} => HomeUBI' = HomeUBI
        /\ script = "updateBridgeAndUBIRecipient" => file' = file
        /\ \A k \in Written(script, net) : file'[net][k] = run
    BY <1>1, <2>1, ReleaseMoves DEF Arranged
  <2>3. AchievedWiring(d)'
    BY <1>1, <2>1, <2>2 DEF Achieved, AchievedWiring, Belongs
  <2>4. AchievedFile(d)'
    BY <1>1, <2>1, <2>2 DEF Achieved, AchievedFile
  <2> QED BY <1>2, <2>3, <2>4 DEF Achieved
<1>4. CASE c.op # "release"
  <2>1. file' = file /\ PoolFor' = PoolFor /\ HomeUBI' = HomeUBI
    BY <1>1, <1>4, EffectFrames DEF PoolFor, HomeUBI
  <2>2. /\ proxyOwner[net] # "none" => proxyOwner'[net] # "none"
        /\ proxyOwner[net] = "avatar" => proxyOwner'[net] = "avatar"
    BY <1>1, EffectByOp, EffectFrames DEF Deployed, HandedOver, IInv, TypeOK
  <2>3. poolOf[run] = PoolFor => poolOf'[run] = PoolFor
    BY <1>1, EffectByOp, EffectFrames DEF Deployed, IInv, TypeOK
  <2>4. /\ \A r \in Runs : poolUbi[r] = run => poolUbi'[r] = run
        /\ fmReserve[run] = run => fmReserve'[run] = run
    BY <1>1, EffectByOp, EffectFrames DEF Started, IInv, TypeOK
  <2>5. \A r : r \in Runs /\ fmRecipient[r] = HomeUBI => fmRecipient'[r] = HomeUBI
    BY <1>1, EffectByOp, EffectFrames DEF Deployed, Started, IInv, TypeOK, HomeUBI
  <2>6. script = "updateBridgeAndUBIRecipient" => file[net]["FundManager"] \in Runs
    <3> SUFFICES ASSUME script = "updateBridgeAndUBIRecipient"
                 PROVE  file[net]["FundManager"] \in Runs
      OBVIOUS
    <3>1. "FundManager" \in Reads(script, net) /\ "FundManager" \in FileKeys
      BY DEF Reads, FileKeys
    <3>2. file[net]["FundManager"] # 0 /\ file[net]["FundManager"] \in 0..MaxRuns
      BY <1>1, <3>1 DEF Arranged, Progress, IInv, TypeOK
    <3> QED BY <3>2, BoundsAssumption DEF Runs
  <2>7. AchievedWiring(d)'
    <3>1. CASE d.op = "deploy"
      BY <1>1, <2>1, <2>2, <2>3, <2>5, <3>1 DEF Achieved, AchievedWiring
    <3>2. CASE d.op = "start"
      <4>1. d.key = "UBIScheme" => PoolFor \in Runs /\ poolUbi'[PoolFor] = run
        BY <2>4, <3>2 DEF Achieved, AchievedWiring
      <4>2. d.key = "FundManagerSetReserve" => fmReserve'[run] = run
        BY <1>1, <2>4, <3>2 DEF Achieved, AchievedWiring
      <4>3. d.key = "FundManagerSetUBIAndBridge" => fmRecipient'[file[net]["FundManager"]] = HomeUBI
        BY <2>5, <2>6, <3>2 DEF Achieved, AchievedWiring, Belongs
      <4> QED BY <1>1, <2>1, <3>2, <4>1, <4>2, <4>3 DEF AchievedWiring
    <3>3. CASE d.op \notin {"deploy", "start"}
      BY <3>3 DEF AchievedWiring
    <3> QED BY <3>1, <3>2, <3>3
  <2>8. AchievedFile(d)'
    BY <1>1, <2>1, <2>2 DEF Achieved, AchievedFile
  <2> QED BY <1>2, <2>7, <2>8 DEF Achieved
<1> QED BY <1>3, <1>4

\* What a call is there for, it achieves.
LEMMA AchievedNow ==
  ASSUME IInv, Arranged, status = "running", NEW c, Mined(c)
  PROVE  Achieved(c)'
<1>1. /\ Effect(c) /\ Accepted(c) /\ UNCHANGED <<script, net, run, pc, lost>>
      /\ net \in Networks /\ run \in Runs
      /\ \A k : Instance(k)' = Instance(k)
  BY ActiveFacts DEF Arranged, Mined, mishaps, Instance
<1>2. Belongs(script, net, c) /\ Prepared(Work, script, net, pc, c)
  BY ActiveFacts DEF Arranged, Mined, Ordered
<1>3. AchievedDAO(c)'
  BY <1>1, EffectByOp, EffectFrames DEF AchievedDAO, Proposed, Voted, CastVote, Started, Given
<1>4. AchievedFile(c)'
  <2>1. c.op = "handover" => proxyOwner'[net] = "avatar"
    BY <1>1, EffectByOp DEF HandedOver, IInv, TypeOK
  <2>2. c.op = "release" => \A k \in Written(script, net) : file'[net][k] = run
    BY <1>1, EffectByOp, ReleaseMoves DEF Arranged
  <2> QED BY <1>1, <2>1, <2>2 DEF AchievedFile
<1>5. CASE c.op = "deploy"
  <2>1. Deployed(c) /\ file' = file /\ PoolFor' = PoolFor /\ HomeUBI' = HomeUBI
    BY <1>1, <1>5, EffectByOp, EffectFrames DEF PoolFor, HomeUBI
  <2>2. c.key \in Proxies => proxyOwner'[net] # "none"
    BY <1>1, <2>1 DEF Deployed, IInv, TypeOK
  <2>3. c.key = "UBIScheme" => poolOf'[run] = PoolFor
    BY <1>1, <2>1 DEF Deployed, IInv, TypeOK
  <2>4. c.key = "FundManager" => fmRecipient'[run] = HomeUBI
    BY <1>1, <2>1 DEF Deployed, IInv, TypeOK, HomeUBI
  <2>5. AchievedWiring(c)'
    BY <1>1, <1>5, <2>1, <2>2, <2>3, <2>4 DEF AchievedWiring
  <2> QED BY <1>3, <1>4, <2>5 DEF Achieved
<1>6. CASE c.op = "start"
  <2>1. Started(c) /\ file' = file /\ PoolFor' = PoolFor /\ HomeUBI' = HomeUBI
    BY <1>1, <1>6, EffectByOp, EffectFrames DEF PoolFor, HomeUBI
  <2>2. ASSUME c.key = "UBIScheme" PROVE PoolFor \in Runs /\ poolUbi'[PoolFor] = run
    <3>1. script \in {"sidechain_ubi", "upgradeUBIScheme"}
      BY <1>2, <1>6, <2>2 DEF Belongs
    <3>2. Achieved(Deploy("UBIScheme"))
      BY <1>2, <1>6, <2>2, EarlierAchieved DEF Prepared
    <3>3. poolOf[run] = PoolFor
      BY <3>2, CallFields DEF Achieved, AchievedWiring
    <3>4. PoolFor \in Runs
      BY <3>1, PoolFacts
    <3> QED BY <2>1, <2>2, <3>3, <3>4 DEF Started, IInv, TypeOK
  <2>3. c.key = "FundManagerSetReserve" => fmReserve'[run] = run
    BY <1>1, <2>1 DEF Started, IInv, TypeOK
  <2>4. ASSUME c.key = "FundManagerSetUBIAndBridge"
        PROVE  fmRecipient'[file[net]["FundManager"]] = HomeUBI
    <3>1. script = "updateBridgeAndUBIRecipient"
      BY <1>2, <1>6, <2>4 DEF Belongs
    <3>2. "FundManager" \in Reads(script, net) /\ "FundManager" \in FileKeys
      BY <3>1 DEF Reads, FileKeys
    <3>3. file[net]["FundManager"] # 0 /\ file[net]["FundManager"] \in 0..MaxRuns
      BY <1>1, <3>2 DEF Arranged, Progress, IInv, TypeOK
    <3>4. file[net]["FundManager"] \in Runs
      BY <3>3, BoundsAssumption DEF Runs
    <3> QED BY <2>1, <2>4, <3>4 DEF Started, IInv, TypeOK, HomeUBI
  <2>5. AchievedWiring(c)'
    BY <1>1, <1>6, <2>1, <2>2, <2>3, <2>4 DEF AchievedWiring
  <2> QED BY <1>3, <1>4, <2>5 DEF Achieved
<1>7. CASE c.op \notin {"deploy", "start"}
  BY <1>3, <1>4, <1>7 DEF Achieved, AchievedWiring
<1> QED BY <1>5, <1>6, <1>7

\* A call that is not answered yet stays as it was.
LEMMA UntouchedStays ==
  ASSUME IInv, Arranged, status = "running", NEW c, Mined(c),
         NEW i \in 1..Len(Work), NEW d \in Work[i], ~Answered(i, d), i # pc \/ d # c
  PROVE  Untouched(d)'
<1>1. /\ Effect(c) /\ Accepted(c) /\ UNCHANGED <<script, net, run, pc, byHand>>
      /\ pc \in 1..Len(Work) /\ c \in Work[pc] /\ c \in sent /\ Len(Work) \in Nat
      /\ \A k : Instance(k)' = Instance(k)
  BY ActiveFacts DEF Arranged, Mined, mishaps, Instance
<1>2. /\ Belongs(script, net, c) /\ Belongs(script, net, d) /\ Once(Work)
  BY <1>1, ActiveFacts DEF Arranged, Ordered
<1>3. Untouched(d)
  BY DEF Arranged, Progress
<1>4. i >= pc
  BY <1>1 DEF Answered
<1>5. \A k, l : Instance(k) = Instance(l) => k = l
  BY DEF Instance
<1>6. ASSUME d.op \in {"start", "give", "setup"}, d.key \notin FixedKeys
      PROVE  Instance(d.key) \notin live'
  <2>1. Instance(d.key) \notin live
    BY <1>3, <1>6 DEF Untouched
  <2>2. CASE c.op \notin {"start", "give"}
    BY <1>1, <2>1, <2>2, EffectFrames
  <2>3. CASE c.op \in {"start", "give"} /\ c.key # d.key
    BY <1>1, <1>5, <2>1, <2>3, EffectFrames
  <2>4. CASE c.op \in {"start", "give"} /\ c.key = d.key
    <3>1. c.key \in SchemeKeys <=> c.op = "start"
      BY <1>2, <2>4 DEF Belongs, SchemeKeys
    <3>2. d.key \in SchemeKeys <=> d.op = "start"
      BY <1>2, <1>6 DEF Belongs, SchemeKeys
    <3>3. CASE d.op = c.op
      <4>1. Twice(c, d)
        BY <2>4, <3>3 DEF Twice
      <4> QED BY <1>1, <1>2, <4>1 DEF Once
    <3>4. CASE d.op # c.op
      <4>1. d.op = "setup" /\ c.op = "give"
        BY <1>6, <2>4, <3>1, <3>2, <3>4
      <4>2. i < pc
        BY <1>1, <1>2, <2>4, <4>1 DEF Once
      <4> QED BY <1>1, <1>4, <4>2
    <3> QED BY <3>3, <3>4
  <2> QED BY <2>2, <2>3, <2>4
<1>7. ASSUME d.op = "vote", d.key \notin FixedKeys
      PROVE  <<Instance(d.key), d.by>> \notin ballots' \ byHand
  <2>1. <<Instance(d.key), d.by>> \notin ballots \ byHand
    BY <1>3, <1>7 DEF Untouched
  <2>2. CASE c.op # "vote"
    BY <1>1, <2>1, <2>2, EffectFrames
  <2>3. CASE c.op = "vote"
    <3>1. ballots' = ballots \cup {<<Instance(c.key), c.by>>}
      BY <1>1, <2>3, EffectByOp DEF Voted, CastVote
    <3>2. ~Twice(c, d)
      BY <1>1, <1>2 DEF Once
    <3>3. c.key # d.key \/ c.by # d.by
      BY <1>7, <2>3, <3>2 DEF Twice
    <3> QED BY <1>5, <2>1, <3>1, <3>3
  <2> QED BY <2>2, <2>3
<1> QED BY <1>1, <1>6, <1>7 DEF Untouched

LEMMA WorkStays ==
  ASSUME UNCHANGED <<founders, script, net>>
  PROVE  Work' = Work
BY ProgramStays DEF Work

LEMMA MinedProgress ==
  ASSUME IInv, Arranged, status = "running", NEW c, Mined(c)
  PROVE  Progress'
<1>1. /\ UNCHANGED <<founders, script, net, run, pc, status>> /\ sent' = sent \ {c}
      /\ Effect(c) /\ c \in sent
  BY DEF Mined
<1>2. Work' = Work
  BY <1>1, WorkStays
<1>3. ASSUME NEW i \in 1..Len(Work), NEW d \in Work[i]
      PROVE  IF Answered(i, d)' THEN Achieved(d)' ELSE Untouched(d)'
  <2>1. Belongs(script, net, d)
    BY ActiveFacts DEF Arranged, Ordered
  <2>2. CASE Answered(i, d)
    <3>1. Achieved(d)'
      BY <2>1, <2>2, AchievedStays DEF Arranged, Progress
    <3>2. Answered(i, d)'
      BY <1>1, <2>2 DEF Answered
    <3> QED BY <3>1, <3>2
  <2>3. CASE i = pc /\ d = c
    <3>1. Achieved(d)'
      BY <2>3, AchievedNow
    <3>2. Answered(i, d)'
      BY <1>1, <2>3 DEF Answered
    <3> QED BY <3>1, <3>2
  <2>4. CASE ~Answered(i, d) /\ (i # pc \/ d # c)
    <3>1. Untouched(d)'
      BY <2>4, UntouchedStays
    <3>2. ~Answered(i, d)'
      BY <1>1, <2>4 DEF Answered
    <3> QED BY <3>1, <3>2
  <2> QED BY <2>2, <2>3, <2>4
<1>4. \A k \in Reads(script, net) : file'[net][k] # 0
  <2>1. \A k \in Reads(script, net) : file[net][k] # 0
    BY DEF Arranged, Progress
  <2>2. CASE c.op = "release"
    <3>1. Released(c)
      BY <1>1, <2>2, EffectByOp
    <3> QED BY <1>1, <2>1, <3>1, ReleaseMoves DEF Arranged
  <2>3. CASE c.op # "release"
    BY <1>1, <2>1, <2>3, EffectFrames
  <2> QED BY <2>2, <2>3
<1> QED BY <1>1, <1>2, <1>3, <1>4 DEF Progress

LEMMA CarriesStays ==
  ASSUME founders' = founders
  PROVE  \A d : Carries(d, ballots)' <=> Carries(d, ballots')
BY VotesStay DEF Carries

\* A vote is counted once it is cast, by a script or by hand.
LEMMA CountedVote ==
  ASSUME TypeOK, Counted, NEW c \in Open, NEW f, CastVote(c, f), founders' = founders
  PROVE  /\ registered' = {d \in proposed : Carries(d, ballots')}
         /\ \A b \in ballots' : b[1] \in proposed
<1>2. \A d : d # c => \A g : <<d, g>> \in ballots' <=> <<d, g>> \in ballots
  BY DEF CastVote
<1>3. \A d : d # c => (Carries(d, ballots') <=> Carries(d, ballots))
  <2> SUFFICES ASSUME NEW d, d # c PROVE Carries(d, ballots') <=> Carries(d, ballots)
    OBVIOUS
  <2>1. {g \in Voters : <<d, g>> \in ballots'} = {g \in Voters : <<d, g>> \in ballots}
    BY <1>2
  <2> QED BY <2>1 DEF Carries
<1>4. c \in proposed /\ c \notin registered
  BY DEF Open
<1>5. registered = {d \in proposed : Carries(d, ballots)}
  BY DEF Counted
<1>6. registered' = IF Carries(c, ballots') THEN registered \cup {c} ELSE registered
  BY DEF CastVote
<1>7. registered' = {d \in proposed : Carries(d, ballots')}
  BY <1>3, <1>4, <1>5, <1>6
<1>8. \A b \in ballots' : b[1] \in proposed
  BY <1>4 DEF CastVote, Counted
<1> QED BY <1>7, <1>8

LEMMA MinedCounted ==
  ASSUME IInv, Arranged, NEW c, Mined(c)
  PROVE  Counted'
<1>1. /\ Effect(c) /\ Accepted(c) /\ TypeOK /\ Counted /\ c \in sent /\ status # "idle"
      /\ UNCHANGED <<founders, run, byHand>>
      /\ run \in Runs /\ c \in Work[pc]
      /\ \A k : Instance(k)[2] \in {0, run}
  BY ActiveFacts DEF Arranged, Mined, mishaps, IInv, Instance
<1>2. /\ Belongs(script, net, c) /\ Prepared(Work, script, net, pc, c)
  BY <1>1, ActiveFacts DEF Arranged, Ordered
<1>3. \A k \in FixedKeys : Instance(k)[2] = 0
  BY DEF Instance
<1>4. run \in Nat /\ run > 0 /\ 0 <= run /\ run <= run
  BY <1>1, BoundsAssumption DEF Runs
<1>5. \A d : Carries(d, ballots)' <=> Carries(d, ballots')
  BY <1>1, CarriesStays
<1>6. FirstHalf' = FirstHalf
  BY <1>1 DEF FirstHalf
<1>7. CASE c.op = "vote"
  <2>1. Instance(c.key) \in Open /\ CastVote(Instance(c.key), c.by)
    BY <1>1, <1>7, EffectByOp DEF Accepted, Voted
  <2>2. /\ registered' = {d \in proposed : Carries(d, ballots')}
        /\ \A b \in ballots' : b[1] \in proposed
    BY <1>1, <2>1, CountedVote
  <2>3. proposed' = proposed /\ live' = live /\ ballots' = ballots \cup {<<Instance(c.key), c.by>>}
    BY <1>1, <1>7, <2>1, EffectFrames DEF CastVote
  <2>4. Instance(c.key)[2] = run => c.by \in FirstHalf
    BY <1>2, <1>3, <1>4, <1>7 DEF Belongs, Prepared
  <2>5. \A b \in ballots' : b[1][2] = run /\ run > 0 => b[2] \in FirstHalf \/ b \in byHand
    BY <1>1, <2>3, <2>4 DEF Counted
  <2> QED BY <1>1, <1>5, <1>6, <2>2, <2>3, <2>5 DEF Counted
<1>8. CASE c.op # "vote"
  <2>1. registered' = registered /\ ballots' = ballots
    BY <1>1, <1>8, EffectFrames
  <2>2. proposed \subseteq proposed' /\ proposed' \subseteq proposed \cup {Instance(c.key)}
    BY <1>1, EffectByOp, EffectFrames DEF Proposed
  <2>3. live' \subseteq live \cup {Instance(c.key)}
    BY <1>1, EffectFrames
  <2>4. \A d : d \notin proposed => ~Carries(d, ballots)
    <3> SUFFICES ASSUME NEW d, d \notin proposed PROVE ~Carries(d, ballots)
      OBVIOUS
    <3>1. \A f : <<d, f>> \notin ballots
      BY <1>1 DEF Counted
    <3> QED BY <1>1, <3>1, HeadFacts
  <2>5. registered' = {d \in proposed' : Carries(d, ballots')}
    BY <1>1, <2>1, <2>2, <2>4 DEF Counted
  <2>6. \A d \in proposed' \cup live' : d[2] <= run
    BY <1>1, <1>4, <2>2, <2>3 DEF Counted
  <2>7. /\ \A b \in ballots' : b[1] \in proposed'
        /\ \A b \in ballots' : b[1][2] = run /\ run > 0 => b[2] \in FirstHalf \/ b \in byHand
    BY <1>1, <2>1, <2>2 DEF Counted
  <2> QED BY <1>1, <1>5, <1>6, <2>5, <2>6, <2>7 DEF Counted
<1> QED BY <1>7, <1>8

\* The tables: who writes what, together with what.
LEMMA WrittenFacts ==
  ASSUME NEW s \in Scripts, NEW n
  PROVE  /\ \A k, l \in Twins : k \in Written(s, n) => l \in Written(s, n)
         /\ Twins \cap Dropped(s) = {} /\ {"FirstClaimPool", "UBIScheme"} \cap Dropped(s) = {}
         /\ "FirstClaimPool" \in Written(s, n) => s = "sidechain_ubi"
         /\ "UBIScheme" \in Written(s, n) => s \in {"sidechain_ubi", "upgradeUBIScheme"}
         /\ s = "sidechain_ubi" => Written(s, n) = {"UBIScheme", "FirstClaimPool"}
         /\ s = "upgradeUBIScheme" => Written(s, n) = {"UBIScheme"}
         /\ Written(s, n) \subseteq FileKeys
<1>1. Written(s, n) \subseteq FileKeys
  BY DEF Written, FileKeys
<1>2. s = "mainnet" => Written(s, n) = {"FundManager", "DAIStaking", "Reserve", "MarketMaker"}
  BY DEF Written
<1>3. s # "mainnet" => Twins \cap Written(s, n) = {}
  BY DEF Written, Twins
<1>4. \A k, l \in Twins : k \in Written(s, n) => l \in Written(s, n)
  BY <1>2, <1>3 DEF Twins
<1>5. /\ Twins \cap Dropped(s) = {} /\ {"FirstClaimPool", "UBIScheme"} \cap Dropped(s) = {}
  BY DEF Twins, Dropped, UpgradableKeys
<1>6. /\ "FirstClaimPool" \in Written(s, n) => s = "sidechain_ubi"
      /\ "UBIScheme" \in Written(s, n) => s \in {"sidechain_ubi", "upgradeUBIScheme"}
  BY DEF Written
<1>7. /\ s = "sidechain_ubi" => Written(s, n) = {"UBIScheme", "FirstClaimPool"}
      /\ s = "upgradeUBIScheme" => Written(s, n) = {"UBIScheme"}
  BY DEF Written
<1> QED BY <1>1, <1>4, <1>5, <1>6, <1>7

\* The record that releaser writes is true of the contracts.
LEMMA ReleasedFiles ==
  ASSUME IInv, Arranged, status = "running", NEW c, Mined(c), c.op = "release"
  PROVE  Files'
<1>1. /\ UNCHANGED <<script, net, run>> /\ c \in Work[pc] /\ Released(c)
      /\ UNCHANGED <<poolOf, poolUbi, fmReserve, fmRecipient, proxyOwner>>
      /\ script \in Scripts /\ net \in Networks /\ run \in Runs /\ TypeOK /\ Files
  BY ActiveFacts, EffectByOp, EffectFrames DEF Arranged, Mined, IInv
<1>2. Complete(Work, script, net, pc)
  BY <1>1, ActiveFacts DEF Arranged, Ordered, Prepared
<1>3. /\ \A k \in FileKeys : file'[net][k] = IF k \in Written(script, net) THEN run
                                            ELSE IF k \in Dropped(script) THEN 0
                                            ELSE file[net][k]
      /\ \A n \in Networks : n # net => file'[n] = file[n]
  BY <1>1 DEF Released, TypeOK
<1>4. run \in Nat /\ 0 <= run /\ run <= run
  BY <1>1, BoundsAssumption DEF Runs
<1>5. Twins \subseteq FileKeys /\ Proxies \subseteq FileKeys
      /\ "UBIScheme" \in FileKeys /\ "FirstClaimPool" \in FileKeys
  BY DEF Twins, Proxies, FileKeys
<1>6. \A k, l \in Twins : file'[net][k] = file'[net][l]
  BY <1>1, <1>3, <1>5, WrittenFacts DEF Files
<1>7. file'[net]["FundManager"] # 0 => fmReserve[file'[net]["FundManager"]] = file'[net]["FundManager"]
  <2>1. CASE "FundManager" \in Written(script, net)
    <3>1. Achieved(Start("FundManagerSetReserve"))
      BY <1>2, <2>1, EarlierAchieved DEF Complete
    <3>2. fmReserve[run] = run
      BY <3>1, CallFields DEF Achieved, AchievedWiring
    <3> QED BY <1>3, <1>5, <2>1, <3>2 DEF Twins
  <2>2. CASE "FundManager" \notin Written(script, net)
    <3>1. file'[net]["FundManager"] = file[net]["FundManager"]
      BY <1>1, <1>3, <1>5, <2>2, WrittenFacts DEF Twins
    <3> QED BY <1>1, <3>1 DEF Files
  <2> QED BY <2>1, <2>2
<1>8. file'[net]["FirstClaimPool"] # 0
        => poolUbi[file'[net]["FirstClaimPool"]] >= file'[net]["UBIScheme"]
  <2>1. CASE "UBIScheme" \in Written(script, net)
    <3>1. script \in {"sidechain_ubi", "upgradeUBIScheme"}
      BY <1>1, <2>1, WrittenFacts
    <3>2. Achieved(Start("UBIScheme"))
      BY <1>2, <2>1, EarlierAchieved DEF Complete
    <3>3. poolUbi[PoolFor] = run
      BY <3>2, CallFields DEF Achieved, AchievedWiring
    <3>4. file'[net]["FirstClaimPool"] = PoolFor /\ file'[net]["UBIScheme"] = run
      BY <1>1, <1>3, <1>5, <3>1, WrittenFacts DEF PoolFor
    <3> QED BY <1>4, <3>3, <3>4
  <2>2. CASE "UBIScheme" \notin Written(script, net)
    <3>1. "FirstClaimPool" \notin Written(script, net)
      BY <1>1, <2>2, WrittenFacts
    <3>2. /\ file'[net]["FirstClaimPool"] = file[net]["FirstClaimPool"]
          /\ file'[net]["UBIScheme"] = file[net]["UBIScheme"]
      BY <1>1, <1>3, <1>5, <2>2, <3>1, WrittenFacts
    <3> QED BY <1>1, <3>2 DEF Files
  <2> QED BY <2>1, <2>2
<1>9. \A k \in Proxies : file'[net][k] # 0 => proxyOwner[net] # "none"
  <2> SUFFICES ASSUME NEW k \in Proxies, file'[net][k] # 0 PROVE proxyOwner[net] # "none"
    OBVIOUS
  <2>1. CASE k \in Written(script, net)
    <3>1. Achieved(Deploy(k))
      BY <1>2, <2>1, EarlierAchieved DEF Complete
    <3> QED BY <3>1, CallFields DEF Achieved, AchievedWiring
  <2>2. CASE k \notin Written(script, net)
    <3>1. file[net][k] # 0
      BY <1>3, <1>5, <2>2
    <3> QED BY <1>1, <3>1 DEF Files
  <2> QED BY <2>1, <2>2
<1>10. \A k \in FileKeys : file'[net][k] <= run
  BY <1>1, <1>3, <1>4 DEF Files
<1>11. (\A n \in Networks :
          /\ \A k, l \in Twins : file[n][k] = file[n][l]
          /\ file[n]["FundManager"] # 0 => fmReserve[file[n]["FundManager"]] = file[n]["FundManager"]
          /\ file[n]["FirstClaimPool"] # 0 => poolUbi[file[n]["FirstClaimPool"]] >= file[n]["UBIScheme"]
          /\ \A k \in Proxies : file[n][k] # 0 => proxyOwner[n] # "none"
          /\ \A k \in FileKeys : file[n][k] <= run)'
  <2> SUFFICES ASSUME NEW n \in Networks
               PROVE  (/\ \A k, l \in Twins : file[n][k] = file[n][l]
                       /\ file[n]["FundManager"] # 0 => fmReserve[file[n]["FundManager"]] = file[n]["FundManager"]
                       /\ file[n]["FirstClaimPool"] # 0 => poolUbi[file[n]["FirstClaimPool"]] >= file[n]["UBIScheme"]
                       /\ \A k \in Proxies : file[n][k] # 0 => proxyOwner[n] # "none"
                       /\ \A k \in FileKeys : file[n][k] <= run)'
    OBVIOUS
  <2>1. CASE n = net
    BY <1>1, <1>6, <1>7, <1>8, <1>9, <1>10, <2>1
  <2>2. CASE n # net
    BY <1>1, <1>3, <2>2 DEF Files
  <2> QED BY <2>1, <2>2
<1> QED BY <1>1, <1>11 DEF Files

LEMMA MinedFiles ==
  ASSUME IInv, Arranged, NEW c, Mined(c), c.op # "release"
  PROVE  Files'
<1>1. /\ Effect(c) /\ UNCHANGED <<net, run, file>> /\ TypeOK /\ Files
      /\ run \in Runs /\ net \in Networks
  BY ActiveFacts, EffectFrames DEF Arranged, Mined, IInv
<1>2. run \in Nat /\ run <= run /\ Runs \subseteq Nat
  BY <1>1, BoundsAssumption DEF Runs
<1>3. \A n \in Networks : \A k \in FileKeys : file[n][k] \in Nat /\ file[n][k] <= run
  BY <1>1, BoundsAssumption DEF Files, TypeOK
<1>4. "UBIScheme" \in FileKeys /\ "FundManager" \in FileKeys /\ "FirstClaimPool" \in FileKeys
  BY DEF FileKeys
<1>10. \A n \in Networks : \A k \in FileKeys : file[n][k] # 0 => file[n][k] \in Runs
  BY <1>1, BoundsAssumption DEF TypeOK, Runs
<1>5. \A r \in Runs : fmReserve[r] = r => fmReserve'[r] = r
  <2>1. CASE c.op = "start"
    BY <1>1, <2>1, EffectByOp DEF Started, TypeOK
  <2>2. CASE c.op # "start"
    BY <1>1, <2>2, EffectFrames
  <2> QED BY <2>1, <2>2
<1>6. \A r \in Runs : poolUbi'[r] \in {poolUbi[r], run}
  <2>1. CASE c.op = "start"
    BY <1>1, <2>1, EffectByOp DEF Started, TypeOK
  <2>2. CASE c.op # "start"
    BY <1>1, <2>2, EffectFrames
  <2> QED BY <2>1, <2>2
<1>7. \A n \in Networks : proxyOwner[n] # "none" => proxyOwner'[n] # "none"
  <2>1. CASE c.op \in {"deploy", "handover"}
    BY <1>1, <2>1, EffectByOp DEF Deployed, HandedOver, TypeOK
  <2>2. CASE c.op \notin {"deploy", "handover"}
    BY <1>1, <2>2, EffectFrames
  <2> QED BY <2>1, <2>2
<1>8. ASSUME NEW n \in Networks, file[n]["FirstClaimPool"] # 0
      PROVE  poolUbi'[file[n]["FirstClaimPool"]] >= file[n]["UBIScheme"]
  BY <1>1, <1>2, <1>3, <1>4, <1>6, <1>8, <1>10 DEF Files
<1>9. \A r \in Runs : poolUbi'[r] <= run
  BY <1>1, <1>2, <1>6 DEF Files
<1>11. ASSUME NEW n \in Networks, file[n]["FundManager"] # 0
       PROVE  fmReserve'[file[n]["FundManager"]] = file[n]["FundManager"]
  BY <1>1, <1>4, <1>5, <1>10, <1>11 DEF Files
<1> QED BY <1>1, <1>7, <1>8, <1>9, <1>11 DEF Files

LEMMA MinedProxies ==
  ASSUME IInv, Arranged, NEW c, Mined(c)
  PROVE  ProxyBelongsToDAO'
<1>1. /\ Effect(c) /\ UNCHANGED <<script, net, run, lost>> /\ TypeOK /\ ProxyBelongsToDAO
      /\ run \in Runs /\ net \in Networks /\ script \in Scripts /\ c \in Work[pc]
  BY ActiveFacts DEF Arranged, Mined, IInv, mishaps
<1>2. \A n \in Networks : proxyOwner[n] = "avatar" => proxyOwner'[n] = "avatar"
  <2>1. CASE c.op \in {"deploy", "handover"}
    BY <1>1, <2>1, EffectByOp DEF Deployed, HandedOver, TypeOK
  <2>2. CASE c.op \notin {"deploy", "handover"}
    BY <1>1, <2>2, EffectFrames
  <2> QED BY <2>1, <2>2
<1>3. CASE c.op # "release"
  BY <1>1, <1>2, <1>3, EffectFrames DEF ProxyBelongsToDAO
<1>4. CASE c.op = "release"
  <2>1. Released(c) /\ status = "running" /\ proxyOwner' = proxyOwner
    BY <1>1, <1>4, EffectByOp, EffectFrames DEF Mined
  <2>2. Complete(Work, script, net, pc)
    BY <1>1, <1>4, ActiveFacts, <2>1 DEF Arranged, Ordered, Prepared
  <2>3. /\ \A k \in FileKeys : file'[net][k] = IF k \in Written(script, net) THEN run
                                              ELSE IF k \in Dropped(script) THEN 0
                                              ELSE file[net][k]
        /\ \A n \in Networks : n # net => file'[n] = file[n]
    BY <1>1, <2>1 DEF Released, TypeOK
  <2>4. ASSUME NEW n \in Networks, NEW k \in {"DonationsStaking", "Invites"}, file'[n][k] # 0
        PROVE  proxyOwner'[n] = "avatar" \/ <<file'[n][k], "handover">> \in lost
    <3>1. k \in FileKeys /\ k \in Proxies /\ k # "FuseStaking"
      BY DEF FileKeys, Proxies
    <3>2. CASE n = net /\ k \in Written(script, net)
      <4>1. Achieved(Handover)
        BY <2>1, <2>2, <3>1, <3>2, EarlierAchieved DEF Complete
      <4>2. proxyOwner[net] = "avatar" \/ <<run, "handover">> \in lost
        BY <4>1, CallFields DEF Achieved, AchievedFile
      <4> QED BY <2>1, <2>3, <3>1, <3>2, <4>2
    <3>3. CASE ~(n = net /\ k \in Written(script, net))
      <4>1. file'[n][k] = file[n][k]
        BY <2>3, <2>4, <3>1, <3>3
      <4> QED BY <1>1, <2>1, <2>4, <4>1 DEF ProxyBelongsToDAO
    <3> QED BY <3>2, <3>3
  <2> QED BY <1>1, <2>4 DEF ProxyBelongsToDAO
<1> QED BY <1>3, <1>4

\* The causes that FailureHasCause lists, in the state where the script fails.
Cause ==
  \/ script = "updateUBICyclePeriod"
  \/ script \in Standing
  \/ script = "updateHomeBridge" /\ "bridge" \in minters
  \/ script = "fuse_staking_upgrade" /\ proxyOwner[net] = "avatar"
  \/ script \in {"donations_upgrade", "invites_upgrade"} /\ proxyOwner[net] = "deployer"
  \/ 2 * Cardinality(FirstHalf) <= Cardinality(Voters)
  \/ Lossy
  \/ /\ \E v \in byHand : v[1][2] = run
     /\ ~(script = "bridges" /\ ~net.mainnet)

LEMMA CauseFacts == FailureHasCause <=> (status = "failed" => Cause)
BY DEF FailureHasCause, Cause, Standing, Lossy

\* A cause does not go away while the script is the last one.
LEMMA CauseStays ==
  ASSUME Cause, UNCHANGED <<founders, script, net, run>>, minters \subseteq minters',
         lost \subseteq lost', byHand \subseteq byHand',
         proxyOwner[net] = "avatar" => proxyOwner'[net] = "avatar",
         script \in {"donations_upgrade", "invites_upgrade"} /\ proxyOwner[net] = "deployer"
           => proxyOwner'[net] = "deployer"
  PROVE  Cause'
<1>1. CASE 2 * Cardinality(FirstHalf) <= Cardinality(Voters)
  <2>1. FirstHalf' = FirstHalf /\ Voters' = Voters
    BY VotesStay DEF FirstHalf
  <2>2. (2 * Cardinality(FirstHalf) <= Cardinality(Voters))'
    BY <1>1, <2>1
  <2> QED BY <2>2 DEF Cause
<1>2. CASE Lossy
  <2>1. Lossy'
    BY <1>2 DEF Lossy
  <2> QED BY <2>1 DEF Cause
<1>3. CASE \/ script = "updateUBICyclePeriod"
           \/ script \in Standing
           \/ script = "updateHomeBridge" /\ "bridge" \in minters
           \/ script = "fuse_staking_upgrade" /\ proxyOwner[net] = "avatar"
           \/ script \in {"donations_upgrade", "invites_upgrade"} /\ proxyOwner[net] = "deployer"
           \/ /\ \E v \in byHand : v[1][2] = run
              /\ ~(script = "bridges" /\ ~net.mainnet)
  BY <1>3 DEF Cause
<1> QED BY <1>1, <1>2, <1>3 DEF Cause

LEMMA MinedCause ==
  ASSUME IInv, Arranged, NEW c, Mined(c)
  PROVE  FailureHasCause'
<1> SUFFICES ASSUME status' = "failed" PROVE Cause'
  BY DEF FailureHasCause, Cause, Standing, Lossy
<1>6. /\ Effect(c) /\ UNCHANGED <<founders, script, net, run, status, lost, byHand>> /\ TypeOK
  BY DEF Mined, IInv, mishaps
<1>7. net \in Networks /\ pc \in 1..Len(Work) /\ c \in Work[pc] /\ Ordered(Work, script, net)
  BY ActiveFacts DEF Arranged, Mined
<1>8. Belongs(script, net, c)
  BY <1>7 DEF Ordered
<1>1. /\ Effect(c) /\ UNCHANGED <<founders, script, net, run, status, lost, byHand>> /\ TypeOK
      /\ net \in Networks /\ Belongs(script, net, c)
  BY <1>6, <1>7, <1>8
<1>2. Cause
  BY <1>1, CauseFacts DEF Arranged
<1>3. minters \subseteq minters'
  BY <1>1, EffectByOp, EffectFrames DEF Started
<1>4. proxyOwner[net] = "avatar" => proxyOwner'[net] = "avatar"
  BY <1>1, EffectByOp, EffectFrames DEF Deployed, HandedOver, TypeOK
<1>5. script \in {"donations_upgrade", "invites_upgrade"} /\ proxyOwner[net] = "deployer"
        => proxyOwner'[net] = "deployer"
  BY <1>1, EffectByOp, EffectFrames DEF Deployed, Belongs, TypeOK
<1> QED BY <1>1, <1>2, <1>3, <1>4, <1>5, CauseStays

LEMMA MinedArranged ==
  ASSUME IInv, Arranged, NEW c, Mined(c)
  PROVE  Arranged'
<1>1. Placed'
  <2>1. Work' = Work
    BY WorkStays DEF Mined
  <2> QED BY <2>1 DEF Arranged, Placed, Mined
<1>2. Files'
  BY MinedFiles, ReleasedFiles DEF Mined
<1>3. status' \in {"running", "done"} => Progress'
  BY MinedProgress DEF Mined
<1> QED BY <1>1, <1>2, <1>3, MinedCounted, MinedProxies, MinedCause DEF Arranged

-----------------------------------------------------------------------------
(* Calls that are refused or lost, and the other steps of the script.       *)

\* A refused call has one of the causes, or the code tolerates it.
LEMMA RefusedCause ==
  ASSUME IInv, Arranged, status = "running", NEW c \in sent, ~Accepted(c), ~Tolerated(c)
  PROVE  Cause
<1>1. /\ TypeOK /\ Counted /\ Files /\ ReleasedIsLive /\ Progress
      /\ net \in Networks /\ run \in Runs /\ pc \in 1..Len(Work) /\ c \in Work[pc]
      /\ Belongs(script, net, c) /\ Prepared(Work, script, net, pc, c)
      /\ run # 0
  BY ActiveFacts DEF Arranged, IInv, Ordered, Runs
<1>2. Untouched(c)
  BY <1>1 DEF Progress, Answered
<1>3. c.op \in Ops /\ c.op \notin {"deploy", "propose", "release", "handover"}
  BY <1>1 DEF Accepted, Tolerated, Belongs
<1>4. CASE script \in Standing
  BY <1>4 DEF Cause
<1>5. CASE script \notin Standing /\ c.op = "vote"
  <2> DEFINE I == Instance(c.key)
  <2>1. c.by \in FirstHalf /\ c.by \in Voters /\ c.key \notin FixedKeys
    BY <1>1, <1>5, VoterFacts DEF Prepared, Belongs
  <2>2. Achieved(Propose(c.key))
    BY <1>1, <1>5, EarlierAchieved DEF Prepared
  <2>3. I \in proposed /\ I[2] = run
    BY <2>1, <2>2, CallFields DEF Achieved, AchievedDAO, Instance
  <2>4. I \in registered
    BY <1>5, <2>1, <2>3 DEF Accepted, Open
  <2>5. Carries(I, ballots)
    BY <1>1, <2>4 DEF Counted
  <2>6. <<I, c.by>> \notin ballots \ byHand
    BY <1>2, <1>5, <2>1 DEF Untouched
  <2> HIDE DEF I
  <2>7. \E v \in byHand : v[1][2] = run
    <3> SUFFICES ASSUME \A v \in byHand : v[1][2] # run PROVE FALSE
      OBVIOUS
    <3>1. \A g : <<I, g>> \notin byHand
      BY <2>3
    <3>2. run > 0
      BY <1>1, BoundsAssumption DEF Runs
    <3>3. ASSUME NEW g, <<I, g>> \in ballots PROVE g \in FirstHalf \ {c.by}
      <4>1. g \in FirstHalf
        BY <1>1, <2>3, <3>1, <3>2, <3>3 DEF Counted
      <4>2. g # c.by
        BY <2>6, <3>1, <3>3
      <4> QED BY <4>1, <4>2
    <3> QED BY <1>1, <2>1, <2>5, <3>3, HeadFacts
  <2>8. ~(script = "bridges" /\ ~net.mainnet)
    BY <1>5 DEF Tolerated
  <2> QED BY <2>7, <2>8 DEF Cause
<1>6. CASE script \notin Standing /\ c.op = "start"
  <2> DEFINE I == Instance(c.key)
  <2>1. c.key \notin FixedKeys /\ c.key \in SchemeKeys
    BY <1>1, <1>6 DEF Belongs
  <2>2. I \notin live
    BY <1>2, <1>6, <2>1 DEF Untouched
  <2>3. ~Startable(c.key)
    BY <1>6 DEF Accepted
  <2>4. CASE I \in registered
    <3>1. \/ c.key = "ChangeHomeBridge" /\ "bridge" \in minters
          \/ c.key \in {"DonationsUpgrade", "InvitesUpgrade"} /\ proxyOwner[net] # "avatar"
      BY <2>2, <2>3, <2>4 DEF Startable, AddFactory
    <3>2. CASE c.key = "ChangeHomeBridge" /\ "bridge" \in minters
      BY <1>1, <1>6, <3>2 DEF Belongs, Cause
    <3>3. CASE c.key \in {"DonationsUpgrade", "InvitesUpgrade"} /\ proxyOwner[net] # "avatar"
      <4>1. script \in {"donations_upgrade", "invites_upgrade"}
        BY <1>1, <1>6, <3>3 DEF Belongs
      <4>2. PICK k \in Proxies : k \in Reads(script, net)
        BY <4>1 DEF Reads, Proxies
      <4>3. proxyOwner[net] # "none"
        BY <1>1, <4>2 DEF Progress, Files
      <4>4. proxyOwner[net] = "deployer"
        BY <1>1, <3>3, <4>3 DEF TypeOK
      <4> QED BY <4>1, <4>4 DEF Cause
    <3> QED BY <3>1, <3>2, <3>3
  <2>5. CASE I \notin registered
    <3> SUFFICES ASSUME ~Lossy, ~(2 * Cardinality(FirstHalf) <= Cardinality(Voters)) PROVE FALSE
      BY DEF Cause
    <3>1. ASSUME NEW f \in FirstHalf PROVE <<I, f>> \in ballots
      <4>1. Vote(c.key, f) \in Votes(c.key)
        BY DEF Votes
      <4>2. Achieved(Vote(c.key, f))
        BY <1>1, <1>6, <4>1, EarlierAchieved DEF Prepared
      <4>3. Vote(c.key, f).op = "vote" /\ Vote(c.key, f).key = c.key /\ Vote(c.key, f).by = f
        BY DEF Vote, Call
      <4> QED BY <2>5, <4>2, <4>3 DEF Achieved, AchievedDAO
    <3>2. I \in proposed
      <4>1. \E f : f \in FirstHalf
        <5>1. Cardinality(FirstHalf) # 0
          <6>1. IsFiniteSet(FirstHalf) /\ Cardinality(FirstHalf) \in Nat /\ Cardinality(Voters) \in Nat
            BY <1>1, VoterFacts, FS_Subset, FS_CardinalityType
          <6> QED BY <6>1
        <5> QED BY <5>1, FS_EmptySet
      <4> QED BY <1>1, <3>1, <4>1 DEF Counted
    <3>3. Carries(I, ballots)
      <4>1. IsFiniteSet(FirstHalf) /\ Cardinality(FirstHalf) \in Nat /\ Cardinality(Voters) \in Nat
        BY <1>1, VoterFacts, FS_Subset, FS_CardinalityType
      <4>2. 2 * Cardinality(FirstHalf) > Cardinality(Voters)
        BY <4>1
      <4> HIDE DEF I
      <4> QED BY <1>1, <3>1, <4>2, HeadFacts
    <3> QED BY <1>1, <2>5, <3>2, <3>3 DEF Counted
  <2> QED BY <2>4, <2>5
<1>7. CASE c.op \in {"give", "setup"}
  <2>1. c.key \notin FixedKeys
    BY <1>1, <1>7 DEF Belongs, FixedKeys
  <2>2. Instance(c.key) \in live
    BY <1>7 DEF Accepted
  <2> QED BY <1>2, <1>7, <2>1, <2>2 DEF Untouched
<1>8. CASE c.op = "use"
  <2>1. ~Usable(c.key)
    BY <1>8 DEF Accepted
  <2>2. c.key \in Unguarded \cup (Guarded \cap Reads(script, net))
    BY <1>1, <1>8 DEF Belongs
  <2>3. CASE c.key \in Unguarded
    BY <2>1, <2>3 DEF Usable, Unguarded, SchemeKeys
  <2>4. CASE c.key \in Guarded \cap Reads(script, net)
    <3> DEFINE r == file[net][c.key]
    <3>1. c.key \in FileKeys /\ c.key \in LiveNames
      BY <2>4 DEF Guarded, FileKeys, LiveNames, Names, SchemeKeys
    <3>2. r # 0
      BY <1>1, <2>4 DEF Progress
    <3>3. <<c.key, r>> \in live
      BY <1>1, <3>1, <3>2 DEF ReleasedIsLive
    <3>4. c.key = "FundManager" => fmReserve[r] = file[net]["Reserve"]
      BY <1>1, <3>2 DEF Files, Twins
    <3>5. c.key = "Reserve" => <<"MarketMaker", r>> \in live
      <4>1. "MarketMaker" \in LiveNames
        BY DEF FileKeys, LiveNames, Names, SchemeKeys
      <4>2. c.key = "Reserve" => file[net]["MarketMaker"] = r
        BY <1>1 DEF Files, Twins
      <4> QED BY <1>1, <3>2, <4>1, <4>2 DEF ReleasedIsLive
    <3> QED BY <2>1, <3>1, <3>3, <3>4, <3>5 DEF Usable
  <2> QED BY <2>2, <2>3, <2>4
<1>9. CASE c.op = "upgrade"
  <2>1. script = "fuse_staking_upgrade" /\ proxyOwner[net] # "deployer"
    BY <1>1, <1>9 DEF Belongs, Accepted
  <2>2. "FuseStaking" \in Reads(script, net) /\ "FuseStaking" \in Proxies
    BY <2>1 DEF Reads, Proxies
  <2>3. proxyOwner[net] # "none"
    BY <1>1, <2>2 DEF Progress, Files
  <2>4. proxyOwner[net] = "avatar"
    BY <1>1, <2>1, <2>3 DEF TypeOK
  <2> QED BY <2>1, <2>4 DEF Cause
<1>10. CASE c.op = "throw"
  BY <1>1, <1>10 DEF Belongs, Cause
<1> QED BY <1>3, <1>4, <1>5, <1>6, <1>7, <1>8, <1>9, <1>10 DEF Ops

\* What is refused and tolerated was achieved before.
LEMMA RefusedAchieved ==
  ASSUME IInv, Arranged, status = "running", NEW c \in sent, ~Accepted(c), Tolerated(c)
  PROVE  Achieved(c)
<1>1. /\ TypeOK /\ net \in Networks /\ pc \in 1..Len(Work) /\ c \in Work[pc]
      /\ Prepared(Work, script, net, pc, c)
  BY ActiveFacts DEF Arranged, IInv, Ordered
<1>2. CASE c.op = "vote" /\ script = "bridges"
  <2>1. c.by \in Voters /\ Before(Work, pc, Propose(c.key))
    BY <1>1, <1>2, VoterFacts DEF Prepared, Standing
  <2>2. Achieved(Propose(c.key))
    BY <2>1, EarlierAchieved
  <2>3. Instance(c.key) \in proposed
    BY <2>2, CallFields DEF Achieved, AchievedDAO
  <2>4. Instance(c.key) \in registered
    BY <1>2, <2>1, <2>3 DEF Accepted, Open
  <2> QED BY <1>2, <2>4 DEF Achieved, AchievedDAO, AchievedWiring, AchievedFile
<1>3. CASE c.op = "handover"
  <2>1. PICK k \in Proxies : Before(Work, pc, Deploy(k))
    BY <1>1, <1>3 DEF Prepared
  <2>2. Achieved(Deploy(k))
    BY <2>1, EarlierAchieved
  <2>3. proxyOwner[net] # "none"
    BY <2>2, CallFields DEF Achieved, AchievedWiring
  <2>4. proxyOwner[net] = "avatar"
    BY <1>1, <1>3, <2>3 DEF Accepted, TypeOK
  <2> QED BY <1>3, <2>4 DEF Achieved, AchievedDAO, AchievedWiring, AchievedFile
<1>4. CASE c = SetUp("FuseStaking")
  BY <1>4, CallFields DEF Achieved, AchievedDAO, AchievedWiring, AchievedFile
<1> QED BY <1>2, <1>3, <1>4 DEF Tolerated

\* Steps of the script that no contract sees: only a call may be lost.
Unseen ==
  /\ UNCHANGED <<founders, env, script, net, run, dao, wiring, file, byHand>>
  /\ lost \subseteq lost'

LEMMA UnseenKeeps ==
  ASSUME IInv, Arranged, Unseen
  PROVE  /\ Counted' /\ Files' /\ ProxyBelongsToDAO'
         /\ Cause => Cause'
         /\ \A d : (Achieved(d) => Achieved(d)') /\ (Untouched(d) => Untouched(d)')
<1>1. /\ UNCHANGED <<founders, script, net, run, file, byHand>> /\ lost \subseteq lost'
      /\ UNCHANGED <<proposed, registered, live, ballots>>
      /\ UNCHANGED <<poolOf, poolUbi, fmReserve, fmRecipient, proxyOwner, minters>>
      /\ Counted /\ Files /\ ProxyBelongsToDAO
  BY DEF Unseen, dao, wiring, Arranged
<1>2. Counted'
  <2>1. \A d : Carries(d, ballots)' <=> Carries(d, ballots)
    BY <1>1, CarriesStays
  <2>2. FirstHalf' = FirstHalf
    BY <1>1 DEF FirstHalf
  <2> QED BY <1>1, <2>1, <2>2 DEF Counted
<1>3. Files'
  BY <1>1 DEF Files
<1>4. ProxyBelongsToDAO'
  BY <1>1 DEF ProxyBelongsToDAO
<1>5. Cause => Cause'
  BY <1>1, CauseStays
<1>6. ASSUME NEW d PROVE (Achieved(d) => Achieved(d)') /\ (Untouched(d) => Untouched(d)')
  <2>1. /\ \A k : Instance(k)' = Instance(k)
        /\ PoolFor' = PoolFor /\ HomeUBI' = HomeUBI /\ (Lossy => Lossy')
    BY <1>1 DEF Instance, PoolFor, HomeUBI, Lossy
  <2>2. AchievedDAO(d) => AchievedDAO(d)'
    BY <1>1, <2>1 DEF AchievedDAO
  <2>3. AchievedWiring(d) => AchievedWiring(d)'
    BY <1>1, <2>1 DEF AchievedWiring
  <2>4. AchievedFile(d) => AchievedFile(d)'
    BY <1>1, <2>1 DEF AchievedFile
  <2>5. Untouched(d) => Untouched(d)'
    BY <1>1, <2>1 DEF Untouched
  <2> QED BY <2>2, <2>3, <2>4, <2>5 DEF Achieved
<1> QED BY <1>2, <1>3, <1>4, <1>5, <1>6

LEMMA GivenUpArranged ==
  ASSUME IInv, Arranged, NEW c \in sent, Refuse(c) \/ Lose(c)
  PROVE  Arranged'
<1>1. /\ status = "running" /\ sent' = sent \ {c} /\ Unseen /\ pc' = pc
      /\ status' = IF Tolerated(c) THEN status ELSE "failed"
      /\ UNCHANGED <<founders, script, net, run, file>>
  BY DEF Refuse, Lose, Unseen, mishaps
<1>2. Work' = Work
  BY <1>1, WorkStays
<1>3. Placed'
  BY <1>1, <1>2 DEF Arranged, Placed
<1>4. CASE ~Tolerated(c)
  <2>1. Cause'
    <3>1. CASE Refuse(c)
      BY <1>1, <1>4, <3>1, RefusedCause, UnseenKeeps DEF Refuse
    <3>2. CASE Lose(c)
      <4>1. <<run, c.op>> \in lost'
        BY <3>2 DEF Lose
      <4>2. Lossy'
        BY <1>1, <4>1 DEF Lossy
      <4> QED BY <4>2 DEF Cause
    <3> QED BY <3>1, <3>2
  <2>2. FailureHasCause'
    BY <2>1 DEF FailureHasCause, Cause, Standing, Lossy
  <2>3. ~(status' \in {"running", "done"})
    BY <1>1, <1>4
  <2> QED BY <1>1, <1>3, <2>2, <2>3, UnseenKeeps DEF Arranged
<1>5. CASE Tolerated(c)
  <2>1. Achieved(c)'
    <3>1. CASE Refuse(c)
      BY <1>1, <1>5, <3>1, RefusedAchieved, UnseenKeeps DEF Refuse
    <3>2. CASE Lose(c)
      <4>1. <<run, c.op>> \in lost'
        BY <3>2 DEF Lose
      <4>2. Lossy' /\ c.op \in {"vote", "handover", "setup"}
        BY <1>1, <1>5, <4>1, CallFields DEF Lossy, Tolerated
      <4>3. AchievedDAO(c)'
        BY <4>2 DEF AchievedDAO
      <4>4. AchievedWiring(c)' /\ AchievedFile(c)'
        BY <1>1, <4>1, <4>2 DEF AchievedWiring, AchievedFile
      <4> QED BY <4>3, <4>4 DEF Achieved
    <3> QED BY <3>1, <3>2
  <2>2. ASSUME NEW i \in 1..Len(Work), NEW d \in Work[i]
        PROVE  IF Answered(i, d)' THEN Achieved(d)' ELSE Untouched(d)'
    <3>1. CASE i = pc /\ d = c
      BY <1>1, <2>1, <3>1 DEF Answered
    <3>2. CASE ~(i = pc /\ d = c)
      <4>1. Answered(i, d)' <=> Answered(i, d)
        BY <1>1, <3>2 DEF Answered
      <4>2. IF Answered(i, d) THEN Achieved(d) ELSE Untouched(d)
        BY <1>1 DEF Arranged, Progress
      <4> QED BY <1>1, <4>1, <4>2, UnseenKeeps
    <3> QED BY <3>1, <3>2
  <2>3. Progress'
    BY <1>1, <1>2, <1>5, <2>2 DEF Arranged, Progress
  <2>4. FailureHasCause'
    BY <1>1, <1>5 DEF FailureHasCause
  <2> QED BY <1>1, <1>3, <2>3, <2>4, UnseenKeeps DEF Arranged
<1> QED BY <1>4, <1>5

LEMMA OnwardArranged ==
  ASSUME IInv, Arranged, NextBatch \/ Finish \/ Crash
  PROVE  Arranged'
<1>1. /\ status = "running" /\ Unseen
      /\ UNCHANGED <<founders, script, net, run, file>>
  BY DEF NextBatch, Finish, Crash, Unseen, mishaps
<1>2. Work' = Work
  BY <1>1, WorkStays
<1>3. /\ pc \in 1..Len(Work) /\ Len(Work) \in Nat /\ script \in Scripts
      /\ sent \subseteq Work[pc] /\ run > 0
  BY <1>1, ActiveFacts DEF Arranged, Placed
<1>4. status' # "failed"
  BY <1>1 DEF NextBatch, Finish, Crash
<1>5. FailureHasCause'
  BY <1>4 DEF FailureHasCause
<1>6. CASE NextBatch
  <2>1. /\ sent = {} /\ pc < Len(Work) /\ pc' = pc + 1 /\ sent' = Work[pc + 1] /\ status' = status
    BY <1>6 DEF NextBatch, Batch, Work
  <2>2. Placed'
    BY <1>1, <1>2, <1>3, <2>1 DEF Placed
  <2>3. ASSUME NEW i \in 1..Len(Work), NEW d \in Work[i]
        PROVE  IF Answered(i, d)' THEN Achieved(d)' ELSE Untouched(d)'
    <3>1. Answered(i, d)' <=> Answered(i, d)
      BY <1>3, <2>1 DEF Answered
    <3>2. IF Answered(i, d) THEN Achieved(d) ELSE Untouched(d)
      BY <1>1 DEF Arranged, Progress
    <3> QED BY <1>1, <3>1, <3>2, UnseenKeeps
  <2>4. Progress'
    BY <1>1, <1>2, <2>1, <2>3 DEF Arranged, Progress
  <2> QED BY <1>1, <1>5, <2>2, <2>4, UnseenKeeps DEF Arranged
<1>7. CASE Finish
  <2>1. /\ sent = {} /\ pc = Len(Work) /\ pc' = pc /\ sent' = sent /\ status' = "done"
    BY <1>7 DEF Finish, Work
  <2>2. Placed'
    BY <1>1, <1>2, <1>3, <2>1 DEF Placed
  <2>3. ASSUME NEW i \in 1..Len(Work), NEW d \in Work[i]
        PROVE  IF Answered(i, d)' THEN Achieved(d)' ELSE Untouched(d)'
    <3>1. Answered(i, d)' <=> Answered(i, d)
      BY <2>1 DEF Answered
    <3>2. IF Answered(i, d) THEN Achieved(d) ELSE Untouched(d)
      BY <1>1 DEF Arranged, Progress
    <3> QED BY <1>1, <3>1, <3>2, UnseenKeeps
  <2>4. Progress'
    BY <1>1, <1>2, <2>1, <2>3 DEF Arranged, Progress
  <2> QED BY <1>1, <1>5, <2>2, <2>4, UnseenKeeps DEF Arranged
<1>8. CASE Crash
  <2>1. pc' = pc /\ sent' = sent /\ status' = "crashed"
    BY <1>8 DEF Crash
  <2>2. Placed'
    BY <1>1, <1>2, <1>3, <2>1 DEF Placed
  <2> QED BY <1>1, <1>5, <2>1, <2>2, UnseenKeeps DEF Arranged
<1> QED BY <1>6, <1>7, <1>8

\* A run begins with a number that nothing bears yet.
LEMMA RunArranged ==
  ASSUME IInv, Arranged, NEW s \in Scripts, NEW n \in NetworksOf(env), Run(s, n)
  PROVE  Arranged'
<1>1. /\ run < MaxRuns /\ Program(s, n) # Nothing
      /\ script' = s /\ net' = n /\ run' = run + 1 /\ pc' = 1 /\ sent' = Program(s, n)[1]
      /\ status' = "running" /\ TypeOK /\ run \in Nat
      /\ \A k \in Reads(s, n) : file[n][k] # 0
      /\ UNCHANGED <<founders, env, file, lost, byHand>>
      /\ UNCHANGED <<proposed, registered, live, ballots>>
      /\ UNCHANGED <<poolUbi, fmReserve, proxyOwner>>
  BY DEF Run, IInv, TypeOK, dao, wiring, mishaps
<1>2. /\ Counted /\ Files /\ ProxyBelongsToDAO
      /\ \A c \in proposed \cup live : c[2] \in Nat /\ c[2] <= run
  BY <1>1, BoundsAssumption DEF Arranged, Counted, TypeOK, Contracts
<1>3. Work' = Program(s, n)
  <2>1. Program(s, n)' = Program(s, n)
    BY <1>1, ProgramStays
  <2>2. Work' = Program(s, n)'
    BY <1>1 DEF Work
  <2> QED BY <2>1, <2>2
<1>4. 1 \in 1..Len(Program(s, n)) /\ Len(Program(s, n)) \in Nat
  BY <1>1, ProgramsFit DEF FitProgram
<1>5. Placed'
  BY <1>1, <1>3, <1>4 DEF Placed
<1>6. Counted'
  <2>1. \A d : Carries(d, ballots)' <=> Carries(d, ballots)
    BY <1>1, CarriesStays
  <2>2. \A b \in ballots : b[1][2] # run + 1
    BY <1>1, <1>2 DEF Counted
  <2>3. \A c \in proposed \cup live : c[2] <= run + 1
    BY <1>1, <1>2
  <2> QED BY <1>1, <1>2, <2>1, <2>2, <2>3 DEF Counted
<1>7. Files'
  <2>1. \A m \in Networks : \A k \in FileKeys : file[m][k] <= run + 1
    BY <1>1, <1>2, BoundsAssumption DEF Files, TypeOK
  <2>2. \A r \in Runs : poolUbi[r] <= run + 1
    BY <1>1, <1>2, BoundsAssumption DEF Files, TypeOK
  <2> QED BY <1>1, <1>2, <2>1, <2>2 DEF Files
<1>8. ASSUME NEW i \in 1..Len(Program(s, n)), NEW d \in Program(s, n)[i]
      PROVE  ~Answered(i, d)' /\ Untouched(d)'
  <2>1. ~Answered(i, d)'
    BY <1>1, <1>4 DEF Answered
  <2>2. d.key \notin FixedKeys => Instance(d.key)' = <<d.key, run + 1>>
    BY <1>1 DEF Instance
  <2>3. <<d.key, run + 1>> \notin proposed \cup live
    BY <1>1, <1>2
  <2>4. \A f : <<<<d.key, run + 1>>, f>> \notin ballots
    BY <1>2, <2>3 DEF Counted
  <2> QED BY <1>1, <2>1, <2>2, <2>3, <2>4 DEF Untouched
<1>9. Progress'
  BY <1>1, <1>3, <1>8 DEF Progress
<1>10. ProxyBelongsToDAO' /\ FailureHasCause'
  BY <1>1, <1>2 DEF ProxyBelongsToDAO, FailureHasCause
<1> QED BY <1>5, <1>6, <1>7, <1>9, <1>10 DEF Arranged

LEMMA HandVoteArranged ==
  ASSUME IInv, Arranged, NEW c \in Open, NEW f \in Voters, HandVote(c, f)
  PROVE  Arranged'
<1>1. /\ CastVote(c, f) /\ byHand' = byHand \cup {<<c, f>>} /\ ballots' = ballots \cup {<<c, f>>}
      /\ registered \subseteq registered'
      /\ UNCHANGED <<founders, env, script, net, run, pc, sent, status, lost, file>>
      /\ UNCHANGED <<proposed, live>>
      /\ UNCHANGED <<poolOf, poolUbi, fmReserve, fmRecipient, proxyOwner, minters>>
      /\ TypeOK /\ Counted /\ Files /\ ProxyBelongsToDAO /\ Placed
  BY DEF HandVote, CastVote, wiring, process, Arranged, IInv
<1>2. Work' = Work /\ FirstHalf' = FirstHalf
  BY <1>1, WorkStays DEF FirstHalf
<1>3. Placed'
  BY <1>1, <1>2 DEF Placed
<1>4. Counted'
  <2>1. /\ registered' = {d \in proposed : Carries(d, ballots')}
        /\ \A b \in ballots' : b[1] \in proposed
    BY <1>1, CountedVote
  <2>2. \A d : Carries(d, ballots)' <=> Carries(d, ballots')
    BY <1>1, CarriesStays
  <2>3. \A b \in ballots' : b[1][2] = run /\ run > 0 => b[2] \in FirstHalf \/ b \in byHand'
    BY <1>1 DEF Counted
  <2> QED BY <1>1, <1>2, <2>1, <2>2, <2>3 DEF Counted
<1>5. Files' /\ ProxyBelongsToDAO'
  BY <1>1 DEF Files, ProxyBelongsToDAO
<1>6. FailureHasCause'
  <2> SUFFICES ASSUME status = "failed" PROVE Cause'
    BY <1>1 DEF FailureHasCause, Cause, Standing, Lossy
  <2>1. Cause
    BY CauseFacts DEF Arranged
  <2> QED BY <1>1, <2>1, CauseStays
<1>7. ASSUME status \in {"running", "done"} PROVE Progress'
  <2>1. /\ \A k : Instance(k)' = Instance(k)
        /\ PoolFor' = PoolFor /\ HomeUBI' = HomeUBI /\ Lossy' = Lossy
    BY <1>1 DEF Instance, PoolFor, HomeUBI, Lossy
  <2>2. ASSUME NEW d PROVE (Achieved(d) => Achieved(d)') /\ (Untouched(d) => Untouched(d)')
    <3>1. AchievedDAO(d) => AchievedDAO(d)'
      BY <1>1, <2>1 DEF AchievedDAO
    <3>2. AchievedWiring(d) => AchievedWiring(d)'
      BY <1>1, <2>1 DEF AchievedWiring
    <3>3. AchievedFile(d) => AchievedFile(d)'
      BY <1>1, <2>1 DEF AchievedFile
    <3>4. Untouched(d) => Untouched(d)'
      BY <1>1, <2>1 DEF Untouched
    <3> QED BY <3>1, <3>2, <3>3, <3>4 DEF Achieved
  <2>3. ASSUME NEW i \in 1..Len(Work), NEW d \in Work[i]
        PROVE  IF Answered(i, d)' THEN Achieved(d)' ELSE Untouched(d)'
    <3>1. Answered(i, d)' <=> Answered(i, d)
      BY <1>1 DEF Answered
    <3>2. IF Answered(i, d) THEN Achieved(d) ELSE Untouched(d)
      BY <1>7 DEF Arranged, Progress
    <3> QED BY <2>2, <3>1, <3>2
  <2> QED BY <1>1, <1>2, <1>7, <2>3 DEF Arranged, Progress
<1> QED BY <1>1, <1>3, <1>4, <1>5, <1>6, <1>7 DEF Arranged

LEMMA StutterArranged ==
  ASSUME IInv, Arranged, UNCHANGED vars
  PROVE  Arranged'
<1>1. /\ Unseen /\ UNCHANGED <<founders, script, net, run, pc, sent, status, file>>
  BY DEF Unseen, vars, process, mishaps
<1>2. Work' = Work
  BY <1>1, WorkStays
<1>3. Placed'
  BY <1>1, <1>2 DEF Arranged, Placed
<1>4. FailureHasCause'
  <2> SUFFICES ASSUME status = "failed" PROVE Cause'
    BY <1>1 DEF FailureHasCause, Cause, Standing, Lossy
  <2>1. Cause
    BY CauseFacts DEF Arranged
  <2> QED BY <1>1, <2>1, UnseenKeeps
<1>5. ASSUME status \in {"running", "done"} PROVE Progress'
  <2>1. ASSUME NEW i \in 1..Len(Work), NEW d \in Work[i]
        PROVE  IF Answered(i, d)' THEN Achieved(d)' ELSE Untouched(d)'
    <3>1. Answered(i, d)' <=> Answered(i, d)
      BY <1>1 DEF Answered
    <3>2. IF Answered(i, d) THEN Achieved(d) ELSE Untouched(d)
      BY <1>5 DEF Arranged, Progress
    <3> QED BY <1>1, <3>1, <3>2, UnseenKeeps
  <2> QED BY <1>1, <1>2, <1>5, <2>1 DEF Arranged, Progress
<1> QED BY <1>1, <1>3, <1>4, <1>5, UnseenKeeps DEF Arranged

LEMMA InitArranged == Init => Arranged
<1> SUFFICES ASSUME Init PROVE Arranged
  OBVIOUS
<1>1. TypeOK
  BY InitInv DEF IInv
<1>2. Counted
  <2>1. \A d : ~Carries(d, ballots)
    BY <1>1, HeadFacts DEF Init
  <2> QED BY <2>1 DEF Init, Counted
<1>3. Files
  <2>1. Twins \subseteq FileKeys /\ Proxies \subseteq FileKeys
        /\ "FundManager" \in FileKeys /\ "FirstClaimPool" \in FileKeys
    BY DEF Twins, Proxies, FileKeys
  <2> QED BY <2>1 DEF Init, Files
<1>4. ProxyBelongsToDAO
  BY DEF Init, ProxyBelongsToDAO, FileKeys
<1> QED BY <1>2, <1>3, <1>4 DEF Init, Arranged, Placed, FailureHasCause

LEMMA NextArranged == IInv /\ Arranged /\ [Next]_vars => Arranged'
<1> SUFFICES ASSUME IInv, Arranged, [Next]_vars PROVE Arranged'
  OBVIOUS
<1>1. ASSUME NEW s \in Scripts, NEW n \in NetworksOf(env), Run(s, n) PROVE Arranged'
  BY <1>1, RunArranged
<1>2. ASSUME NEW c \in sent, Answer(c) \/ LateAnswer(c) PROVE Arranged'
  <2>1. Mined(c)
    BY <1>2 DEF Answer, LateAnswer, Mined
  <2> QED BY <2>1, MinedArranged
<1>3. ASSUME NEW c \in sent, Refuse(c) \/ Lose(c) PROVE Arranged'
  BY <1>3, GivenUpArranged
<1>4. CASE NextBatch \/ Finish \/ Crash
  BY <1>4, OnwardArranged
<1>5. ASSUME NEW c \in Open, NEW f \in Voters, HandVote(c, f) PROVE Arranged'
  BY <1>5, HandVoteArranged
<1>6. CASE UNCHANGED vars
  BY <1>6, StutterArranged
<1> QED BY <1>1, <1>2, <1>3, <1>4, <1>5, <1>6 DEF Next, ScriptStep

-----------------------------------------------------------------------------
\* At every moment the answered calls of the running script have done what they
\* are there for, and votes, contracts and files agree.
THEOREM AlwaysArranged == Spec => []Arranged
BY InitArranged, NextArranged, Inductive, PTL DEF Spec

\* The ProxyAdmin of every released proxy is the Avatar's, unless the call that
\* hands it over was lost.
THEOREM ProxiesBelongToDAO == Spec => []ProxyBelongsToDAO
<1>1. Arranged => ProxyBelongsToDAO
  BY DEF Arranged
<1> QED BY <1>1, AlwaysArranged, PTL

\* No script is refused a call but for the causes that FailureHasCause lists:
\* no order of mining, no earlier crash and no late transaction is one.
THEOREM FailuresHaveCauses == Spec => []FailureHasCause
<1>1. Arranged => FailureHasCause
  BY DEF Arranged
<1> QED BY <1>1, AlwaysArranged, PTL

\* What the four scripts that wire contracts have done when they are through.
LEMMA WiringWork ==
  ASSUME Len(Work) >= 1
  PROVE  /\ script \in {"sidechain_ubi", "upgradeUBIScheme"} =>
              \E i, j \in 1..Len(Work) : Start("UBIScheme") \in Work[i] /\ Release \in Work[j]
         /\ script = "mainnet" =>
              \E i, j \in 1..Len(Work) : Deploy("FundManager") \in Work[i] /\ Release \in Work[j]
         /\ script = "updateBridgeAndUBIRecipient" =>
              \E i \in 1..Len(Work) : Start("FundManagerSetUBIAndBridge") \in Work[i]
<1>1. Work # Nothing
  BY DEF Nothing
<1>2. CASE script = "sidechain_ubi"
  <2>1. Len(Work) = 7 /\ Start("UBIScheme") \in Work[6] /\ Release \in Work[7]
    BY <1>1, <1>2, ProgramOf DEF Work, SidechainUBI
  <2>2. 6 \in 1..Len(Work) /\ 7 \in 1..Len(Work)
    BY <2>1
  <2> QED BY <1>2, <2>1, <2>2
<1>3. CASE script = "upgradeUBIScheme"
  <2>1. Len(Work) = 5 /\ Start("UBIScheme") \in Work[4] /\ Release \in Work[5]
    BY <1>1, <1>3, ProgramOf DEF Work, UpgradeUBIScheme
  <2>2. 4 \in 1..Len(Work) /\ 5 \in 1..Len(Work)
    BY <2>1
  <2> QED BY <1>3, <2>1, <2>2
<1>4. CASE script = "mainnet"
  <2>1. Len(Work) = 16 /\ Deploy("FundManager") \in Work[3] /\ Release \in Work[16]
    BY <1>1, <1>4, ProgramOf DEF Work, Mainnet
  <2>2. 3 \in 1..Len(Work) /\ 16 \in 1..Len(Work)
    BY <2>1
  <2> QED BY <1>4, <2>1, <2>2
<1>5. CASE script = "updateBridgeAndUBIRecipient"
  <2>1. Len(Work) = 4 /\ Start("FundManagerSetUBIAndBridge") \in Work[4]
    BY <1>1, <1>5, ProgramOf DEF Work, UpdateBridgeAndUBIRecipient
  <2>2. 4 \in 1..Len(Work)
    BY <2>1
  <2> QED BY <1>5, <2>1, <2>2
<1> QED BY <1>2, <1>3, <1>4, <1>5

LEMMA ArrangedWired == IInv /\ Arranged => ReleasedIsWired
<1> SUFFICES ASSUME IInv, Arranged, NEW n \in NetworksOf(env)
             PROVE  LET f == file[n]  ubi == file[Home(n)]["UBIScheme"] IN
                    /\ f["FundManager"] # 0 => fmReserve[f["FundManager"]] = f["Reserve"]
                    /\ f["FirstClaimPool"] # 0 => poolUbi[f["FirstClaimPool"]] >= f["UBIScheme"]
                    /\ n = net /\ status = "done" =>
                         /\ script \in {"sidechain_ubi", "upgradeUBIScheme"} =>
                              poolUbi[f["FirstClaimPool"]] = f["UBIScheme"]
                         /\ script \in {"mainnet", "updateBridgeAndUBIRecipient"} =>
                              fmRecipient[f["FundManager"]] = ubi
  BY DEF ReleasedIsWired
<1>1. n \in Networks /\ Files
  BY DEF Networks, IInv, TypeOK, Arranged
<1>2. file[n]["FundManager"] # 0 => fmReserve[file[n]["FundManager"]] = file[n]["Reserve"]
  BY <1>1 DEF Files, Twins
<1>3. file[n]["FirstClaimPool"] # 0 => poolUbi[file[n]["FirstClaimPool"]] >= file[n]["UBIScheme"]
  BY <1>1 DEF Files
<1>4. ASSUME n = net, status = "done"
      PROVE  /\ script \in {"sidechain_ubi", "upgradeUBIScheme"} =>
                  poolUbi[file[net]["FirstClaimPool"]] = file[net]["UBIScheme"]
             /\ script \in {"mainnet", "updateBridgeAndUBIRecipient"} =>
                  fmRecipient[file[net]["FundManager"]] = HomeUBI
  <2>1. /\ script \in Scripts /\ pc \in 1..Len(Work) /\ pc = Len(Work) /\ sent = {}
        /\ Len(Work) \in Nat
    BY <1>4, ActiveFacts DEF Arranged, Progress
  <2>2. \A i \in 1..Len(Work) : \A c \in Work[i] : Achieved(c)
    <3> SUFFICES ASSUME NEW i \in 1..Len(Work), NEW c \in Work[i] PROVE Achieved(c)
      OBVIOUS
    <3>1. Answered(i, c)
      BY <2>1 DEF Answered
    <3> QED BY <1>4, <3>1 DEF Arranged, Progress
  <2>3. Len(Work) >= 1
    BY <2>1
  <2>4. CASE script \in {"sidechain_ubi", "upgradeUBIScheme"}
    <3>1. Achieved(Start("UBIScheme")) /\ Achieved(Release)
      BY <2>2, <2>3, <2>4, WiringWork
    <3>2. poolUbi[PoolFor] = run /\ \A k \in Written(script, net) : file[net][k] = run
      BY <3>1, CallFields DEF Achieved, AchievedWiring, AchievedFile
    <3>3. file[net]["UBIScheme"] = run /\ file[net]["FirstClaimPool"] = PoolFor
      BY <2>1, <2>4, <3>2, WrittenFacts DEF PoolFor
    <3> QED BY <2>4, <3>2, <3>3
  <2>5. CASE script = "mainnet"
    <3>1. Achieved(Deploy("FundManager")) /\ Achieved(Release)
      BY <2>2, <2>3, <2>5, WiringWork
    <3>2. fmRecipient[run] = HomeUBI /\ \A k \in Written(script, net) : file[net][k] = run
      BY <3>1, CallFields DEF Achieved, AchievedWiring, AchievedFile
    <3>3. file[net]["FundManager"] = run
      BY <2>5, <3>2 DEF Written
    <3> QED BY <2>5, <3>2, <3>3
  <2>6. CASE script = "updateBridgeAndUBIRecipient"
    <3>1. Achieved(Start("FundManagerSetUBIAndBridge"))
      BY <2>2, <2>3, <2>6, WiringWork
    <3> QED BY <2>6, <3>1, CallFields DEF Achieved, AchievedWiring
  <2> QED BY <2>4, <2>5, <2>6
<1> QED BY <1>2, <1>3, <1>4 DEF HomeUBI

\* The files agree with what the contracts know of each other; exactly, when
\* the script that wires them came to its end.
THEOREM ReleasedWired == Spec => []ReleasedIsWired
BY ArrangedWired, AlwaysArranged, Inductive, PTL
=============================================================================
