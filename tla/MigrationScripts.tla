------------------------- MODULE MigrationScripts -------------------------
(***************************************************************************)
(* What the deployment and upgrade scripts do, one definition per script.  *)
(*                                                                         *)
(* A script is a sequence of batches.  A batch is the set of calls that    *)
(* the script has under way at one await: one call where the code awaits   *)
(* it alone, several where it awaits a Promise.all.  The script goes on    *)
(* when every call of the batch is answered, and stops at the first one    *)
(* that is refused, unless the code catches it.  DAOScripts runs the       *)
(* batches; this module only says what they are.                           *)
(*                                                                         *)
(* A call is a record: what is called (op), on which contract (key, the    *)
(* contract's name), and from whose account (by).  Logging, gas prices and *)
(* the parameters of the contracts are left out.                           *)
(***************************************************************************)
EXTENDS Naturals, Sequences

VARIABLE founders   \* the accounts that getFounders returns, in their order

Deployer == "deployer"          \* accounts[0] of the script

Call(op, key, by) == [op |-> op, key |-> key, by |-> by]

Deploy(k)  == Call("deploy", k, Deployer)    \* deployer.deploy, Contract.new
Propose(k) == Call("propose", k, Deployer)   \* schemeRegistrar.proposeScheme
Vote(k, f) == Call("vote", k, f)             \* absoluteVote.vote
Start(k)   == Call("start", k, Deployer)     \* what the scheme is there for
SetUp(k)   == Call("setup", k, Deployer)     \* an owner's call on a new contract
Give(k)    == Call("give", k, Deployer)      \* transferOwnership to its user
Use(k)     == Call("use", k, Deployer)       \* a call of a released contract
Handover   == Call("handover", "ProxyAdmin", Deployer)
Upgrade(k) == Call("upgrade", k, Deployer)   \* upgrades.upgradeProxy
Throw      == Call("throw", "script", Deployer)
Release    == Call("release", "file", Deployer)

Nothing == << >>                             \* the script returns at once

-----------------------------------------------------------------------------
(* Networks.  A name such as "production-mainnet" is the environment        *)
(* "production" on the main chain; "test" and "develop" play both chains.   *)

Is(n, env) == n = [env |-> env, mainnet |-> FALSE]
Home(n) == [env |-> n.env, mainnet |-> FALSE]
BothChains(n) == n.mainnet \/ Is(n, "test") \/ Is(n, "develop")

\* getFounders: the accounts of the keystore in production, one elsewhere.
FounderLists(env, keystores) ==
  IF env = "production" THEN keystores ELSE {<<"account1">>}

\* founders.slice(0, Math.ceil(founders.length / 2))
FirstHalf == {founders[i] : i \in 1..((Len(founders) + 1) \div 2)}

\* The hardhat scripts have three signers outside production, of which only the
\* first was made a founder.
Signers(n) == IF n.env = "production" THEN founders
              ELSE <<founders[1], "account2", "account3">>
AllButFirst(n) == {Signers(n)[i] : i \in 2..Len(Signers(n))}

Votes(k) == {Vote(k, f) : f \in FirstHalf}
VotesOfFirst(k) == {Vote(k, founders[1])}
VotesOfRest(n, k) == {Vote(k, f) : f \in AllButFirst(n)}

-----------------------------------------------------------------------------
(* The core package: migrations/4 to 8.                                     *)

DeployNewUBI(n) ==
  IF n.mainnet \/ n.env # "test" THEN Nothing
  ELSE <<{Deploy("UBI")}, {Propose("UBI")}, VotesOfFirst("UBI"), {Release}>>

DeployNewSignup(n) ==
  IF n.mainnet \/ n.env # "test" THEN Nothing
  ELSE <<{Deploy("SignupBonus")}, {Use("AdminWallet")}, {Propose("SignupBonus")},
         VotesOfFirst("SignupBonus"), {Start("SignupBonus")}, {Release}>>

\* Mutant: the migration ends when the votes are cast.
MutDeployNewOTP(n) ==
  IF n.mainnet THEN Nothing
  ELSE <<{Deploy("OneTimePayments")}, {Propose("OneTimePayments")},
         Votes("OneTimePayments"), {Release}>>

DeployNewOTP(n) ==
  IF n.mainnet THEN Nothing
  ELSE <<{Deploy("OneTimePayments")}, {Propose("OneTimePayments")},
         Votes("OneTimePayments"), {Start("OneTimePayments")}, {Release}>>

DeployHomeBridge ==
  <<{Deploy("HomeBridge")}, {Propose("HomeBridge")}, Votes("HomeBridge"),
    {Start("HomeBridge")}, {Release}>>

DeployForeignBridge ==
  <<{Deploy("ForeignBridge")}, {Propose("ForeignBridge")}, Votes("ForeignBridge"),
    {Start("ForeignBridge")}, {Release}>>

\* includes() compares whole names: the home bridge is for the home networks.
DeployBridges(n) ==
  IF \E env \in {"fuse", "staging", "production"} : Is(n, env)
  THEN DeployHomeBridge
  ELSE IF n.mainnet THEN DeployForeignBridge
  ELSE <<{Release}>>

\* The scheme and its proposal were made before: only the vote and the call.
MintMoreRep ==
  <<VotesOfFirst("ReputationMintOnce"), {Start("ReputationMintOnce")}>>

-----------------------------------------------------------------------------
(* The staking package: stakingModel/migrations/2 to 4 and its scripts.     *)

SidechainUBI(n) ==
  IF n.mainnet \/ n.env = "tdd" THEN Nothing
  ELSE <<{Deploy("FirstClaimPool")}, {Deploy("UBIScheme")},
         {Propose("UBIScheme"), Propose("FirstClaimPool")},
         Votes("UBIScheme"), Votes("FirstClaimPool"),
         {Start("UBIScheme"), Start("FirstClaimPool")}, {Release}>>

\* The mock token, bridge and Compound of the test networks come first.
Mainnet(n) ==
  IF n.env = "tdd" \/ ~BothChains(n) THEN Nothing
  ELSE <<IF n.mainnet THEN {} ELSE {Deploy("ForeignBridgeMock"), Deploy("DAI")},
         IF n.mainnet THEN {} ELSE {Deploy("cDAI")},
         {Deploy("FundManager"), Deploy("Contribution"), Deploy("MarketMaker")},
         {Deploy("DAIStaking"), Deploy("Reserve")},
         {SetUp("MarketMaker")}, {Give("MarketMaker")},
         {Propose("Reserve"), Propose("FundManager"), Propose("DAIStaking")},
         Votes("Reserve"), Votes("FundManager"), Votes("DAIStaking"),
         {Start("Reserve"), Start("FundManager"), Start("DAIStaking")},
         {Deploy("FundManagerSetReserve")}, {Propose("FundManagerSetReserve")},
         Votes("FundManagerSetReserve"), {Start("FundManagerSetReserve")},
         {Release}>>

\* Test money for the two chains; "develop" is both.  A transfer is named for
\* its recipient.
FundHome == <<{Use("GoodDollar")}, {Use("UBIScheme"), Use("FirstClaimPool")}>>
FundMain ==
  <<{Use("DAI")}, {Use("DAI"), Use("cDAI")}, {Use("DAIStaking"), Use("cDAI")},
    {Use("DAIStaking"), Use("cDAI")}, {Use("Reserve")}>>
DeployDev(n) ==
  IF n.env \in {"tdd", "production", "test"} THEN Nothing
  ELSE (IF n.mainnet THEN << >> ELSE FundHome)
         \o (IF n.mainnet \/ Is(n, "develop") THEN FundMain ELSE << >>)

UpgradeUBIScheme ==
  <<{Deploy("UBIScheme")}, {Propose("UBIScheme")}, Votes("UBIScheme"),
    {Start("UBIScheme")}, {Release}>>

UpdateBridgeAndUBIRecipient(n) ==
  IF ~n.mainnet THEN Nothing
  ELSE <<{Deploy("FundManagerSetUBIAndBridge")}, {Propose("FundManagerSetUBIAndBridge")},
         Votes("FundManagerSetUBIAndBridge"), {Start("FundManagerSetUBIAndBridge")}>>

UpdateAuthPeriod(n) ==
  IF n.mainnet THEN Nothing
  ELSE <<{Deploy("ChangeAuthPeriod")}, {Propose("ChangeAuthPeriod")},
         Votes("ChangeAuthPeriod"), {Start("ChangeAuthPeriod")}>>

UpdateHomeBridge(n) ==
  IF n.mainnet THEN Nothing
  ELSE <<{Deploy("ChangeHomeBridge")}, {Propose("ChangeHomeBridge")},
         Votes("ChangeHomeBridge"), {Start("ChangeHomeBridge")}>>

\* The log line after the deployment reads newAuthPeriod, which nothing
\* declares: the script throws there, and what follows is never reached.
UpdateUBICyclePeriod(n) ==
  IF n.mainnet THEN Nothing
  ELSE <<{Deploy("ChangeUBICyclePeriod")}, {Throw}, {Propose("ChangeUBICyclePeriod")},
         Votes("ChangeUBICyclePeriod"), {Start("ChangeUBICyclePeriod")}>>

\* canCollect() is read first; transferInterest is the one transaction.
CollectInterest(n) ==
  IF n.env \in {"production", "test"} \/ ~BothChains(n) THEN Nothing
  ELSE <<{Use("DAIStaking")}, {Use("FundManager")}>>

FakeInterest(n) ==
  IF ~(n.mainnet \/ Is(n, "develop")) THEN Nothing
  ELSE <<{Use("DAI")}, {Use("DAI")}, {Use("cDAI")}, {Use("DAIStaking")}>>

-----------------------------------------------------------------------------
(* The upgradables package.                                                 *)

\* Mutant: nobody transfers the ProxyAdmin.
MutNewProxy(k) == <<{Deploy(k)}, {Release}>>

\* deployOrDAOUpgrade without a proxy: the ProxyAdmin goes to the Avatar.
NewProxy(k) == <<{Deploy(k)}, {Handover}, {Release}>>

\* deployOrDAOUpgrade with a proxy whose contract changed: the implementation,
\* then a scheme that the DAO votes on, then its call.
DeployUpgrade(k) == {Deploy(k)}
ProposeUpgrade(k) == {Propose(k)}
VoteUpgrade(k) == Votes(k)
UpgradeByDAO(impl, k) ==
  <<{Deploy(impl)}, DeployUpgrade(k), ProposeUpgrade(k), VoteUpgrade(k), {Start(k)}>>

\* On "test" the addresses are those of "test-mainnet", which no script writes.
Donations(n) ==
  IF ~(n.mainnet \/ Is(n, "develop")) THEN Nothing ELSE NewProxy("DonationsStaking")

DonationsUpgrade(n) ==
  IF ~(n.mainnet \/ Is(n, "develop")) THEN Nothing
  ELSE UpgradeByDAO("DonationsImpl", "DonationsUpgrade")

Invites(n) ==
  IF n.mainnet \/ n.env = "tdd" THEN Nothing ELSE NewProxy("Invites")

InvitesUpgrade(n) ==
  IF n.mainnet \/ n.env = "tdd" THEN Nothing
  ELSE UpgradeByDAO("InvitesImpl", "InvitesUpgrade")

\* A scheme and a proposal that exist; everybody but the first founder votes.
UpgradeScheme(n) ==
  <<VotesOfRest(n, "UpgradeImplSchemeV2"), {Start("UpgradeImplSchemeV2")}>>

DeployFuseFaucet == <<{Deploy("FuseFaucet")}, {Release}>>

\* The file is written while upgrade1 is under way: the code awaits only it,
\* and whatever becomes of it the file is written.
DeployFuseStaking == <<{Deploy("FuseStaking")}, {Release, SetUp("FuseStaking")}>>

UpgradeFuseStaking == <<{Deploy("FuseStakingImpl")}, {Upgrade("FuseStaking")},
                           {Use("FuseStaking")}>>

-----------------------------------------------------------------------------
(* The table of the scripts, with what each needs and what it writes.       *)

Scripts ==
  {"new_ubi", "new_signup", "new_otp", "bridges", "mint_rep", "sidechain_ubi",
   "mainnet", "dev", "upgradeUBIScheme", "updateBridgeAndUBIRecipient",
   "updateAuthPeriod", "updateHomeBridge", "updateUBICyclePeriod",
   "collect_interest", "fake_interest", "donations", "donations_upgrade",
   "invites", "invites_upgrade", "upgradeScheme", "fuse_faucet", "fuse_staking",
   "fuse_staking_upgrade"}

Program(s, n) ==
  CASE s = "new_ubi" -> DeployNewUBI(n)
    [] s = "new_signup" -> DeployNewSignup(n)
    [] s = "new_otp" -> DeployNewOTP(n)
    [] s = "bridges" -> DeployBridges(n)
    [] s = "mint_rep" -> MintMoreRep
    [] s = "sidechain_ubi" -> SidechainUBI(n)
    [] s = "mainnet" -> Mainnet(n)
    [] s = "dev" -> DeployDev(n)
    [] s = "upgradeUBIScheme" -> UpgradeUBIScheme
    [] s = "updateBridgeAndUBIRecipient" -> UpdateBridgeAndUBIRecipient(n)
    [] s = "updateAuthPeriod" -> UpdateAuthPeriod(n)
    [] s = "updateHomeBridge" -> UpdateHomeBridge(n)
    [] s = "updateUBICyclePeriod" -> UpdateUBICyclePeriod(n)
    [] s = "collect_interest" -> CollectInterest(n)
    [] s = "fake_interest" -> FakeInterest(n)
    [] s = "donations" -> Donations(n)
    [] s = "donations_upgrade" -> DonationsUpgrade(n)
    [] s = "invites" -> Invites(n)
    [] s = "invites_upgrade" -> InvitesUpgrade(n)
    [] s = "upgradeScheme" -> UpgradeScheme(n)
    [] s = "fuse_faucet" -> DeployFuseFaucet
    [] s = "fuse_staking" -> DeployFuseStaking
    [] s = "fuse_staking_upgrade" -> UpgradeFuseStaking

\* Contracts that the scripts propose to the DAO as schemes.
SchemeKeys ==
  {"UBI", "SignupBonus", "OneTimePayments", "HomeBridge", "ForeignBridge",
   "ReputationMintOnce", "UBIScheme", "FirstClaimPool", "Reserve", "FundManager",
   "DAIStaking", "FundManagerSetReserve", "FundManagerSetUBIAndBridge",
   "ChangeAuthPeriod", "ChangeHomeBridge", "ChangeUBICyclePeriod",
   "DonationsUpgrade", "InvitesUpgrade", "UpgradeImplSchemeV2"}

\* Schemes whose proposal the script finds ready made.
FixedKeys == {"ReputationMintOnce", "UpgradeImplSchemeV2"}

\* The names that the scripts add to a network's record in the address files,
\* as far as they are contracts that the scripts deploy or start themselves.
\* The home and foreign bridge are recorded under what their scheme deployed.
Written(s, n) ==
  CASE s = "new_ubi" -> {"UBI"}
    [] s = "new_signup" -> {"SignupBonus"}
    [] s = "new_otp" -> {"OneTimePayments"}
    [] s = "bridges" /\ n.mainnet -> {"ForeignBridge"}
    [] s = "bridges" /\ ~n.mainnet /\ n.env \in {"fuse", "staging", "production"} ->
         {"HomeBridge"}
    [] s = "sidechain_ubi" -> {"UBIScheme", "FirstClaimPool"}
    [] s = "upgradeUBIScheme" -> {"UBIScheme"}
    [] s = "mainnet" -> {"FundManager", "DAIStaking", "Reserve", "MarketMaker"}
    [] s = "donations" -> {"DonationsStaking"}
    [] s = "invites" -> {"Invites"}
    [] s = "fuse_faucet" -> {"FuseFaucet"}
    [] s = "fuse_staking" -> {"FuseStaking"}
    [] OTHER -> {}

FileKeys ==
  {"UBI", "SignupBonus", "OneTimePayments", "HomeBridge", "ForeignBridge",
   "UBIScheme", "FirstClaimPool", "FundManager", "DAIStaking", "Reserve",
   "MarketMaker", "DonationsStaking", "Invites", "FuseFaucet", "FuseStaking"}

\* The file of the upgradables package; the faucet's and the FuseStaking
\* script write a record that holds their own address and nothing else.
UpgradableKeys == {"DonationsStaking", "Invites", "FuseFaucet", "FuseStaking"}
Dropped(s) == IF s \in {"fuse_faucet", "fuse_staking"} THEN UpgradableKeys ELSE {}

\* Addresses that a script reads from the record of the network it runs on.
Reads(s, n) ==
  CASE s = "dev" /\ n.mainnet -> {"DAIStaking", "Reserve"}
    [] s = "dev" /\ Is(n, "develop") ->
         {"UBIScheme", "FirstClaimPool", "DAIStaking", "Reserve"}
    [] s = "dev" /\ ~n.mainnet /\ ~Is(n, "develop") -> {"UBIScheme", "FirstClaimPool"}
    [] s = "upgradeUBIScheme" -> {"FirstClaimPool"}
    [] s = "updateBridgeAndUBIRecipient" -> {"FundManager"}
    [] s = "collect_interest" -> {"DAIStaking", "FundManager"}
    [] s = "fake_interest" -> {"DAIStaking"}
    [] s = "donations" -> {"DAIStaking"}
    [] s = "donations_upgrade" -> {"DAIStaking", "DonationsStaking"}
    [] s = "invites_upgrade" -> {"Invites"}
    [] s = "fuse_staking" -> {"UBIScheme"}
    [] s = "fuse_staking_upgrade" -> {"FuseStaking"}
    [] OTHER -> {}

\* ... and from the record of the home network.
ReadsHome(s) ==
  IF s \in {"mainnet", "updateBridgeAndUBIRecipient"} THEN {"UBIScheme"} ELSE {}

\* A script that finds this name in the record upgrades the proxy instead.  The
\* other deployments of proxies can be forced by the environment.
NotYet(s) == IF s = "donations" THEN {"DonationsStaking"} ELSE {}
=============================================================================
