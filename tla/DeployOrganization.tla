------------------------ MODULE DeployOrganization ------------------------
(***************************************************************************)
(* The first migrations: 2 creates the DAO, hands the Identity, the fee    *)
(* formula and the token over to it and sets up its schemes; 3 gives the   *)
(* AdminWallet its admins and its money.  The operator may start over with *)
(* new contracts at any time.  As in DAOScripts the calls of a batch are   *)
(* mined in any order, the process may die, and a call may be lost or be   *)
(* mined after the process died.                                           *)
(***************************************************************************)
EXTENDS MigrationScripts, FiniteSets

CONSTANTS Networks,       \* networks that the migrations are run on
          Keystores,      \* possible founders of the production keystore
          MaxRuns,        \* bound: how often the DAO is created
          MaxMishaps      \* bound: processes that die and calls that are lost

ASSUME NetworksAssumption == Networks \subseteq [env : STRING, mainnet : BOOLEAN]
ASSUME KeystoresAssumption ==
  \A ks \in Keystores : \A i \in 1..Len(ks) :
    ks[i] \notin {"Avatar", "Controller", "Identity", "AdminWallet"}
ASSUME BoundsAssumption == MaxRuns \in Nat /\ MaxMishaps \in Nat

VARIABLES
  net, script, run, pc, sent, status,   \* as in DAOScripts
  org,           \* per run: the contracts of the DAO that it creates
  file,          \* the run whose DAO the address file names, or 0
  crashes, lost  \* processes that died, pairs <<run, op>> that were lost

mishaps == <<crashes, lost>>
vars == <<founders, net, script, run, pc, sent, status, org, file, mishaps>>

Runs == 1..MaxRuns
Mishaps == crashes + Cardinality(lost)
Founders == {founders[i] : i \in 1..Len(founders)}
OnDeployer(op, key) == Call(op, key, Deployer)

Ownables == {"Identity", "FeeFormula"}
Universal == {"AbsoluteVote", "UpgradeScheme", "SchemeRegistrar"}
HasWallet == ~net.mainnet

Nobody ==
  [deployed |-> {}, owner |-> [k \in Ownables |-> "none"], knows |-> {},
   admins |-> {}, pausers |-> {}, minters |-> {}, schemes |-> {}, lock |-> "none",
   params |-> {}, whitelist |-> {}, contracts |-> {}, tokens |-> {},
   walletAdmins |-> FALSE, topped |-> FALSE, funds |-> 0]

Init ==
  /\ net \in Networks
  /\ founders \in FounderLists(net.env, Keystores)
  /\ script = "none" /\ run = 0 /\ pc = 0 /\ sent = {} /\ status = "idle"
  /\ org = [r \in Runs |-> Nobody]
  /\ file = 0
  /\ crashes = 0 /\ lost = {}

-----------------------------------------------------------------------------
(* The scripts: batches, as in MigrationScripts.                            *)

\* The AdminWallet and the two setAvatar are under way together.
WithAvatar ==
  {OnDeployer("setAvatar", k) : k \in Ownables}
    \cup (IF HasWallet THEN {Deploy("AdminWallet")} ELSE {})

\* initTokenInWei is not "0" on these two: deploy-settings.json has 200000 for
\* test, and develop takes the default's 2000000000.
TestMoney ==
  IF Is(net, "test") \/ Is(net, "develop")
  THEN {OnDeployer("mint", f) : f \in Founders} ELSE {}

\* Mutant: adminWallet.address is not looked at.
MutAdministrators ==
  {OnDeployer("addIdentityAdmin", "Avatar"), OnDeployer("addPauser", "Avatar"),
   OnDeployer("addIdentityAdmin", "AdminWallet")}

Administrators ==
  {OnDeployer("addIdentityAdmin", "Avatar"), OnDeployer("addPauser", "Avatar")}
    \cup (IF HasWallet THEN {OnDeployer("addIdentityAdmin", "AdminWallet")} ELSE {})

Ownerships == {OnDeployer("transferOwnership", k) : k \in Ownables}

\* Mutant: the deployer keeps the right to mint.
MutRenounced == {}

Renounced == IF net.env = "production" THEN {OnDeployer("renounceMinter", "GoodDollar")}
             ELSE {}

VotingMachine == {Deploy(k) : k \in Universal}
Parameters == {OnDeployer("setParameters", k) : k \in Universal}

DAOContracts == {"Avatar", "Controller", "Identity"}
                  \cup (IF HasWallet THEN {"AdminWallet"} ELSE {})
Members ==
  {OnDeployer("addWhitelisted", f) : f \in Founders \ org[run].whitelist}
    \cup {OnDeployer("addContract", k) : k \in DAOContracts}

\* Mutant: the ownerships are transferred before the roles are given.
MutOrganization ==
  <<{Deploy("Identity")}, {OnDeployer("setAuthenticationPeriod", "Identity")},
    {Deploy("FeeFormula")}, {Deploy("ControllerCreator")}, {Deploy("AddFounders")},
    {Deploy("DaoCreator")}, {OnDeployer("forgeOrg", "DaoCreator")},
    WithAvatar, TestMoney, Ownerships, Administrators, Renounced,
    VotingMachine, Parameters, {OnDeployer("setSchemes", "DaoCreator")},
    Members, {Release}>>

Organization ==
  <<{Deploy("Identity")}, {OnDeployer("setAuthenticationPeriod", "Identity")},
    {Deploy("FeeFormula")}, {Deploy("ControllerCreator")}, {Deploy("AddFounders")},
    {Deploy("DaoCreator")}, {OnDeployer("forgeOrg", "DaoCreator")},
    WithAvatar, TestMoney, Administrators, Ownerships, Renounced,
    VotingMachine, Parameters, {OnDeployer("setSchemes", "DaoCreator")},
    Members, {Release}>>

\* Mutant: the balance is not looked at.
MutAdminWalletScript ==
  <<{OnDeployer("fund", "AdminWallet")},
    {OnDeployer("addAdmins", "AdminWallet")}, {OnDeployer("topAdmins", "AdminWallet")}>>

\* The wallet is filled up to its amount again, so it never holds much more
\* than twice that.  What the admins are given out of it counts for little.
AdminWalletScript ==
  <<IF org[run].funds <= 1 THEN {OnDeployer("fund", "AdminWallet")} ELSE {},
    {OnDeployer("addAdmins", "AdminWallet")}, {OnDeployer("topAdmins", "AdminWallet")}>>

Batches == IF script = "organization" THEN Organization ELSE AdminWalletScript
Length == IF script = "organization" THEN 17 ELSE 3

-----------------------------------------------------------------------------
(* The contracts: what a call does to the DAO o, and when it is accepted.   *)

\* A constructor makes its sender the owner, and Identity's admin and pauser.
Constructed(o, k) ==
  [o EXCEPT !.deployed = @ \cup {k},
            !.owner = [j \in Ownables |-> IF j = k THEN Deployer ELSE @[j]],
            !.admins = IF k = "Identity" THEN @ \cup {Deployer} ELSE @,
            !.pausers = IF k = "Identity" THEN @ \cup {Deployer} ELSE @]

\* forgeOrg: the creator is the one scheme, its caller holds the lock and may
\* mint, and the founders have the reputation.
Forged(o) ==
  [o EXCEPT !.deployed = @ \cup {"Avatar", "Controller", "GoodDollar", "Reputation"},
            !.minters = {Deployer, "Avatar", "Controller"},
            !.schemes = {"DaoCreator"}, !.lock = Deployer]

\* Mutant: schemesArray leaves the Identity out.
MutInitialSchemes == {"SchemeRegistrar", "UpgradeScheme", "FeeFormula"}

\* setSchemes registers what it is given, then removes its own rights.
InitialSchemes == {"SchemeRegistrar", "UpgradeScheme", "Identity", "FeeFormula"}
SchemesSet(o) ==
  [o EXCEPT !.schemes = (@ \cup InitialSchemes) \ {"DaoCreator"}, !.lock = "none"]

Listed(o, a) == [o EXCEPT !.whitelist = @ \cup {a}]

After(o, c) ==
  CASE c.op = "deploy" -> Constructed(o, c.key)
    [] c.op = "forgeOrg" -> Forged(o)
    [] c.op = "setAvatar" -> [o EXCEPT !.knows = @ \cup {c.key}]
    [] c.op = "mint" -> [o EXCEPT !.tokens = @ \cup {c.key}]
    [] c.op = "addIdentityAdmin" -> [o EXCEPT !.admins = @ \cup {c.key}]
    [] c.op = "addPauser" -> [o EXCEPT !.pausers = @ \cup {c.key}]
    [] c.op = "transferOwnership" -> [o EXCEPT !.owner[c.key] = "Avatar"]
    [] c.op = "renounceMinter" -> [o EXCEPT !.minters = @ \ {Deployer}]
    [] c.op = "setParameters" -> [o EXCEPT !.params = @ \cup {c.key}]
    [] c.op = "setSchemes" -> SchemesSet(o)
    [] c.op = "addWhitelisted" -> Listed(o, c.key)
    [] c.op = "addContract" -> [Listed(o, c.key) EXCEPT !.contracts = @ \cup {c.key}]
    [] c.op = "fund" -> [o EXCEPT !.funds = @ + 1]
    [] c.op = "addAdmins" -> [o EXCEPT !.walletAdmins = TRUE]
    [] c.op = "topAdmins" -> [o EXCEPT !.topped = TRUE]
    [] OTHER -> o

\* onlyRegistered, onlyIdentityAdmin, and Roles refuse what is listed already.
MayList(o, a) ==
  /\ "Identity" \in o.knows \cap o.schemes
  /\ Deployer \in o.admins
  /\ a \notin o.whitelist

Accepted(o, c) ==
  CASE c.op = "setAuthenticationPeriod" -> o.owner["Identity"] = Deployer
    [] c.op = "forgeOrg" -> o.lock = "none"
    [] c.op \in {"setAvatar", "transferOwnership"} -> o.owner[c.key] = Deployer
    [] c.op \in {"mint", "renounceMinter"} -> Deployer \in o.minters
    [] c.op = "addIdentityAdmin" -> o.owner["Identity"] = Deployer /\ c.key \notin o.admins
    [] c.op = "addPauser" -> Deployer \in o.pausers /\ c.key \notin o.pausers
    [] c.op = "setSchemes" -> o.lock = Deployer /\ "DaoCreator" \in o.schemes
    [] c.op \in {"addWhitelisted", "addContract"} -> MayList(o, c.key)
    [] c.op = "topAdmins" -> o.walletAdmins /\ o.funds > 0
    [] OTHER -> TRUE

Tolerated(c) == c.op \in {"addAdmins", "topAdmins"}

-----------------------------------------------------------------------------
(* The operator and the running script.                                     *)

CreateOrganization ==
  /\ status # "running"
  /\ run < MaxRuns
  /\ script' = "organization"
  /\ run' = run + 1 /\ pc' = 1 /\ sent' = {Deploy("Identity")} /\ status' = "running"
  /\ UNCHANGED <<founders, net, org, file, mishaps>>

\* truffle runs migration 3 when 2 is complete; it returns on these networks.
SetUpWallet ==
  /\ status # "running"
  /\ script = "adminwallet" \/ (script = "organization" /\ status = "done")
  /\ HasWallet /\ net.env \notin {"ganache", "test", "coverage"}
  /\ script' = "adminwallet"
  /\ pc' = 1 /\ sent' = AdminWalletScript[1] /\ status' = "running"
  /\ UNCHANGED <<founders, net, run, org, file, mishaps>>

Effect(c) ==
  /\ org' = [org EXCEPT ![run] = After(@, c)]
  /\ file' = IF c.op = "release" THEN run ELSE file

Answer(c) ==
  /\ status = "running"
  /\ c \in sent
  /\ Accepted(org[run], c)
  /\ Effect(c)
  /\ sent' = sent \ {c}
  /\ UNCHANGED <<founders, net, script, run, pc, status, mishaps>>

Refuse(c) ==
  /\ status = "running"
  /\ c \in sent
  /\ ~Accepted(org[run], c)
  /\ sent' = sent \ {c}
  /\ status' = IF Tolerated(c) THEN status ELSE "failed"
  /\ UNCHANGED <<founders, net, script, run, pc, org, file, mishaps>>

Lose(c) ==
  /\ status = "running"
  /\ Mishaps < MaxMishaps
  /\ c \in sent /\ c.op # "release"
  /\ lost' = lost \cup {<<run, c.op>>}
  /\ sent' = sent \ {c}
  /\ status' = IF Tolerated(c) THEN status ELSE "failed"
  /\ UNCHANGED <<founders, net, script, run, pc, org, file, crashes>>

NextBatch ==
  /\ status = "running" /\ sent = {}
  /\ pc < Length
  /\ pc' = pc + 1
  /\ sent' = Batches[pc + 1]
  /\ UNCHANGED <<founders, net, script, run, status, org, file, mishaps>>

Finish ==
  /\ status = "running" /\ sent = {}
  /\ pc = Length
  /\ status' = "done"
  /\ UNCHANGED <<founders, net, script, run, pc, sent, org, file, mishaps>>

Crash ==
  /\ status = "running"
  /\ Mishaps < MaxMishaps
  /\ crashes' = crashes + 1
  /\ status' = "crashed"
  /\ UNCHANGED <<founders, net, script, run, pc, sent, org, file, lost>>

LateAnswer(c) ==
  /\ status \in {"failed", "crashed"}
  /\ c \in sent
  /\ c.op # "release"
  /\ Accepted(org[run], c)
  /\ Effect(c)
  /\ sent' = sent \ {c}
  /\ UNCHANGED <<founders, net, script, run, pc, status, mishaps>>

Next ==
  \/ CreateOrganization \/ SetUpWallet
  \/ \E c \in sent : Answer(c) \/ Refuse(c) \/ Lose(c) \/ LateAnswer(c)
  \/ NextBatch \/ Finish \/ Crash

Spec == Init /\ [][Next]_vars

-----------------------------------------------------------------------------
Made == {"Identity", "FeeFormula", "ControllerCreator", "AddFounders", "DaoCreator",
         "Avatar", "Controller", "GoodDollar", "Reputation", "AdminWallet"} \cup Universal
Organizations ==
  [deployed : SUBSET Made, owner : [Ownables -> {"none", Deployer, "Avatar"}],
   knows : SUBSET Ownables, admins : SUBSET {Deployer, "Avatar", "AdminWallet"},
   pausers : SUBSET {Deployer, "Avatar"},
   minters : SUBSET {Deployer, "Avatar", "Controller"},
   schemes : SUBSET (InitialSchemes \cup {"DaoCreator"}), lock : {"none", Deployer},
   params : SUBSET Universal, whitelist : SUBSET (Founders \cup DAOContracts),
   contracts : SUBSET DAOContracts, tokens : SUBSET Founders,
   walletAdmins : BOOLEAN, topped : BOOLEAN, funds : Nat]

\* The state has its type, and no role is given to a contract that is not there.
TypeOK ==
  /\ net \in Networks /\ founders \in FounderLists(net.env, Keystores)
  /\ script \in {"none", "organization", "adminwallet"}
  /\ run \in 0..MaxRuns /\ pc \in 0..17
  /\ status \in {"idle", "running", "done", "failed", "crashed"}
  /\ org \in [Runs -> Organizations]
  /\ \A r \in Runs : org[r].admins \cup org[r].contracts \subseteq org[r].deployed \cup {Deployer}
  /\ file \in 0..run
  /\ crashes \in Nat

\* A DAO whose founders decide by vote, and what the deployer keeps of it: an
\* admin's and a pauser's place in the Identity, and outside production the
\* right to mint.
VotersGovern(o) ==
  /\ o.lock = "none" /\ o.schemes = InitialSchemes
  /\ Universal \subseteq o.deployed \cap o.params
HandedOver(o) ==
  /\ \A k \in Ownables : o.owner[k] = "Avatar" /\ k \in o.knows
  /\ "Avatar" \in o.admins \cap o.pausers \cap o.minters
  /\ net.env = "production" => Deployer \notin o.minters
  /\ HasWallet => "AdminWallet" \in o.admins
  /\ o.contracts = DAOContracts /\ o.whitelist = Founders \cup DAOContracts

\* The address file names only a DAO that its founders govern, that was handed
\* over and whose members are listed, whichever runs died on the way.
ReleasedIsGoverned ==
  file # 0 => VotersGovern(org[file]) /\ HandedOver(org[file])

\* Wherever a run dies, the DAO it leaves has exactly one governor: the
\* deployer who holds the lock of the one scheme, or the voters.  And a
\* contract that was handed to the Avatar knows it, and the Identity lists it
\* as admin, so that nobody is needed who has given up the ownership.
Governed(o) ==
  /\ "Avatar" \in o.deployed =>
       \/ o.lock = Deployer /\ o.schemes = {"DaoCreator"}
       \/ VotersGovern(o)
  /\ \A k \in Ownables : o.owner[k] = "Avatar" => k \in o.knows
  /\ o.owner["Identity"] = "Avatar" => "Avatar" \in o.admins \cap o.pausers
NeverOrphaned == \A r \in Runs : Governed(org[r])

\* The migrations fail only if a call is lost: in no order in which the calls
\* of a batch are mined does one of them lack a right that the deployer has
\* given away, not yet received, or used before.
NoCallRefused == status = "failed" => \E l \in lost : l[1] = run

\* When migration 3 is complete and lost no call, the AdminWallet of the DAO
\* in the file has its admins and its money, and may list users.  Running the
\* script again does not change that, nor fill the wallet a third time.
WalletServes ==
  status = "done" /\ script = "adminwallet" =>
    LET o == org[run] IN
    /\ run = file
    /\ o.funds \in 1..2
    /\ "AdminWallet" \in o.admins \cap o.contracts
    /\ (\A l \in lost : l[1] # run) => o.walletAdmins /\ o.topped
=============================================================================
