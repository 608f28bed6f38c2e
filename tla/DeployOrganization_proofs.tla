-------------------- MODULE DeployOrganization_proofs --------------------
(***************************************************************************)
(* Proofs about DeployOrganization: whatever is lost, whenever a run dies, *)
(* and however the calls of a batch are ordered, the DAO has a governor,   *)
(* the file names a DAO that was handed over, and a wallet that was set up *)
(* serves.                                                                 *)
(***************************************************************************)
EXTENDS DeployOrganization, TLAPS

(* What the calls of batch j that were answered, or not yet sent or         *)
(* answered, say of the DAO under construction.  Here p is the batch, s the *)
(* calls under way, and b whether none of them can have been given up.      *)
Did(p, s, b, j, c) == p > j \/ (p = j /\ c \notin s /\ b)
Pending(p, s, j, c) == p < j \/ (p = j /\ c \in s)

NewAdmins == {"Avatar"} \cup (IF HasWallet THEN {"AdminWallet"} ELSE {})

\* Facts that hold of every DAO at every moment.
Sound(o) ==
  /\ \A k \in Ownables : k \in o.deployed => o.owner[k] # "none"
  /\ "Identity" \in o.deployed => Deployer \in o.admins \cap o.pausers
  /\ "Avatar" \notin o.deployed => o.lock = "none" /\ o.schemes = {}
  /\ "Avatar" \in o.deployed =>
       {"Avatar", "Controller", "GoodDollar", "Reputation"} \subseteq o.deployed
  /\ "Avatar" \in o.deployed => {"Avatar", "Controller"} \subseteq o.minters
  /\ Governed(o)

Deployments(o, p, s, b) ==
  /\ \A k \in Ownables :
       Did(p, s, b, IF k = "Identity" THEN 1 ELSE 3, Deploy(k)) => k \in o.deployed
  /\ Did(p, s, b, 7, OnDeployer("forgeOrg", "DaoCreator")) => "Avatar" \in o.deployed
  /\ Pending(p, s, 7, OnDeployer("forgeOrg", "DaoCreator")) => "Avatar" \notin o.deployed
  /\ HasWallet /\ Did(p, s, b, 8, Deploy("AdminWallet")) => "AdminWallet" \in o.deployed
  /\ \A k \in Universal : Did(p, s, b, 13, Deploy(k)) => k \in o.deployed

Rights(o, p, s, b) ==
  /\ \A a \in NewAdmins :
       /\ Did(p, s, b, 10, OnDeployer("addIdentityAdmin", a)) => a \in o.admins
       /\ Pending(p, s, 10, OnDeployer("addIdentityAdmin", a)) => a \notin o.admins
  /\ Did(p, s, b, 10, OnDeployer("addPauser", "Avatar")) => "Avatar" \in o.pausers
  /\ Pending(p, s, 10, OnDeployer("addPauser", "Avatar")) => "Avatar" \notin o.pausers
  /\ \A k \in Ownables :
       /\ Did(p, s, b, 8, OnDeployer("setAvatar", k)) => k \in o.knows
       /\ Did(p, s, b, 11, OnDeployer("transferOwnership", k)) => o.owner[k] = "Avatar"
       /\ Pending(p, s, 11, OnDeployer("transferOwnership", k)) => o.owner[k] # "Avatar"
  /\ p > 12 \/ (p = 12 /\ s = {} /\ b) =>
       (net.env = "production" => Deployer \notin o.minters)
  /\ p < 12 \/ (p = 12 /\ s # {}) =>
       ("Avatar" \in o.deployed => Deployer \in o.minters)

Schemes(o, p, s, b) ==
  /\ \A k \in Universal : Did(p, s, b, 14, OnDeployer("setParameters", k)) => k \in o.params
  /\ Did(p, s, b, 15, OnDeployer("setSchemes", "DaoCreator")) => o.schemes = InitialSchemes /\ o.lock = "none"
  /\ Pending(p, s, 15, OnDeployer("setSchemes", "DaoCreator")) =>
       ("Avatar" \in o.deployed => o.lock = Deployer /\ o.schemes = {"DaoCreator"})

Lists(o, p, s, b) ==
  /\ \A f \in Founders :
       /\ Did(p, s, b, 16, OnDeployer("addWhitelisted", f)) => f \in o.whitelist
       /\ Pending(p, s, 16, OnDeployer("addWhitelisted", f)) => f \notin o.whitelist
  /\ \A k \in DAOContracts :
       /\ Did(p, s, b, 16, OnDeployer("addContract", k)) => k \in o.whitelist \cap o.contracts
       /\ Pending(p, s, 16, OnDeployer("addContract", k)) => k \notin o.whitelist

\* The batch and the contract that an operation belongs to.
InBatch(i, c) ==
  /\ c = Call(c.op, c.key, Deployer)
  /\ c.op \in {"deploy", "setAuthenticationPeriod", "forgeOrg", "setAvatar", "mint",
              "addIdentityAdmin", "addPauser", "transferOwnership", "renounceMinter",
              "setParameters", "setSchemes", "addWhitelisted", "addContract", "release"}
  /\ c.op = "deploy" =>
       \/ i = 1 /\ c.key = "Identity"
       \/ i = 3 /\ c.key = "FeeFormula"
       \/ i \in 4..6 /\ c.key \in {"ControllerCreator", "AddFounders", "DaoCreator"}
       \/ i = 8 /\ c.key = "AdminWallet" /\ HasWallet
       \/ i = 13 /\ c.key \in Universal
  /\ c.op = "setAuthenticationPeriod" => i = 2
  /\ c.op = "forgeOrg" => i = 7 /\ c.key = "DaoCreator"
  /\ c.op = "setAvatar" => i = 8 /\ c.key \in Ownables
  /\ c.op = "mint" => i = 9 /\ c.key \in Founders
  /\ c.op = "addIdentityAdmin" => i = 10 /\ c.key \in NewAdmins
  /\ c.op = "addPauser" => i = 10 /\ c.key = "Avatar"
  /\ c.op = "transferOwnership" => i = 11 /\ c.key \in Ownables
  /\ c.op = "renounceMinter" => i = 12 /\ c.key = "GoodDollar" /\ net.env = "production"
  /\ c.op = "setParameters" => i = 14 /\ c.key \in Universal
  /\ c.op = "setSchemes" => i = 15 /\ c.key = "DaoCreator"
  /\ c.op = "addWhitelisted" => i = 16 /\ c.key \in Founders
  /\ c.op = "addContract" => i = 16 /\ c.key \in DAOContracts
  /\ c.op = "release" => i = 17 /\ c = Release

\* The DAO of the current run while migration 2 is at batch p.
StageFacts(o, p, s, b) ==
  /\ \A c \in s : InBatch(p, c)
  /\ Deployments(o, p, s, b) /\ Rights(o, p, s, b)
  /\ Schemes(o, p, s, b) /\ Lists(o, p, s, b)
Alive == status \in {"running", "done"}
Stage ==
  /\ pc \in 1..17
  /\ StageFacts(org[run], pc, sent, Alive)
  /\ file = run => pc = 17 /\ Release \notin sent
  /\ pc = 17 /\ Release \notin sent /\ Alive => file = run
  /\ status = "done" => pc = 17 /\ sent = {}

Complete(o) == VotersGovern(o) /\ HandedOver(o)

WalletCalls == {OnDeployer(op, "AdminWallet") : op \in {"fund", "addAdmins", "topAdmins"}}

IInv ==
  /\ TypeOK
  /\ \A r \in Runs : Sound(org[r]) /\ (r > run => org[r] = Nobody)
  /\ ReleasedIsGoverned
  /\ NoCallRefused
  /\ script # "none" => run \in Runs
  /\ script = "none" => run = 0 /\ status = "idle" /\ sent = {}
  /\ script = "organization" => Stage
  /\ script = "adminwallet" =>
       /\ file = run /\ HasWallet
       /\ pc \in 1..3 /\ sent \subseteq WalletCalls

-----------------------------------------------------------------------------
(* What a call changes, field by field.                                     *)

Changes(o, c, a) ==
  /\ a.deployed = IF c.op = "deploy" THEN o.deployed \cup {c.key}
                  ELSE IF c.op = "forgeOrg"
                  THEN o.deployed \cup {"Avatar", "Controller", "GoodDollar", "Reputation"}
                  ELSE o.deployed
  /\ \A k \in Ownables :
       a.owner[k] = IF c.op = "deploy" /\ c.key = k THEN Deployer
                    ELSE IF c.op = "transferOwnership" /\ c.key = k THEN "Avatar"
                    ELSE o.owner[k]
  /\ a.knows = IF c.op = "setAvatar" THEN o.knows \cup {c.key} ELSE o.knows
  /\ a.admins = IF c.op = "deploy" /\ c.key = "Identity" THEN o.admins \cup {Deployer}
                ELSE IF c.op = "addIdentityAdmin" THEN o.admins \cup {c.key} ELSE o.admins
  /\ a.pausers = IF c.op = "deploy" /\ c.key = "Identity" THEN o.pausers \cup {Deployer}
                 ELSE IF c.op = "addPauser" THEN o.pausers \cup {c.key} ELSE o.pausers
  /\ a.minters = IF c.op = "forgeOrg" THEN {Deployer, "Avatar", "Controller"}
                 ELSE IF c.op = "renounceMinter" THEN o.minters \ {Deployer} ELSE o.minters
  /\ a.schemes = IF c.op = "forgeOrg" THEN {"DaoCreator"}
                 ELSE IF c.op = "setSchemes" THEN (o.schemes \cup InitialSchemes) \ {"DaoCreator"}
                 ELSE o.schemes
  /\ a.lock = IF c.op = "forgeOrg" THEN Deployer
              ELSE IF c.op = "setSchemes" THEN "none" ELSE o.lock
  /\ a.params = IF c.op = "setParameters" THEN o.params \cup {c.key} ELSE o.params
  /\ a.whitelist = IF c.op \in {"addWhitelisted", "addContract"}
                   THEN o.whitelist \cup {c.key} ELSE o.whitelist
  /\ a.contracts = IF c.op = "addContract" THEN o.contracts \cup {c.key} ELSE o.contracts

LEMMA AfterChanges ==
  ASSUME NEW o \in Organizations, NEW c
  PROVE  Changes(o, c, After(o, c))
BY SMT DEF Changes, After, Organizations, Constructed, Forged, SchemesSet, Listed

-----------------------------------------------------------------------------
(* Which calls a batch holds.                                               *)

LEMMA BatchAt ==
  /\ Organization[1] = {Deploy("Identity")}
  /\ Organization[2] = {OnDeployer("setAuthenticationPeriod", "Identity")}
  /\ Organization[3] = {Deploy("FeeFormula")}
  /\ Organization[4] = {Deploy("ControllerCreator")}
  /\ Organization[5] = {Deploy("AddFounders")}
  /\ Organization[6] = {Deploy("DaoCreator")}
  /\ Organization[7] = {OnDeployer("forgeOrg", "DaoCreator")}
  /\ Organization[8] = WithAvatar
  /\ Organization[9] = TestMoney
  /\ Organization[10] = Administrators
  /\ Organization[11] = Ownerships
  /\ Organization[12] = Renounced
  /\ Organization[13] = VotingMachine
  /\ Organization[14] = Parameters
  /\ Organization[15] = {OnDeployer("setSchemes", "DaoCreator")}
  /\ Organization[16] = Members
  /\ Organization[17] = {Release}
BY DEF Organization

LEMMA WhichBatch ==
  ASSUME NEW i \in 1..17, NEW c \in Organization[i]
  PROVE  InBatch(i, c)
<1> USE BatchAt DEF InBatch, Call, OnDeployer, Deploy, Release, Deployer
<1>1. CASE i \in 1..7
  BY <1>1
<1>2. CASE i \in {8, 9}
  BY <1>2 DEF WithAvatar, TestMoney, Ownables
<1>3. CASE i \in 10..12
  BY <1>3 DEF Administrators, Ownerships, Renounced, Ownables, NewAdmins
<1>4. CASE i \in 13..15
  BY <1>4 DEF VotingMachine, Parameters, Universal
<1>5. CASE i \in 16..17
  BY <1>5 DEF Members, DAOContracts
<1> QED BY <1>1, <1>2, <1>3, <1>4, <1>5

LEMMA FoundersAreAccounts == TypeOK => Founders \cap DAOContracts = {}
BY KeystoresAssumption DEF TypeOK, FounderLists, Founders, DAOContracts

-----------------------------------------------------------------------------
(* An accepted call, of a running script or of one that is gone.            *)

Takes(c) ==
  /\ c \in sent
  /\ Accepted(org[run], c)
  /\ Effect(c)
  /\ sent' = sent \ {c}
  /\ c.op = "release" => status = "running"
  /\ UNCHANGED <<founders, net, script, run, pc, status, mishaps>>

LEMMA SentCalls ==
  ASSUME IInv, NEW c \in sent
  PROVE  /\ run \in Runs /\ org[run] \in Organizations
         /\ \/ script = "organization" /\ pc \in 1..17 /\ InBatch(pc, c)
            \/ script = "adminwallet" /\ c \in WalletCalls
<1>1. script \in {"organization", "adminwallet"}
  BY DEF IInv, TypeOK
<1>2. run \in Runs /\ org[run] \in Organizations
  BY <1>1 DEF IInv, TypeOK
<1>3. CASE script = "organization"
  BY <1>2, <1>3, WhichBatch DEF IInv, Stage, StageFacts
<1>4. CASE script = "adminwallet"
  BY <1>2, <1>4 DEF IInv
<1> QED BY <1>1, <1>3, <1>4

\* Calls whose argument fits what they do.
Fits(c) ==
  /\ c.op = "deploy" => c.key \in Made
  /\ c.op \in {"setAvatar", "transferOwnership"} => c.key \in Ownables
  /\ c.op \in {"mint", "addWhitelisted"} => c.key \in Founders
  /\ c.op = "addIdentityAdmin" => c.key \in {"Avatar", "AdminWallet"}
  /\ c.op = "addPauser" => c.key = "Avatar"
  /\ c.op = "setParameters" => c.key \in Universal
  /\ c.op = "addContract" => c.key \in DAOContracts

LEMMA FittingCallKeepsType ==
  ASSUME NEW o \in Organizations, NEW c, Fits(c)
  PROVE  After(o, c) \in Organizations
<1>1. CASE c.op = "deploy"
  BY <1>1 DEF Fits, Organizations, After, Constructed, Deployer
<1>2. CASE c.op = "forgeOrg"
  BY <1>2 DEF Organizations, After, Forged, Deployer, Made
<1>3. CASE c.op = "setAvatar"
  <2>1. After(o, c) = [o EXCEPT !.knows = @ \cup {c.key}]
    BY <1>3 DEF After
  <2> QED BY <2>1, <1>3 DEF Fits, Organizations
<1>4. CASE c.op = "mint"
  <2>1. After(o, c) = [o EXCEPT !.tokens = @ \cup {c.key}]
    BY <1>4 DEF After
  <2> QED BY <2>1, <1>4 DEF Fits, Organizations
<1>5. CASE c.op = "addIdentityAdmin"
  <2>1. After(o, c) = [o EXCEPT !.admins = @ \cup {c.key}]
    BY <1>5 DEF After
  <2> QED BY <2>1, <1>5 DEF Fits, Organizations
<1>6. CASE c.op = "addPauser"
  <2>1. After(o, c) = [o EXCEPT !.pausers = @ \cup {c.key}]
    BY <1>6 DEF After
  <2> QED BY <2>1, <1>6 DEF Fits, Organizations
<1>7. CASE c.op = "transferOwnership"
  <2>1. After(o, c) = [o EXCEPT !.owner[c.key] = "Avatar"]
    BY <1>7 DEF After
  <2> QED BY <2>1, <1>7 DEF Fits, Organizations
<1>8. CASE c.op = "renounceMinter"
  <2>1. After(o, c) = [o EXCEPT !.minters = @ \ {Deployer}]
    BY <1>8 DEF After
  <2> QED BY <2>1, <1>8 DEF Fits, Organizations
<1>9. CASE c.op = "setParameters"
  <2>1. After(o, c) = [o EXCEPT !.params = @ \cup {c.key}]
    BY <1>9 DEF After
  <2> QED BY <2>1, <1>9 DEF Fits, Organizations
<1>10. CASE c.op = "addWhitelisted"
  <2>1. After(o, c) = [o EXCEPT !.whitelist = @ \cup {c.key}]
    BY <1>10 DEF After, Listed
  <2> QED BY <2>1, <1>10 DEF Fits, Organizations
<1>11. CASE c.op = "fund"
  <2>1. After(o, c) = [o EXCEPT !.funds = @ + 1]
    BY <1>11 DEF After
  <2> QED BY <2>1, <1>11 DEF Fits, Organizations
<1>12. CASE c.op = "addAdmins"
  <2>1. After(o, c) = [o EXCEPT !.walletAdmins = TRUE]
    BY <1>12 DEF After
  <2> QED BY <2>1, <1>12 DEF Fits, Organizations
<1>13. CASE c.op = "topAdmins"
  <2>1. After(o, c) = [o EXCEPT !.topped = TRUE]
    BY <1>13 DEF After
  <2> QED BY <2>1, <1>13 DEF Fits, Organizations
<1>14. CASE c.op = "setSchemes"
  <2>1. After(o, c) = [o EXCEPT !.schemes = (@ \cup InitialSchemes) \ {"DaoCreator"}, !.lock = "none"]
    BY <1>14 DEF After, SchemesSet
  <2>2. [o EXCEPT !.schemes = (@ \cup InitialSchemes) \ {"DaoCreator"}] \in Organizations
    BY DEF Organizations
  <2>3. [[o EXCEPT !.schemes = (@ \cup InitialSchemes) \ {"DaoCreator"}] EXCEPT !.lock = "none"]
          \in Organizations
    BY <2>2 DEF Organizations
  <2> QED BY <2>1, <2>3
<1>15. CASE c.op = "addContract"
  <2>1. After(o, c) = [o EXCEPT !.whitelist = @ \cup {c.key}, !.contracts = @ \cup {c.key}]
    BY <1>15 DEF After, Listed, Organizations
  <2>2. [o EXCEPT !.whitelist = @ \cup {c.key}] \in Organizations
    BY <1>15 DEF Fits, Organizations
  <2>3. [[o EXCEPT !.whitelist = @ \cup {c.key}] EXCEPT !.contracts = @ \cup {c.key}]
          \in Organizations
    BY <2>2, <1>15 DEF Fits, Organizations
  <2> QED BY <2>1, <2>3
<1>16. CASE c.op \notin {"deploy", "forgeOrg", "setAvatar", "mint", "addIdentityAdmin",
     "addPauser", "transferOwnership", "renounceMinter", "setParameters", "addWhitelisted",
     "fund", "addAdmins", "topAdmins", "setSchemes", "addContract"}
  BY <1>16 DEF After
<1> QED BY <1>1, <1>2, <1>3, <1>4, <1>5, <1>6, <1>7, <1>8, <1>9, <1>10, <1>11, <1>12, <1>13, <1>14, <1>15, <1>16

LEMMA AfterTyped ==
  ASSUME IInv, NEW c \in sent
  PROVE  After(org[run], c) \in Organizations
<1>1. CASE script = "organization" /\ pc \in 1..17 /\ InBatch(pc, c)
  BY <1>1, SentCalls, FittingCallKeepsType
     DEF InBatch, Fits, Made, Universal, NewAdmins
<1>2. CASE c \in WalletCalls
  BY <1>2, SentCalls, FittingCallKeepsType DEF WalletCalls, OnDeployer, Call, Fits
<1> QED BY <1>1, <1>2, SentCalls

LEMMA TakesOrg ==
  ASSUME IInv, NEW c \in sent, Takes(c)
  PROVE  /\ org'[run] \in Organizations /\ Changes(org[run], c, org'[run])
         /\ \A r \in Runs : r # run => org'[r] = org[r]
         /\ org' \in [Runs -> Organizations]
BY SentCalls, AfterTyped, AfterChanges DEF Takes, Effect, IInv, TypeOK

\* What a call of the wallet's script leaves alone.
LEMMA WalletCallsChangeNothing ==
  ASSUME NEW c \in WalletCalls, NEW o, NEW a, Changes(o, c, a)
  PROVE  /\ a.deployed = o.deployed /\ \A k \in Ownables : a.owner[k] = o.owner[k]
         /\ a.knows = o.knows /\ a.admins = o.admins /\ a.pausers = o.pausers
         /\ a.minters = o.minters /\ a.schemes = o.schemes /\ a.lock = o.lock
         /\ a.params = o.params /\ a.whitelist = o.whitelist /\ a.contracts = o.contracts
BY DEF Changes, WalletCalls, OnDeployer, Call

NoRoleToNobody(o) == o.admins \cup o.contracts \subseteq o.deployed \cup {Deployer}

LEMMA RolesStayWithContracts ==
  ASSUME IInv, script = "organization", run \in Runs, pc \in 1..17,
         NEW c, InBatch(pc, c), NEW a, Changes(org[run], c, a)
  PROVE  NoRoleToNobody(a)
<1> DEFINE o == org[run]
<1>1. Stage /\ Sound(o) /\ NoRoleToNobody(o)
  BY DEF IInv, TypeOK, NoRoleToNobody
<1>2. c.op = "addIdentityAdmin" => c.key \in o.deployed
  BY <1>1 DEF InBatch, NewAdmins, Stage, StageFacts, Deployments, Did, Sound
<1>3. c.op = "addContract" => c.key \in o.deployed
  BY <1>1 DEF InBatch, DAOContracts, Stage, StageFacts, Deployments, Did, Sound, Ownables
<1>4. a.admins \subseteq o.admins \cup (IF c.op = "addIdentityAdmin" THEN {c.key} ELSE {})
                           \cup {Deployer}
  BY DEF Changes
<1>5. a.contracts \subseteq o.contracts \cup (IF c.op = "addContract" THEN {c.key} ELSE {})
  BY DEF Changes
<1>6. o.deployed \subseteq a.deployed
  BY DEF Changes
<1> QED BY <1>1, <1>2, <1>3, <1>4, <1>5, <1>6 DEF NoRoleToNobody

LEMMA TakesType ==
  ASSUME IInv, NEW c \in sent, Takes(c)
  PROVE  TypeOK'
<1>1. run \in Runs /\ Organizations' = Organizations
  BY SentCalls DEF Takes, Organizations, DAOContracts, HasWallet, Founders
<1>2. NoRoleToNobody(org'[run])
  <2>1. CASE script = "organization" /\ pc \in 1..17 /\ InBatch(pc, c)
    BY <1>1, <2>1, TakesOrg, RolesStayWithContracts
  <2>2. CASE c \in WalletCalls
    <3>1. NoRoleToNobody(org[run])
      BY <1>1 DEF IInv, TypeOK, NoRoleToNobody
    <3> QED BY <3>1, <2>2, TakesOrg, WalletCallsChangeNothing DEF NoRoleToNobody
  <2> QED BY <2>1, <2>2, SentCalls
<1>3. \A r \in Runs : org'[r].admins \cup org'[r].contracts \subseteq org'[r].deployed \cup {Deployer}
  BY <1>2, TakesOrg DEF IInv, TypeOK, NoRoleToNobody
<1>4. file' \in 0..run'
  BY <1>1 DEF IInv, TypeOK, Takes, Effect, Runs
<1>5. /\ net' = net /\ founders' = founders /\ script' = script /\ run' = run
      /\ pc' = pc /\ status' = status /\ crashes' = crashes
  BY DEF Takes, mishaps
<1>6. org' \in [Runs -> Organizations']
  BY <1>1, TakesOrg
<1> QED BY <1>3, <1>4, <1>5, <1>6 DEF TypeOK, IInv

-----------------------------------------------------------------------------
(* A call of migration 2 keeps the DAO sound.                               *)

LEMMA CallsKeepSound ==
  ASSUME IInv, script = "organization", run \in Runs, pc \in 1..17,
         NEW c \in sent, InBatch(pc, c), NEW a, Changes(org[run], c, a)
  PROVE  Sound(a)
<1> DEFINE o == org[run]
<1>1. Stage /\ Sound(o)
  BY DEF IInv
<1>2. /\ o.knows \subseteq a.knows /\ o.admins \subseteq a.admins
      /\ o.pausers \subseteq a.pausers /\ o.deployed \subseteq a.deployed
      /\ o.params \subseteq a.params
  BY DEF Changes
<1>3. \A k \in Ownables : k \in a.deployed => a.owner[k] # "none"
  BY <1>1 DEF InBatch, Sound, Ownables, Deployer, Changes
<1>4. "Identity" \in a.deployed => Deployer \in a.admins \cap a.pausers
  BY <1>1 DEF InBatch, Sound, Changes
<1>5. CASE c.op = "forgeOrg"
  <2>1. "Avatar" \in a.deployed /\ a.lock = Deployer /\ a.schemes = {"DaoCreator"}
    BY <1>5 DEF Changes
  <2>2. {"Avatar", "Controller", "GoodDollar", "Reputation"} \subseteq a.deployed
    BY <1>5 DEF Changes
  <2>3. {"Avatar", "Controller"} \subseteq a.minters
    BY <1>5 DEF Changes
  <2>4. /\ \A k \in Ownables : a.owner[k] = "Avatar" => k \in a.knows
        /\ a.owner["Identity"] = "Avatar" => "Avatar" \in a.admins \cap a.pausers
    BY <1>1, <1>2, <1>5 DEF Sound, Governed, Changes, Ownables
  <2> QED BY <1>3, <1>4, <2>1, <2>2, <2>3, <2>4 DEF Sound, Governed
<1>6. CASE c.op = "setSchemes"
  <2>1. pc = 15 /\ "Avatar" \in o.deployed /\ o.schemes = {"DaoCreator"}
    BY <1>1, <1>6 DEF InBatch, OnDeployer, Stage, StageFacts, Schemes, Deployments, Pending, Did
  <2>2. Universal \subseteq o.deployed \cap o.params
    BY <1>1, <2>1 DEF Stage, StageFacts, Deployments, Schemes, Did
  <2>3. a.lock = "none" /\ a.schemes = InitialSchemes
    BY <1>6, <2>1 DEF Changes, InitialSchemes
  <2>4. /\ a.deployed = o.deployed /\ a.minters = o.minters /\ a.admins = o.admins
        /\ a.pausers = o.pausers /\ a.knows = o.knows
        /\ \A k \in Ownables : a.owner[k] = o.owner[k]
    BY <1>6 DEF Changes
  <2> QED BY <1>1, <1>2, <1>3, <1>4, <2>1, <2>2, <2>3, <2>4
          DEF Sound, Governed, VotersGovern, Ownables
<1>7. CASE c.op \notin {"forgeOrg", "setSchemes"}
  <2>1. a.lock = o.lock /\ a.schemes = o.schemes
    BY <1>7 DEF Changes
  <2>2. \A x \in {"Avatar", "Controller", "GoodDollar", "Reputation"} :
          x \in a.deployed <=> x \in o.deployed
    BY <1>7 DEF Changes, InBatch, Universal
  <2>3. {"Avatar", "Controller"} \subseteq o.minters => {"Avatar", "Controller"} \subseteq a.minters
    BY <1>7 DEF Changes, Deployer
  <2>4. \A k \in Ownables : a.owner[k] = "Avatar" => k \in a.knows
    <3> SUFFICES ASSUME NEW k \in Ownables, a.owner[k] = "Avatar" PROVE k \in a.knows
      OBVIOUS
    <3>1. CASE c.op = "transferOwnership"
      BY <3>1, <1>1, <1>2 DEF InBatch, Stage, StageFacts, Rights, Did
    <3>2. CASE c.op # "transferOwnership"
      BY <3>2, <1>1, <1>2 DEF Changes, Sound, Governed, Deployer
    <3> QED BY <3>1, <3>2
  <2>5. a.owner["Identity"] = "Avatar" => "Avatar" \in a.admins \cap a.pausers
    <3>1. CASE c.op = "transferOwnership"
      BY <3>1, <1>1, <1>2 DEF InBatch, Stage, StageFacts, Rights, Did, NewAdmins
    <3>2. CASE c.op # "transferOwnership"
      BY <3>2, <1>1, <1>2 DEF Changes, Sound, Governed, Deployer, Ownables
    <3> QED BY <3>1, <3>2
  <2>6. VotersGovern(o) => VotersGovern(a)
    BY <1>2, <2>1 DEF VotersGovern
  <2> QED BY <1>1, <1>3, <1>4, <2>1, <2>2, <2>3, <2>4, <2>5, <2>6 DEF Sound, Governed
<1> QED BY <1>5, <1>6, <1>7

LEMMA TakesSound ==
  ASSUME IInv, NEW c \in sent, Takes(c)
  PROVE  Sound(org'[run])
<1>1. CASE script = "organization" /\ pc \in 1..17 /\ InBatch(pc, c)
  BY <1>1, SentCalls, TakesOrg, CallsKeepSound
<1>2. CASE c \in WalletCalls
  <2>1. Sound(org[run])
    BY SentCalls DEF IInv
  <2> QED BY <1>2, <2>1, TakesOrg, WalletCallsChangeNothing
          DEF Sound, Governed, VotersGovern, Ownables
<1> QED BY <1>1, <1>2, SentCalls

-----------------------------------------------------------------------------
(* ... and moves the stage on.                                              *)

LEMMA CallMovesStage ==
  ASSUME NEW o, NEW p \in 1..17, NEW s, NEW b \in BOOLEAN, StageFacts(o, p, s, b),
         Sound(o), Founders \cap DAOContracts = {}, NEW c \in s, NEW a, Changes(o, c, a)
  PROVE  StageFacts(a, p, s \ {c}, b)
<1>1. InBatch(p, c)
  BY DEF StageFacts
<1>2. Deployments(a, p, s \ {c}, b)
  BY <1>1 DEF StageFacts, Deployments, InBatch, Changes, Did, Pending, OnDeployer, Deploy,
     Call, Ownables, Universal
<1>3. Rights(a, p, s \ {c}, b)
  <2>1. ASSUME NEW x \in NewAdmins
        PROVE  /\ Did(p, s \ {c}, b, 10, OnDeployer("addIdentityAdmin", x)) => x \in a.admins
               /\ Pending(p, s \ {c}, 10, OnDeployer("addIdentityAdmin", x)) => x \notin a.admins
    <3>1. /\ Did(p, s, b, 10, OnDeployer("addIdentityAdmin", x)) => x \in o.admins
          /\ Pending(p, s, 10, OnDeployer("addIdentityAdmin", x)) => x \notin o.admins
      BY <2>1 DEF StageFacts, Rights
    <3>2. x # Deployer
      BY <2>1 DEF NewAdmins, Deployer
    <3>3. a.admins \in {o.admins, o.admins \cup {Deployer}, o.admins \cup {c.key}}
      BY DEF Changes
    <3>4. CASE c = OnDeployer("addIdentityAdmin", x)
      BY <1>1, <3>1, <3>4 DEF InBatch, Changes, OnDeployer, Call, Did, Pending
    <3>5. CASE c # OnDeployer("addIdentityAdmin", x)
      <4>1. x \in a.admins <=> x \in o.admins
        BY <1>1, <3>2, <3>5 DEF Changes, InBatch, OnDeployer
      <4> QED BY <4>1, <3>1, <3>5 DEF Did, Pending
    <3> QED BY <3>4, <3>5
  <2>2. /\ Did(p, s \ {c}, b, 10, OnDeployer("addPauser", "Avatar")) => "Avatar" \in a.pausers
        /\ Pending(p, s \ {c}, 10, OnDeployer("addPauser", "Avatar")) => "Avatar" \notin a.pausers
    BY <1>1 DEF StageFacts, Rights, InBatch, Changes, Did, Pending, OnDeployer, Call, Deployer
  <2>3. ASSUME NEW k \in Ownables
        PROVE  Did(p, s \ {c}, b, 8, OnDeployer("setAvatar", k)) => k \in a.knows
    <3>1. Did(p, s, b, 8, OnDeployer("setAvatar", k)) => k \in o.knows
      BY <2>3 DEF StageFacts, Rights
    <3> QED BY <3>1 DEF Did, Changes, OnDeployer, Call
  <2>4. ASSUME NEW k \in Ownables
        PROVE  /\ Did(p, s \ {c}, b, 11, OnDeployer("transferOwnership", k)) =>
                    a.owner[k] = "Avatar"
               /\ Pending(p, s \ {c}, 11, OnDeployer("transferOwnership", k)) =>
                    a.owner[k] # "Avatar"
    <3>1. /\ Did(p, s, b, 11, OnDeployer("transferOwnership", k)) => o.owner[k] = "Avatar"
          /\ Pending(p, s, 11, OnDeployer("transferOwnership", k)) => o.owner[k] # "Avatar"
      BY <2>4 DEF StageFacts, Rights
    <3>2. CASE c = OnDeployer("transferOwnership", k)
      BY <1>1, <2>4, <3>1, <3>2 DEF InBatch, Changes, OnDeployer, Call, Did, Pending
    <3>3. CASE c.op = "deploy" /\ c.key = k
      BY <1>1, <2>4, <3>1, <3>3 DEF InBatch, Changes, Did, Pending, Ownables, Universal, Deployer
    <3>4. CASE c # OnDeployer("transferOwnership", k) /\ ~(c.op = "deploy" /\ c.key = k)
      <4>1. a.owner[k] = o.owner[k]
        BY <1>1, <2>4, <3>4 DEF Changes, InBatch, OnDeployer
      <4> QED BY <4>1, <3>1, <3>4 DEF Did, Pending
    <3> QED BY <3>2, <3>3, <3>4
  <2>5. p > 12 \/ (p = 12 /\ s \ {c} = {} /\ b) =>
          (net.env = "production" => Deployer \notin a.minters)
    BY <1>1 DEF StageFacts, Rights, InBatch, Changes
  <2>6. p < 12 \/ (p = 12 /\ s \ {c} # {}) =>
          ("Avatar" \in a.deployed => Deployer \in a.minters)
    BY <1>1 DEF StageFacts, Rights, InBatch, Changes, Universal
  <2> QED BY <2>1, <2>2, <2>3, <2>4, <2>5, <2>6 DEF Rights
<1>4. Schemes(a, p, s \ {c}, b)
  <2> USE <1>1 DEF StageFacts, Schemes, InBatch, Changes, Did, Pending, OnDeployer, Call
  <2>1. \A k \in Universal :
          Did(p, s \ {c}, b, 14, OnDeployer("setParameters", k)) => k \in a.params
    OBVIOUS
  <2>2. Did(p, s \ {c}, b, 15, OnDeployer("setSchemes", "DaoCreator")) =>
          a.schemes = InitialSchemes /\ a.lock = "none"
    <3>1. CASE c.op = "setSchemes"
      BY <3>1 DEF Deployments, InitialSchemes
    <3> QED BY <3>1
  <2>3. Pending(p, s \ {c}, 15, OnDeployer("setSchemes", "DaoCreator")) =>
          ("Avatar" \in a.deployed => a.lock = Deployer /\ a.schemes = {"DaoCreator"})
    BY DEF Universal
  <2> QED BY <2>1, <2>2, <2>3
<1>5. Lists(a, p, s \ {c}, b)
  <2> USE <1>1 DEF StageFacts, Lists, InBatch, Changes, Did, Pending, OnDeployer, Call
  <2>1. \A f \in Founders :
          /\ Did(p, s \ {c}, b, 16, OnDeployer("addWhitelisted", f)) => f \in a.whitelist
          /\ Pending(p, s \ {c}, 16, OnDeployer("addWhitelisted", f)) => f \notin a.whitelist
    OBVIOUS
  <2>2. \A k \in DAOContracts :
          /\ Did(p, s \ {c}, b, 16, OnDeployer("addContract", k)) =>
               k \in a.whitelist \cap a.contracts
          /\ Pending(p, s \ {c}, 16, OnDeployer("addContract", k)) => k \notin a.whitelist
    OBVIOUS
  <2> QED BY <2>1, <2>2
<1> QED BY <1>2, <1>3, <1>4, <1>5 DEF StageFacts

LEMMA NextBatchMovesStage ==
  ASSUME NEW o, o = org[run], NEW p \in 1..16, StageFacts(o, p, {}, TRUE)
  PROVE  StageFacts(o, p + 1, Organization[p + 1], TRUE)
<1> DEFINE S == Organization[p + 1]
<1>3. \A c \in S : InBatch(p + 1, c)
  BY WhichBatch
<1>4. Deployments(o, p + 1, S, TRUE)
  <2>1. /\ \A k \in Ownables : Deploy(k) \in Organization[IF k = "Identity" THEN 1 ELSE 3]
        /\ OnDeployer("forgeOrg", "DaoCreator") \in Organization[7]
        /\ HasWallet => Deploy("AdminWallet") \in Organization[8]
        /\ \A k \in Universal : Deploy(k) \in Organization[13]
    BY BatchAt DEF Ownables, WithAvatar, VotingMachine
  <2> QED BY <2>1 DEF StageFacts, Deployments, Did, Pending
<1>5. Rights(o, p + 1, S, TRUE)
  <2>1. /\ \A a \in NewAdmins : OnDeployer("addIdentityAdmin", a) \in Organization[10]
        /\ OnDeployer("addPauser", "Avatar") \in Organization[10]
    BY BatchAt DEF NewAdmins, Administrators
  <2>2. \A k \in Ownables : /\ OnDeployer("setAvatar", k) \in Organization[8]
                            /\ OnDeployer("transferOwnership", k) \in Organization[11]
    BY BatchAt DEF WithAvatar, Ownerships
  <2>3. \A a \in NewAdmins :
          /\ Did(p + 1, S, TRUE, 10, OnDeployer("addIdentityAdmin", a)) => a \in o.admins
          /\ Pending(p + 1, S, 10, OnDeployer("addIdentityAdmin", a)) => a \notin o.admins
    BY <2>1 DEF StageFacts, Rights, Did, Pending
  <2>4. /\ Did(p + 1, S, TRUE, 10, OnDeployer("addPauser", "Avatar")) => "Avatar" \in o.pausers
        /\ Pending(p + 1, S, 10, OnDeployer("addPauser", "Avatar")) => "Avatar" \notin o.pausers
    BY <2>1 DEF StageFacts, Rights, Did, Pending
  <2>5. \A k \in Ownables :
          /\ Did(p + 1, S, TRUE, 8, OnDeployer("setAvatar", k)) => k \in o.knows
          /\ Did(p + 1, S, TRUE, 11, OnDeployer("transferOwnership", k)) => o.owner[k] = "Avatar"
          /\ Pending(p + 1, S, 11, OnDeployer("transferOwnership", k)) => o.owner[k] # "Avatar"
    BY <2>2 DEF StageFacts, Rights, Did, Pending
  <2>6. p + 1 = 12 => (S = {} => net.env # "production")
    BY BatchAt DEF S, Renounced
  <2>7. /\ p > 12 \/ p = 12 => (net.env = "production" => Deployer \notin o.minters)
        /\ p < 12 => ("Avatar" \in o.deployed => Deployer \in o.minters)
    BY DEF StageFacts, Rights
  <2>8. /\ p + 1 > 12 \/ (p + 1 = 12 /\ S = {} /\ TRUE) =>
             (net.env = "production" => Deployer \notin o.minters)
        /\ p + 1 < 12 \/ (p + 1 = 12 /\ S # {}) =>
             ("Avatar" \in o.deployed => Deployer \in o.minters)
    BY <2>6, <2>7
  <2> QED BY <2>3, <2>4, <2>5, <2>8 DEF Rights
<1>6. Schemes(o, p + 1, S, TRUE)
  <2>1. /\ \A k \in Universal : OnDeployer("setParameters", k) \in Organization[14]
        /\ OnDeployer("setSchemes", "DaoCreator") \in Organization[15]
    BY BatchAt DEF Parameters
  <2> QED BY <2>1 DEF StageFacts, Schemes, Did, Pending
<1>7. Lists(o, p + 1, S, TRUE)
  <2>1. /\ \A f \in Founders : OnDeployer("addWhitelisted", f) \in Organization[16]
                               \/ f \in o.whitelist
        /\ \A k \in DAOContracts : OnDeployer("addContract", k) \in Organization[16]
    BY BatchAt DEF Members
  <2> QED BY <2>1 DEF StageFacts, Lists, Did, Pending
<1> QED BY <1>3, <1>4, <1>5, <1>6, <1>7 DEF StageFacts, S

\* A call that is given up, or a run that dies, leaves what was true.
LEMMA GivingUpKeepsStage ==
  ASSUME NEW o, NEW p \in 1..17, NEW s, NEW b \in BOOLEAN, StageFacts(o, p, s, b), NEW t \in SUBSET s
  PROVE  StageFacts(o, p, t, FALSE)
<1>2. /\ Deployments(o, p, s, b) /\ Rights(o, p, s, b)
      /\ Schemes(o, p, s, b) /\ Lists(o, p, s, b) /\ \A c \in s : InBatch(p, c)
  BY DEF StageFacts
<1>3. Deployments(o, p, t, FALSE)
  BY <1>2 DEF Deployments, Did, Pending
<1>4. Rights(o, p, t, FALSE)
  BY <1>2 DEF Rights, Did, Pending
<1>5. Schemes(o, p, t, FALSE)
  BY <1>2 DEF Schemes, Did, Pending
<1>6. Lists(o, p, t, FALSE)
  BY <1>2 DEF Lists, Did, Pending
<1> QED BY <1>2, <1>3, <1>4, <1>5, <1>6 DEF StageFacts

\* While a script runs no call of migration 2 is refused.
LEMMA CallsAreAccepted ==
  ASSUME NEW o, NEW p \in 1..17, NEW s, StageFacts(o, p, s, TRUE), Sound(o),
         o \in Organizations, Founders \cap DAOContracts = {}, NEW c \in s
  PROVE  Accepted(o, c) /\ ~Tolerated(c)
<1>1. InBatch(p, c)
  BY DEF StageFacts
<1>2. ~Tolerated(c)
  BY <1>1 DEF InBatch, Tolerated
<1>3. \A k \in Ownables : p > 3 \/ (p > 1 /\ k = "Identity") => k \in o.deployed
  BY DEF StageFacts, Deployments, Did
<1>4. \A k \in Ownables : k \in o.deployed /\ o.owner[k] # "Avatar" => o.owner[k] = Deployer
  BY DEF Sound, Organizations
<1>5. p > 7 => "Avatar" \in o.deployed
  BY DEF StageFacts, Deployments, Did
<1>6. CASE c.op \in {"setAuthenticationPeriod", "setAvatar", "addIdentityAdmin", "addPauser"}
  <2>1. p \in {2, 8, 10}
    BY <1>1, <1>6 DEF InBatch
  <2>2. ASSUME NEW k \in Ownables PROVE o.owner[k] # "Avatar"
    <3>1. Pending(p, s, 11, OnDeployer("transferOwnership", k))
      BY <2>1 DEF Pending
    <3> QED BY <2>2, <3>1 DEF StageFacts, Rights
  <2>3. c.op = "setAvatar" => p = 8 /\ c.key \in Ownables
    BY <1>1 DEF InBatch
  <2>4. o.owner["Identity"] = Deployer /\ (p > 3 => \A k \in Ownables : o.owner[k] = Deployer)
    BY <2>1, <2>2, <1>3, <1>4 DEF Ownables
  <2>5. ASSUME c.op = "addIdentityAdmin" PROVE c.key \notin o.admins
    <3>1. /\ c.key \in NewAdmins /\ p = 10
          /\ c = OnDeployer("addIdentityAdmin", c.key)
      BY <1>1, <2>5 DEF InBatch, OnDeployer
    <3>2. Pending(p, s, 10, OnDeployer("addIdentityAdmin", c.key))
      BY <3>1 DEF Pending
    <3> QED BY <3>1, <3>2 DEF StageFacts, Rights
  <2>6. c.op = "addPauser" => Deployer \in o.pausers /\ c.key \notin o.pausers
    BY <1>1, <1>3, <2>1 DEF InBatch, StageFacts, Rights, Pending, OnDeployer, Sound, Ownables
  <2> QED BY <1>6, <1>2, <2>3, <2>4, <2>5, <2>6 DEF Accepted
<1>7. CASE c.op = "transferOwnership"
  <2>1. p = 11 /\ c.key \in Ownables /\ c = OnDeployer("transferOwnership", c.key)
    BY <1>1, <1>7 DEF InBatch, OnDeployer
  <2>2. o.owner[c.key] # "Avatar"
    BY <2>1 DEF StageFacts, Rights, Pending
  <2> QED BY <1>2, <1>3, <1>4, <1>7, <2>1, <2>2 DEF Accepted
<1>8. CASE c.op \in {"forgeOrg", "setSchemes"}
  BY <1>1, <1>2, <1>5, <1>8 DEF Accepted, InBatch, StageFacts, Deployments, Schemes, Pending, Sound,
     OnDeployer
<1>9. CASE c.op \in {"mint", "renounceMinter"}
  BY <1>1, <1>2, <1>5, <1>9 DEF Accepted, InBatch, StageFacts, Rights
<1>10. CASE c.op \in {"addWhitelisted", "addContract"}
  <2>1. p = 16 /\ c = OnDeployer(c.op, c.key)
    BY <1>1, <1>10 DEF InBatch, OnDeployer
  <2>2. "Identity" \in o.knows \cap o.schemes
    BY <2>1 DEF StageFacts, Rights, Schemes, Did, Ownables, InitialSchemes
  <2>3. Deployer \in o.admins
    BY <2>1, <1>3 DEF Sound, Ownables
  <2>4. c.key \notin o.whitelist
    BY <1>1, <1>10, <2>1 DEF InBatch, StageFacts, Lists, Pending
  <2> QED BY <1>2, <1>10, <2>2, <2>3, <2>4 DEF Accepted, MayList
<1>11. CASE c.op \in {"deploy", "setParameters", "release"}
  BY <1>2, <1>11 DEF Accepted
<1> QED BY <1>1, <1>6, <1>7, <1>8, <1>9, <1>10, <1>11 DEF InBatch

-----------------------------------------------------------------------------
(* The invariant is inductive.                                              *)

\* What the wallet's script and the released file need of a complete DAO.
LEMMA LastBatchIsComplete ==
  ASSUME IInv, script = "organization", pc = 17, Alive, run \in Runs
  PROVE  Complete(org[run])
<1> DEFINE o == org[run]
<1>1. StageFacts(o, 17, sent, TRUE) /\ Sound(o) /\ o \in Organizations
  BY DEF IInv, Stage, TypeOK, Alive
<1>2. VotersGovern(o)
  BY <1>1 DEF VotersGovern, StageFacts, Schemes, Deployments, Did
<1>3. \A k \in Ownables : o.owner[k] = "Avatar" /\ k \in o.knows
  BY <1>1 DEF StageFacts, Rights, Did
<1>4. "Avatar" \in o.admins \cap o.pausers \cap o.minters
  BY <1>1 DEF StageFacts, Rights, Deployments, Did, Sound, NewAdmins
<1>5. /\ net.env = "production" => Deployer \notin o.minters
      /\ HasWallet => "AdminWallet" \in o.admins
  BY <1>1 DEF StageFacts, Rights, Did, NewAdmins
<1>6. o.contracts = DAOContracts /\ o.whitelist = Founders \cup DAOContracts
  <2>1. o.contracts \subseteq DAOContracts /\ o.whitelist \subseteq Founders \cup DAOContracts
    BY <1>1 DEF Organizations
  <2>2. (\A f \in Founders : f \in o.whitelist)
        /\ \A k \in DAOContracts : k \in o.whitelist /\ k \in o.contracts
    BY <1>1 DEF StageFacts, Lists, Did
  <2> QED BY <2>1, <2>2
<1>7. HandedOver(o)
  BY <1>3, <1>4, <1>5, <1>6, Zenon DEF HandedOver
<1> QED BY <1>2, <1>7 DEF Complete

\* The network and the founders stay, and with them what depends on them alone.
LEMMA NetworkStays ==
  ASSUME UNCHANGED <<founders, net>>
  PROVE  /\ Founders' = Founders /\ HasWallet' = HasWallet
         /\ DAOContracts' = DAOContracts /\ NewAdmins' = NewAdmins
         /\ Organizations' = Organizations
BY DEF Founders, HasWallet, DAOContracts, NewAdmins, Organizations

LEMMA InitInv == Init => IInv
<1> SUFFICES ASSUME Init PROVE IInv
  OBVIOUS
<1>1. Nobody \in Organizations
  BY DEF Nobody, Organizations
<1>2. Sound(Nobody)
  BY DEF Nobody, Sound, Governed, Ownables
<1>3. Nobody.admins \cup Nobody.contracts \subseteq Nobody.deployed \cup {Deployer}
  BY DEF Nobody
<1>4. TypeOK
  BY <1>1, <1>3, BoundsAssumption DEF Init, TypeOK, Runs
<1> QED BY <1>2, <1>4 DEF Init, IInv, Runs, ReleasedIsGoverned, NoCallRefused

LEMMA StageStays ==
  ASSUME UNCHANGED <<founders, net>>,
         StageFacts(org'[run'], pc', sent', status' \in {"running", "done"})
  PROVE  StageFacts(org[run], pc, sent, Alive)'
<1>1. \A i, c : InBatch(i, c)' <=> InBatch(i, c)
  BY NetworkStays DEF InBatch
<1>2. (\A c \in sent : InBatch(pc, c))'
  BY <1>1 DEF StageFacts
<1>3. Deployments(org[run], pc, sent, Alive)'
  BY NetworkStays DEF StageFacts, Deployments, Alive
<1>4. Rights(org[run], pc, sent, Alive)'
  BY NetworkStays DEF StageFacts, Rights, Alive
<1>5. Schemes(org[run], pc, sent, Alive)'
  BY DEF StageFacts, Schemes, Alive
<1>6. Lists(org[run], pc, sent, Alive)'
  BY NetworkStays DEF StageFacts, Lists, Alive
<1> QED BY <1>2, <1>3, <1>4, <1>5, <1>6 DEF StageFacts

\* A released DAO stays complete: only the wallet's script still calls it.
LEMMA TakesReleased ==
  ASSUME IInv, NEW c \in sent, Takes(c)
  PROVE  ReleasedIsGoverned'
<1> SUFFICES ASSUME file' # 0 PROVE Complete(org[file])'
  BY DEF ReleasedIsGoverned, Complete
<1>1. /\ founders' = founders /\ net' = net /\ run \in Runs /\ run' = run
      /\ \A o : HandedOver(o)' <=> HandedOver(o)
      /\ \A o : VotersGovern(o)' <=> VotersGovern(o)
  BY NetworkStays, SentCalls DEF Takes, HandedOver, VotersGovern
<1>2. CASE c \in WalletCalls
  <2>1. file' = file
    BY <1>2 DEF Takes, Effect, WalletCalls, OnDeployer, Call
  <2>2. Complete(org[file])
    BY <2>1 DEF IInv, ReleasedIsGoverned, Complete
  <2>3. CASE file = run
    <3>1. Complete(org'[run])
      BY <1>2, <2>2, <2>3, TakesOrg, WalletCallsChangeNothing
         DEF Complete, VotersGovern, HandedOver, Ownables
    <3> QED BY <1>1, <2>1, <2>3, <3>1 DEF Complete
  <2>4. CASE file # run
    <3>1. file \in Runs
      BY <1>1, <2>1, BoundsAssumption DEF IInv, TypeOK, Runs
    <3>2. org'[file] = org[file]
      BY <2>4, <3>1, TakesOrg
    <3> QED BY <1>1, <2>1, <2>2, <3>2 DEF Complete
  <2> QED BY <2>3, <2>4
<1>3. CASE script = "organization" /\ pc \in 1..17 /\ InBatch(pc, c) /\ c.op # "release"
  <2>1. file' = file
    BY <1>3 DEF Takes, Effect
  <2>2. file # run
    <3> SUFFICES ASSUME file = run PROVE FALSE
      OBVIOUS
    <3>1. pc = 17 /\ Release \notin sent
      BY <1>3 DEF IInv, Stage
    <3> QED BY <1>3, <3>1 DEF InBatch
  <2>3. file \in Runs
    BY <1>1, <2>1, BoundsAssumption DEF IInv, TypeOK, Runs
  <2>4. Complete(org[file])
    BY <2>1 DEF IInv, ReleasedIsGoverned, Complete
  <2>5. org'[file] = org[file]
    BY <2>2, <2>3, TakesOrg
  <2> QED BY <1>1, <2>1, <2>4, <2>5 DEF Complete
<1>4. CASE script = "organization" /\ pc \in 1..17 /\ InBatch(pc, c) /\ c.op = "release"
  <2>1. file' = run /\ pc = 17 /\ Alive
    BY <1>4 DEF Takes, Effect, InBatch, Alive
  <2>2. Complete(org[run]) /\ org'[run] = org[run]
    <3>1. After(org[run], c) = org[run]
      BY <1>4 DEF After
    <3> QED BY <1>1, <1>4, <2>1, <3>1, LastBatchIsComplete DEF Takes, Effect, IInv, TypeOK
  <2> QED BY <1>1, <2>1, <2>2 DEF Complete
<1> QED BY <1>2, <1>3, <1>4, SentCalls

LEMMA TakesInv ==
  ASSUME IInv, NEW c \in sent, Takes(c)
  PROVE  IInv'
<1>1. TypeOK' /\ ReleasedIsGoverned' /\ Sound(org'[run])
  BY TakesType, TakesReleased, TakesSound
<1>2. /\ founders' = founders /\ net' = net /\ run' = run /\ script' = script /\ pc' = pc
      /\ status' = status /\ lost' = lost /\ sent' = sent \ {c} /\ run \in Runs
  BY SentCalls DEF Takes, mishaps
<1>3. (\A r \in Runs : Sound(org[r]) /\ (r > run => org[r] = Nobody))'
  <2>1. \A o : Sound(o)' <=> Sound(o)
    BY DEF Sound, Governed, VotersGovern
  <2> QED BY <1>1, <1>2, <2>1, TakesOrg DEF IInv, Runs
<1>4. NoCallRefused'
  BY <1>2 DEF IInv, NoCallRefused
<1>5. ASSUME script = "organization" PROVE Stage'
  <2>1. Stage /\ InBatch(pc, c) /\ Sound(org[run])
    BY <1>2, <1>5, SentCalls DEF IInv, Stage, StageFacts
  <2>2. StageFacts(org'[run], pc, sent \ {c}, Alive)
    <3>1. Alive \in BOOLEAN /\ pc \in 1..17 /\ StageFacts(org[run], pc, sent, Alive)
      BY <2>1 DEF Stage, Alive
    <3>2. Founders \cap DAOContracts = {}
      BY FoundersAreAccounts DEF IInv
    <3> QED BY <2>1, <3>1, <3>2, TakesOrg, CallMovesStage
  <2>3. StageFacts(org[run], pc, sent, Alive)'
    BY <1>2, <2>2, StageStays DEF Alive
  <2>4. CASE c = Release
    BY <1>2, <2>1, <2>3, <2>4 DEF Stage, Alive, Takes, Effect, InBatch, Release, Call
  <2>5. CASE c # Release
    <3>1. file' = file
      BY <2>1, <2>5 DEF Takes, Effect, InBatch
    <3> QED BY <1>2, <2>1, <2>3, <2>5, <3>1 DEF Stage, Alive
  <2> QED BY <2>4, <2>5
<1>6. ASSUME script = "adminwallet"
      PROVE  (/\ file = run /\ HasWallet /\ pc \in 1..3 /\ sent \subseteq WalletCalls)'
  <2>1. c \in WalletCalls
    BY <1>6 DEF IInv
  <2>2. file' = file
    BY <2>1 DEF Takes, Effect, WalletCalls, OnDeployer, Call
  <2>3. WalletCalls' = WalletCalls
    BY DEF WalletCalls
  <2> QED BY <1>2, <1>6, <2>2, <2>3, NetworkStays DEF IInv
<1> QED BY <1>1, <1>2, <1>3, <1>4, <1>5, <1>6 DEF IInv

\* Steps that leave the contracts and the file alone.
LEMMA OrgUnchanged ==
  ASSUME IInv, UNCHANGED <<founders, net, org, file>>, run' \in 0..MaxRuns, file <= run',
         run' >= run
  PROVE  /\ ReleasedIsGoverned'
         /\ (\A r \in Runs : Sound(org[r]) /\ (r > run => org[r] = Nobody))'
         /\ (org \in [Runs -> Organizations])' /\ (file \in 0..run)'
<1>1. /\ \A o : HandedOver(o)' <=> HandedOver(o)
      /\ \A o : VotersGovern(o)' <=> VotersGovern(o)
      /\ \A o : Sound(o)' <=> Sound(o)
  BY NetworkStays DEF HandedOver, VotersGovern, Sound, Governed
<1>2. ReleasedIsGoverned'
  BY <1>1 DEF IInv, ReleasedIsGoverned
<1>3. (\A r \in Runs : Sound(org[r]) /\ (r > run => org[r] = Nobody))'
  BY <1>1 DEF IInv, TypeOK, Runs
<1>4. (org \in [Runs -> Organizations])' /\ (file \in 0..run)'
  BY NetworkStays DEF IInv, TypeOK
<1> QED BY <1>2, <1>3, <1>4

LEMMA RolesUnchanged ==
  ASSUME IInv, org' = org
  PROVE  (\A r \in Runs : org[r].admins \cup org[r].contracts \subseteq org[r].deployed \cup {Deployer})'
BY DEF IInv, TypeOK

\* A call that is refused or lost.
LEMMA GivenUpInv ==
  ASSUME IInv, NEW c \in sent, status = "running",
         sent' = sent \ {c}, status' = IF Tolerated(c) THEN status ELSE "failed",
         ~Tolerated(c) => \E l \in lost' : l[1] = run,
         UNCHANGED <<founders, net, script, run, pc, org, file, crashes>>
  PROVE  IInv'
<1>1. run \in Runs /\ run \in 0..MaxRuns /\ file <= run
  BY SentCalls DEF IInv, TypeOK, Runs
<1>2. /\ ReleasedIsGoverned'
      /\ (\A r \in Runs : Sound(org[r]) /\ (r > run => org[r] = Nobody))'
      /\ (org \in [Runs -> Organizations])' /\ (file \in 0..run)'
  BY <1>1, OrgUnchanged
<1>3. TypeOK'
  BY <1>2, RolesUnchanged DEF IInv, TypeOK
<1>4. NoCallRefused'
  BY DEF NoCallRefused
<1>5. ASSUME script = "organization" PROVE Stage'
  <2>1. Stage /\ InBatch(pc, c)
    BY <1>5 DEF IInv, Stage, StageFacts
  <2>2. ~Tolerated(c) /\ status' = "failed"
    BY <2>1 DEF InBatch, Tolerated
  <2>3. StageFacts(org[run], pc, sent \ {c}, FALSE)
    <3>1. Alive \in BOOLEAN /\ pc \in 1..17 /\ StageFacts(org[run], pc, sent, Alive)
      BY <2>1 DEF Stage, Alive
    <3> QED BY <3>1, GivingUpKeepsStage
  <2>4. StageFacts(org'[run'], pc', sent', status' \in {"running", "done"})
    <3>1. (status' \in {"running", "done"}) = FALSE
      BY <2>2
    <3>2. StageFacts(org'[run'], pc', sent', FALSE)
      BY <2>3
    <3> QED BY <3>1, <3>2
  <2>5. StageFacts(org[run], pc, sent, Alive)'
    BY <2>4, StageStays
  <2>6. file' # run'
    <3>1. pc = 17 => c = Release
      BY <2>1 DEF InBatch
    <3> QED BY <2>1, <3>1 DEF Stage
  <2> QED BY <2>1, <2>2, <2>5, <2>6 DEF Stage, Alive
<1>6. ASSUME script = "adminwallet"
      PROVE  (/\ file = run /\ HasWallet /\ pc \in 1..3 /\ sent \subseteq WalletCalls)'
  BY <1>6, NetworkStays DEF IInv, WalletCalls
<1> QED BY <1>1, <1>2, <1>3, <1>4, <1>5, <1>6 DEF IInv

LEMMA NextBatchInv ==
  ASSUME IInv, NextBatch
  PROVE  IInv'
<1>1. /\ status = "running" /\ sent = {} /\ pc < Length /\ pc' = pc + 1
      /\ sent' = Batches[pc + 1] /\ run \in Runs /\ run \in 0..MaxRuns /\ file <= run
      /\ UNCHANGED <<founders, net, script, run, status, org, file, crashes, lost>>
  BY BoundsAssumption DEF NextBatch, mishaps, IInv, TypeOK, Runs
<1>2. /\ ReleasedIsGoverned'
      /\ (\A r \in Runs : Sound(org[r]) /\ (r > run => org[r] = Nobody))'
      /\ (org \in [Runs -> Organizations])' /\ (file \in 0..run)'
  BY <1>1, OrgUnchanged
<1>3. pc' \in 0..17
  BY <1>1 DEF IInv, TypeOK, Length
<1>4. TypeOK'
  BY <1>1, <1>2, <1>3, RolesUnchanged DEF IInv, TypeOK
<1>5. NoCallRefused'
  BY <1>1 DEF NoCallRefused
<1>6. script \in {"organization", "adminwallet"}
  BY <1>1 DEF IInv, TypeOK
<1>7. CASE script = "organization"
  <2>1. Stage /\ pc \in 1..16 /\ sent' = Organization[pc + 1]
    BY <1>1, <1>7 DEF IInv, Stage, Length, Batches
  <2>2. StageFacts(org[run], pc, {}, TRUE)
    BY <1>1, <2>1 DEF Stage, Alive
  <2>3. StageFacts(org[run], pc + 1, Organization[pc + 1], TRUE)
    BY <2>1, <2>2, NextBatchMovesStage
  <2>4. StageFacts(org'[run'], pc', sent', status' \in {"running", "done"})
    BY <1>1, <2>1, <2>3
  <2>5. StageFacts(org[run], pc, sent, Alive)'
    BY <1>1, <2>4, StageStays
  <2>6. pc' = 17 => sent' = {Release}
    BY <1>1, <2>1, BatchAt
  <2>7. Stage'
    BY <1>1, <2>1, <2>5, <2>6 DEF Stage
  <2> QED BY <1>1, <1>2, <1>4, <1>5, <1>7, <2>7 DEF IInv
<1>8. CASE script = "adminwallet"
  <2>1. pc \in 1..2 /\ sent' = AdminWalletScript[pc + 1]
    BY <1>1, <1>8 DEF IInv, Length, Batches
  <2>2. sent' \subseteq WalletCalls
    BY <2>1 DEF AdminWalletScript, WalletCalls
  <2>3. (file = run /\ HasWallet /\ pc \in 1..3 /\ sent \subseteq WalletCalls)'
    BY <1>1, <1>8, <2>1, <2>2, NetworkStays DEF IInv, WalletCalls
  <2> QED BY <1>1, <1>2, <1>4, <1>5, <1>8, <2>3 DEF IInv
<1> QED BY <1>6, <1>7, <1>8

\* The script ends, or its process dies.
LEMMA StopInv ==
  ASSUME IInv, Finish \/ Crash
  PROVE  IInv'
<1>1. /\ status = "running" /\ run \in Runs /\ run \in 0..MaxRuns /\ file <= run
      /\ status' \in {"done", "crashed"} /\ crashes' \in {crashes, crashes + 1}
      /\ status' = "done" => sent = {} /\ pc = Length
      /\ UNCHANGED <<founders, net, script, run, pc, sent, org, file, lost>>
  BY BoundsAssumption DEF Finish, Crash, mishaps, IInv, TypeOK, Runs
<1>2. /\ ReleasedIsGoverned'
      /\ (\A r \in Runs : Sound(org[r]) /\ (r > run => org[r] = Nobody))'
      /\ (org \in [Runs -> Organizations])' /\ (file \in 0..run)'
  BY <1>1, OrgUnchanged
<1>3. TypeOK'
  BY <1>1, <1>2, RolesUnchanged DEF IInv, TypeOK
<1>4. NoCallRefused'
  BY <1>1 DEF NoCallRefused
<1>5. ASSUME script = "organization" PROVE Stage'
  <2>1. Stage /\ Alive
    BY <1>1, <1>5 DEF IInv, Alive
  <2>2. StageFacts(org[run], pc, sent, TRUE) /\ StageFacts(org[run], pc, sent, FALSE)
    BY <2>1, GivingUpKeepsStage DEF Stage, Alive
  <2>3. StageFacts(org'[run'], pc', sent', status' \in {"running", "done"})
    <3>1. StageFacts(org'[run'], pc', sent', TRUE) /\ StageFacts(org'[run'], pc', sent', FALSE)
      BY <1>1, <2>2
    <3>2. \/ (status' \in {"running", "done"}) = TRUE
          \/ (status' \in {"running", "done"}) = FALSE
      OBVIOUS
    <3> QED BY <3>1, <3>2
  <2>4. StageFacts(org[run], pc, sent, Alive)'
    BY <1>1, <2>3, StageStays
  <2>5. status' = "done" => pc = 17 /\ sent = {}
    BY <1>1, <1>5 DEF Length
  <2> QED BY <1>1, <2>1, <2>4, <2>5 DEF Stage, Alive
<1>6. ASSUME script = "adminwallet"
      PROVE  (/\ file = run /\ HasWallet /\ pc \in 1..3 /\ sent \subseteq WalletCalls)'
  BY <1>1, <1>6, NetworkStays DEF IInv, WalletCalls
<1> QED BY <1>1, <1>2, <1>3, <1>4, <1>5, <1>6 DEF IInv

LEMMA CreateInv ==
  ASSUME IInv, CreateOrganization
  PROVE  IInv'
<1>1. /\ run < MaxRuns /\ script' = "organization" /\ run' = run + 1 /\ pc' = 1
      /\ sent' = {Deploy("Identity")} /\ status' = "running" /\ run' \in Runs
      /\ run' \in 0..MaxRuns /\ file <= run /\ run \in Nat
      /\ UNCHANGED <<founders, net, org, file, crashes, lost>>
  BY BoundsAssumption DEF CreateOrganization, mishaps, IInv, TypeOK, Runs
<1>2. /\ ReleasedIsGoverned'
      /\ (\A r \in Runs : Sound(org[r]) /\ (r > run => org[r] = Nobody))'
      /\ (org \in [Runs -> Organizations])' /\ (file \in 0..run)'
  <2>1. file <= run' /\ run' >= run
    BY <1>1 DEF IInv, TypeOK
  <2> QED BY <1>1, <2>1, OrgUnchanged
<1>3. TypeOK'
  BY <1>1, <1>2, RolesUnchanged DEF IInv, TypeOK
<1>4. org'[run'] = Nobody
  BY <1>1 DEF IInv
<1>5. StageFacts(Nobody, 1, {Deploy("Identity")}, TRUE)
  <2>1. InBatch(1, Deploy("Identity"))
    BY BatchAt, WhichBatch
  <2>2. Deployments(Nobody, 1, {Deploy("Identity")}, TRUE)
    BY DEF Deployments, Nobody, Did, Pending, Ownables
  <2>3. Rights(Nobody, 1, {Deploy("Identity")}, TRUE)
    BY DEF Rights, Nobody, Did, Pending, Ownables
  <2>4. Schemes(Nobody, 1, {Deploy("Identity")}, TRUE)
    BY DEF Schemes, Nobody, Did, Pending
  <2>5. Lists(Nobody, 1, {Deploy("Identity")}, TRUE)
    BY DEF Lists, Nobody, Did, Pending
  <2> QED BY <2>1, <2>2, <2>3, <2>4, <2>5 DEF StageFacts
<1>6. StageFacts(org[run], pc, sent, Alive)'
  <2>1. StageFacts(org'[run'], pc', sent', status' \in {"running", "done"})
    BY <1>1, <1>4, <1>5
  <2> QED BY <1>1, <2>1, StageStays
<1>7. Stage'
  BY <1>1, <1>6 DEF Stage, IInv, TypeOK
<1> QED BY <1>1, <1>2, <1>3, <1>7 DEF IInv, NoCallRefused

LEMMA SetUpWalletInv ==
  ASSUME IInv, SetUpWallet
  PROVE  IInv'
<1>1. /\ script' = "adminwallet" /\ pc' = 1 /\ sent' = AdminWalletScript[1]
      /\ status' = "running" /\ HasWallet /\ run \in Runs /\ run \in 0..MaxRuns /\ file <= run
      /\ script = "adminwallet" \/ (script = "organization" /\ status = "done")
      /\ UNCHANGED <<founders, net, run, org, file, crashes, lost>>
  BY BoundsAssumption DEF SetUpWallet, mishaps, IInv, TypeOK, Runs
<1>2. /\ ReleasedIsGoverned'
      /\ (\A r \in Runs : Sound(org[r]) /\ (r > run => org[r] = Nobody))'
      /\ (org \in [Runs -> Organizations])' /\ (file \in 0..run)'
  BY <1>1, OrgUnchanged
<1>3. TypeOK'
  BY <1>1, <1>2, RolesUnchanged DEF IInv, TypeOK
<1>4. file = run
  BY <1>1 DEF IInv, Stage, Alive
<1>5. (file = run /\ HasWallet /\ pc \in 1..3 /\ sent \subseteq WalletCalls)'
  <2>1. sent' \subseteq WalletCalls /\ WalletCalls' = WalletCalls
    BY <1>1 DEF AdminWalletScript, WalletCalls
  <2> QED BY <1>1, <1>4, <2>1, NetworkStays
<1>6. NoCallRefused'
  BY <1>1 DEF NoCallRefused
<1> QED BY <1>1, <1>2, <1>3, <1>5, <1>6 DEF IInv

\* Migration 2 is never refused a call while it runs, migration 3 only one
\* that it tolerates.
LEMMA RefuseInv ==
  ASSUME IInv, NEW c \in sent, Refuse(c)
  PROVE  IInv'
<1>1. Tolerated(c)
  <2>1. CASE script = "organization"
    <3>1. StageFacts(org[run], pc, sent, TRUE) /\ Sound(org[run]) /\ pc \in 1..17
          /\ org[run] \in Organizations /\ Founders \cap DAOContracts = {}
      BY <2>1, SentCalls, FoundersAreAccounts DEF Refuse, IInv, Stage, Alive
    <3> QED BY <3>1, CallsAreAccepted DEF Refuse
  <2>2. CASE c \in WalletCalls
    BY <2>2 DEF Refuse, Accepted, Tolerated, WalletCalls, OnDeployer, Call
  <2> QED BY <2>1, <2>2, SentCalls
<1>2. /\ status = "running" /\ sent' = sent \ {c} /\ status' = status
      /\ UNCHANGED <<founders, net, script, run, pc, org, file, crashes>>
  BY <1>1 DEF Refuse, mishaps
<1> QED BY <1>1, <1>2, GivenUpInv

LEMMA LoseInv ==
  ASSUME IInv, NEW c \in sent, Lose(c)
  PROVE  IInv'
<1>1. <<run, c.op>> \in lost' /\ <<run, c.op>>[1] = run
  BY DEF Lose
<1>2. \E l \in lost' : l[1] = run
  BY <1>1
<1>3. /\ status = "running" /\ sent' = sent \ {c}
      /\ status' = IF Tolerated(c) THEN status ELSE "failed"
      /\ UNCHANGED <<founders, net, script, run, pc, org, file, crashes>>
  BY DEF Lose
<1> QED BY <1>2, <1>3, GivenUpInv

LEMMA StutterInv ==
  ASSUME IInv, UNCHANGED vars
  PROVE  IInv'
<1>1. UNCHANGED <<founders, net, script, run, pc, sent, status, org, file, crashes, lost>>
  BY DEF vars, mishaps
<1>2. run \in 0..MaxRuns /\ file <= run /\ run >= run
  BY BoundsAssumption DEF IInv, TypeOK
<1>3. /\ ReleasedIsGoverned'
      /\ (\A r \in Runs : Sound(org[r]) /\ (r > run => org[r] = Nobody))'
      /\ (org \in [Runs -> Organizations])' /\ (file \in 0..run)'
  BY <1>1, <1>2, OrgUnchanged
<1>4. TypeOK'
  BY <1>1, <1>3, RolesUnchanged DEF IInv, TypeOK
<1>5. NoCallRefused'
  BY <1>1 DEF IInv, NoCallRefused
<1>6. ASSUME script = "organization" PROVE Stage'
  <2>1. Stage
    BY <1>6 DEF IInv
  <2>2. StageFacts(org'[run'], pc', sent', status' \in {"running", "done"})
    BY <1>1, <2>1 DEF Stage, Alive
  <2>3. StageFacts(org[run], pc, sent, Alive)'
    BY <1>1, <2>2, StageStays
  <2> QED BY <1>1, <2>1, <2>3 DEF Stage, Alive
<1>7. ASSUME script = "adminwallet"
      PROVE  (/\ file = run /\ HasWallet /\ pc \in 1..3 /\ sent \subseteq WalletCalls)'
  BY <1>1, <1>7, NetworkStays DEF IInv, WalletCalls
<1> QED BY <1>1, <1>2, <1>3, <1>4, <1>5, <1>6, <1>7 DEF IInv

LEMMA NextInv == IInv /\ [Next]_vars => IInv'
<1> SUFFICES ASSUME IInv, [Next]_vars PROVE IInv'
  OBVIOUS
<1>1. CASE CreateOrganization
  BY <1>1, CreateInv
<1>2. CASE SetUpWallet
  BY <1>2, SetUpWalletInv
<1>3. ASSUME NEW c \in sent, Answer(c) PROVE IInv'
  BY <1>3, TakesInv DEF Answer, Takes
<1>4. ASSUME NEW c \in sent, Refuse(c) PROVE IInv'
  BY <1>4, RefuseInv
<1>5. ASSUME NEW c \in sent, Lose(c) PROVE IInv'
  BY <1>5, LoseInv
<1>6. ASSUME NEW c \in sent, LateAnswer(c) PROVE IInv'
  BY <1>6, TakesInv DEF LateAnswer, Takes
<1>7. CASE NextBatch
  BY <1>7, NextBatchInv
<1>8. CASE Finish \/ Crash
  BY <1>8, StopInv
<1>9. CASE UNCHANGED vars
  BY <1>9, StutterInv
<1> QED BY <1>1, <1>2, <1>3, <1>4, <1>5, <1>6, <1>7, <1>8, <1>9 DEF Next

-----------------------------------------------------------------------------
\* Every reachable state of the migrations satisfies the invariant.
THEOREM Inductive == Spec => []IInv
BY InitInv, NextInv, PTL DEF Spec

\* Types, and no role that the Identity gives to a contract that is not there,
\* for every set of founders and any number of runs, crashes and lost calls.
THEOREM TypeCorrect == Spec => []TypeOK
<1>1. IInv => TypeOK
  BY DEF IInv
<1> QED BY <1>1, Inductive, PTL

\* The file that releaser writes names only a DAO that its founders govern and
\* that was handed over to them completely.
THEOREM ReleasedGoverned == Spec => []ReleasedIsGoverned
<1>1. IInv => ReleasedIsGoverned
  BY DEF IInv
<1> QED BY <1>1, Inductive, PTL

\* Wherever migration 2 dies, the DAO it leaves has its one governor, and what
\* was handed to the Avatar can be ruled through it.
THEOREM NeverOrphan == Spec => []NeverOrphaned
<1>1. IInv => NeverOrphaned
  BY DEF IInv, Sound, NeverOrphaned
<1> QED BY <1>1, Inductive, PTL

\* The order of the batches gives every call the rights that it needs: the
\* migrations fail only over a call that was lost.
THEOREM NoRefusal == Spec => []NoCallRefused
<1>1. IInv => NoCallRefused
  BY DEF IInv
<1> QED BY <1>1, Inductive, PTL

-----------------------------------------------------------------------------
(* The money and the admins of the AdminWallet, migration 3.                *)

WalletCall(i) ==
  OnDeployer(IF i = 1 THEN "fund" ELSE IF i = 2 THEN "addAdmins" ELSE "topAdmins", "AdminWallet")
Lossless == \A l \in lost : l[1] # run

\* What the wallet o holds when the script is at batch p with the calls s under
\* way.  The wallet is funded when it has room for it and never more than twice;
\* a call that the script tolerates can be missing only if it was lost.
WalletStage(o, p, s) ==
  /\ o.funds \in 0..2
  /\ s \subseteq {WalletCall(p)}
  /\ p = 1 /\ s # {} => o.funds <= 1
  /\ p > 1 \/ (status = "running" /\ s = {}) => o.funds >= 1
  /\ Lossless /\ (p > 2 \/ (p = 2 /\ s = {})) => o.walletAdmins
  /\ Lossless /\ p = 3 /\ s = {} => o.topped
  /\ status = "done" => p = 3 /\ s = {}

Filled ==
  /\ script = "organization" => org[run].funds = 0
  /\ script = "adminwallet" => WalletStage(org[run], pc, sent)

LEMMA WalletCalled ==
  ASSUME NEW o \in Organizations, NEW c
  PROVE  /\ After(o, c).funds = IF c.op = "fund" THEN o.funds + 1 ELSE o.funds
         /\ c.op = "addAdmins" \/ o.walletAdmins => After(o, c).walletAdmins
         /\ c.op = "topAdmins" \/ o.topped => After(o, c).topped
<1>1. After(o, c).funds = IF c.op = "fund" THEN o.funds + 1 ELSE o.funds
  BY SMT DEF After, Organizations, Constructed, Forged, SchemesSet, Listed
<1>2. c.op = "addAdmins" \/ o.walletAdmins => After(o, c).walletAdmins
  <2>1. CASE c.op = "addAdmins"
    BY <2>1, SMT DEF After, Organizations
  <2>2. CASE c.op # "addAdmins"
    <3> SUFFICES ASSUME o.walletAdmins PROVE After(o, c).walletAdmins
      BY <2>2
    <3> QED BY <2>2 DEF After, Organizations, Constructed, Forged, SchemesSet, Listed
  <2> QED BY <2>1, <2>2
<1>3. c.op = "topAdmins" \/ o.topped => After(o, c).topped
  <2>1. CASE c.op = "topAdmins"
    BY <2>1, SMT DEF After, Organizations
  <2>2. CASE c.op # "topAdmins"
    <3>1. After(o, c).topped = o.topped
      BY <2>2, SMT DEF After, Organizations, Constructed, Forged, SchemesSet, Listed
    <3> QED BY <2>2, <3>1
  <2> QED BY <2>1, <2>2
<1> QED BY <1>1, <1>2, <1>3

\* A call is mined, in time or late.
LEMMA TakesFilled ==
  ASSUME IInv, Filled, NEW c \in sent, Takes(c)
  PROVE  Filled'
<1>1. /\ run \in Runs /\ org[run] \in Organizations /\ org'[run'] = After(org[run], c)
      /\ UNCHANGED <<script, run, pc, status, lost>> /\ sent' = sent \ {c}
  BY SentCalls DEF Takes, Effect, IInv, TypeOK, mishaps
<1>2. CASE script = "organization"
  <2>1. c.op # "fund"
    BY <1>2, SentCalls DEF InBatch
  <2> QED BY <1>1, <1>2, <2>1, WalletCalled DEF Filled
<1>3. CASE script = "adminwallet"
  <2>1. pc \in 1..3 /\ WalletStage(org[run], pc, sent)
    BY <1>3 DEF IInv, Filled
  <2>2. c = WalletCall(pc) /\ sent = {c} /\ sent' = {}
    BY <1>1, <2>1 DEF WalletStage
  <2>3. c.op = IF pc = 1 THEN "fund" ELSE IF pc = 2 THEN "addAdmins" ELSE "topAdmins"
    BY <2>2 DEF WalletCall, OnDeployer, Call
  <2> DEFINE o == org[run]
             a == After(o, c)
  <2>4. /\ a.funds = IF c.op = "fund" THEN o.funds + 1 ELSE o.funds
        /\ c.op = "addAdmins" \/ o.walletAdmins => a.walletAdmins
        /\ c.op = "topAdmins" => a.topped
    BY <1>1, WalletCalled
  <2> HIDE DEF a
  <2>5. /\ a.funds \in 1..2 /\ status # "done"
        /\ Lossless /\ pc \in 2..3 => a.walletAdmins
        /\ Lossless /\ pc = 3 => a.topped
    BY <2>1, <2>2, <2>3, <2>4 DEF WalletStage
  <2>6. org'[run'] = a /\ sent' = {} /\ UNCHANGED <<status, pc, run, lost, script>>
    BY <1>1, <2>2 DEF a
  <2>7. WalletStage(org[run], pc, sent)'
    BY <2>1, <2>5, <2>6 DEF WalletStage, Lossless
  <2> QED BY <1>1, <1>3, <2>7 DEF Filled
<1>4. CASE script \notin {"organization", "adminwallet"}
  BY <1>1, <1>4 DEF Filled
<1> QED BY <1>2, <1>3, <1>4

\* While the money has come, only a lost call can leave the wallet without its
\* admins, or its admins without money.
LEMMA GivenUpFilled ==
  ASSUME IInv, Filled, NEW c \in sent, Refuse(c) \/ Lose(c)
  PROVE  Filled'
<1>1. /\ UNCHANGED <<script, run, pc, org>> /\ sent' = sent \ {c} /\ status = "running"
      /\ status' = IF Tolerated(c) THEN status ELSE "failed"
      /\ (lost' = lost /\ ~Accepted(org[run], c)) \/ <<run, c.op>> \in lost'
      /\ lost \subseteq lost'
  BY DEF Refuse, Lose, mishaps
<1>2. CASE script = "adminwallet"
  <2>1. pc \in 1..3 /\ WalletStage(org[run], pc, sent) /\ org[run] \in Organizations
    BY <1>2, SentCalls DEF IInv, Filled
  <2>2. c = WalletCall(pc) /\ sent = {c} /\ sent' = {}
    BY <1>1, <2>1 DEF WalletStage
  <2>3. c.op = IF pc = 1 THEN "fund" ELSE IF pc = 2 THEN "addAdmins" ELSE "topAdmins"
    BY <2>2 DEF WalletCall, OnDeployer, Call
  <2>4. Lossless' => lost' = lost /\ ~Accepted(org[run], c) /\ Lossless
    <3>1. <<run, c.op>>[1] = run
      OBVIOUS
    <3> QED BY <1>1, <3>1 DEF Lossless
  <2>5. pc = 1 => status' = "failed"
    BY <1>1, <2>3 DEF Tolerated
  <2>6. ~Lossless' \/ pc = 1
    <3>1. CASE pc = 2
      BY <2>3, <2>4, <3>1 DEF Accepted
    <3>2. CASE pc = 3
      <4>1. Lossless => org[run].walletAdmins /\ org[run].funds > 0
        BY <2>1, <3>2 DEF WalletStage, Organizations
      <4> QED BY <2>3, <2>4, <3>2, <4>1 DEF Accepted
    <3> QED BY <2>1, <3>1, <3>2
  <2>7. WalletStage(org[run], pc, {})'
    BY <1>1, <2>1, <2>5, <2>6 DEF WalletStage
  <2> QED BY <1>1, <1>2, <2>2, <2>7 DEF Filled
<1>3. CASE script # "adminwallet"
  BY <1>1, <1>3 DEF Filled
<1> QED BY <1>2, <1>3

\* The script goes on to its next call, ends, or dies.
LEMMA GoesOnFilled ==
  ASSUME IInv, Filled, NextBatch \/ Finish \/ Crash
  PROVE  Filled'
<1>1. UNCHANGED <<script, run, org, lost>> /\ status = "running"
  BY DEF NextBatch, Finish, Crash, mishaps
<1>2. CASE script = "adminwallet"
  <2>1. pc \in 1..3 /\ WalletStage(org[run], pc, sent)
    BY <1>2 DEF IInv, Filled
  <2>2. CASE NextBatch
    <3>1. /\ sent = {} /\ pc' = pc + 1 /\ pc \in 1..2 /\ status' = status
          /\ sent' = AdminWalletScript[pc + 1]
      BY <1>2, <2>1, <2>2 DEF NextBatch, Length, Batches
    <3>2. sent' = {WalletCall(pc + 1)}
      BY <3>1 DEF AdminWalletScript, WalletCall
    <3>3. WalletStage(org[run], pc, {WalletCall(pc)})'
      BY <1>1, <2>1, <3>1 DEF WalletStage, Lossless
    <3> QED BY <1>1, <1>2, <3>1, <3>2, <3>3 DEF Filled, WalletCall
  <2>3. CASE Finish
    <3>1. sent = {} /\ pc = 3 /\ UNCHANGED <<pc, sent>> /\ status' = "done"
      BY <1>2, <2>3 DEF Finish, Length
    <3> QED BY <1>1, <2>1, <3>1 DEF Filled, WalletStage, Lossless
  <2>4. CASE Crash
    <3>1. UNCHANGED <<pc, sent>> /\ status' = "crashed"
      BY <2>4 DEF Crash
    <3> QED BY <1>1, <2>1, <3>1 DEF Filled, WalletStage, Lossless
  <2> QED BY <2>2, <2>3, <2>4
<1>3. CASE script # "adminwallet"
  BY <1>1, <1>3 DEF Filled
<1> QED BY <1>2, <1>3

\* A run of the script begins: with a wallet that is full the money is skipped.
LEMMA BeginsFilled ==
  ASSUME IInv, Filled, CreateOrganization \/ SetUpWallet
  PROVE  Filled'
<1>1. CASE CreateOrganization
  <2>1. /\ script' = "organization" /\ run' = run + 1 /\ org' = org /\ run' \in Runs
        /\ run \in Nat
    BY <1>1, BoundsAssumption DEF CreateOrganization, IInv, TypeOK, Runs
  <2>2. org[run'] = Nobody
    BY <2>1 DEF IInv
  <2> QED BY <2>1, <2>2 DEF Filled, Nobody
<1>2. CASE SetUpWallet
  <2>1. /\ script' = "adminwallet" /\ run' = run /\ org' = org /\ pc' = 1
        /\ status' = "running" /\ sent' = AdminWalletScript[1]
        /\ script \in {"adminwallet", "organization"}
    BY <1>2 DEF SetUpWallet
  <2>2. org[run].funds \in 0..2
    BY <2>1 DEF Filled, WalletStage
  <2>3. sent' = IF org[run].funds <= 1 THEN {WalletCall(1)} ELSE {}
    BY <2>1 DEF AdminWalletScript, WalletCall
  <2>4. WalletStage(org[run], pc, sent)'
    BY <2>1, <2>2, <2>3 DEF WalletStage, WalletCall
  <2> QED BY <2>1, <2>4 DEF Filled
<1> QED BY <1>1, <1>2

LEMMA FilledStep == IInv /\ Filled /\ [Next]_vars => Filled'
<1> SUFFICES ASSUME IInv, Filled, [Next]_vars PROVE Filled'
  OBVIOUS
<1>1. CASE CreateOrganization \/ SetUpWallet
  BY <1>1, BeginsFilled
<1>2. ASSUME NEW c \in sent, Answer(c) \/ LateAnswer(c) PROVE Filled'
  <2>1. Takes(c)
    BY <1>2 DEF Answer, LateAnswer, Takes
  <2> QED BY <2>1, TakesFilled
<1>3. ASSUME NEW c \in sent, Refuse(c) \/ Lose(c) PROVE Filled'
  BY <1>3, GivenUpFilled
<1>4. CASE NextBatch \/ Finish \/ Crash
  BY <1>4, GoesOnFilled
<1>5. CASE UNCHANGED vars
  BY <1>5 DEF vars, mishaps, Filled, WalletStage, Lossless, WalletCall
<1> QED BY <1>1, <1>2, <1>3, <1>4, <1>5 DEF Next

\* When migration 3 is complete and lost no call, the AdminWallet of the DAO in
\* the file has its admins and its money, at most twice the amount, and is an
\* admin of the Identity, however often the script was run and died before.
THEOREM WalletServing == Spec => []WalletServes
<1>1. Init => Filled
  BY DEF Init, Filled
<1>2. IInv /\ Filled => WalletServes
  <2> SUFFICES ASSUME IInv, Filled, status = "done", script = "adminwallet"
               PROVE  /\ run = file /\ org[run].funds \in 1..2
                      /\ "AdminWallet" \in org[run].admins \cap org[run].contracts
                      /\ (\A l \in lost : l[1] # run) => org[run].walletAdmins /\ org[run].topped
    BY DEF WalletServes
  <2>1. WalletStage(org[run], 3, {}) /\ run = file /\ HasWallet /\ run # 0
    BY DEF Filled, WalletStage, IInv, Runs
  <2>2. HandedOver(org[run])
    BY <2>1 DEF IInv, ReleasedIsGoverned
  <2>3. "AdminWallet" \in org[run].admins \cap org[run].contracts
    BY <2>1, <2>2 DEF HandedOver, DAOContracts
  <2> QED BY <2>1, <2>3 DEF WalletStage, Lossless
<1> QED BY <1>1, <1>2, FilledStep, Inductive, PTL DEF Spec
=============================================================================
