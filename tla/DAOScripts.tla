---------------------------- MODULE DAOScripts ----------------------------
(***************************************************************************)
(* An operator runs the deployment and upgrade scripts of MigrationScripts *)
(* against a DAO, one at a time, on the home and on the main chain of one  *)
(* environment.  A script sends the calls of a batch together; they are    *)
(* mined in any order; a refused call kills the script unless the code     *)
(* catches it.  The process may also die at any await.  What it had sent   *)
(* by then may still be mined, until the next script's first transaction   *)
(* takes its place in the account's order.  Meanwhile founders may vote by *)
(* hand.  The voting machine, the SchemeRegistrar and the OpenZeppelin     *)
(* upgrades plugin are external: they do what the scripts rely on.         *)
(***************************************************************************)
EXTENDS MigrationScripts, FiniteSets

CONSTANTS Environments,   \* names of the environments, e.g. "production"
          Keystores,      \* possible founders of the production keystore
          Runbook,        \* pairs of scripts: which may be run after which
          MaxRuns,        \* bound: scripts started
          MaxMishaps      \* bound: processes that die, lost calls, votes by hand

ASSUME EnvironmentsAssumption == Environments \subseteq STRING
\* A keystore has at least one account, and none of them twice.
ASSUME KeystoresAssumption ==
  \A ks \in Keystores :
    /\ ks \in Seq(STRING) /\ Len(ks) > 0
    /\ \A i, j \in 1..Len(ks) : ks[i] = ks[j] => i = j
ASSUME BoundsAssumption == MaxRuns \in Nat /\ MaxMishaps \in Nat

VARIABLES
  env, script, net,        \* where the operator is, and what is run where
  run, pc, sent, status,   \* number of the run, batch, calls under way, outcome
  proposed, registered, live, ballots,    \* the DAO: sets of <<name, run>>
  poolOf, poolUbi,         \* UBIScheme's pool, and the scheme that a pool pays
  fmReserve, fmRecipient,  \* FundManager's reserve and UBI recipient
  proxyOwner,              \* who owns the ProxyAdmin of each network
  minters,                 \* home bridge contracts that may mint
  file,                    \* the address files: network, name -> run, or 0
  crashes, lost, byHand    \* processes that died, calls that were lost: pairs
                           \* <<run, op>>, and votes that were cast by hand

process == <<script, net, run, pc, sent, status>>
dao     == <<proposed, registered, live, ballots>>
wiring  == <<poolOf, poolUbi, fmReserve, fmRecipient, proxyOwner, minters>>
mishaps == <<crashes, lost, byHand>>
vars    == <<founders, env, process, dao, wiring, file, mishaps>>

Runs == 1..MaxRuns
NetworksOf(e) ==
  {[env |-> e, mainnet |-> FALSE]}
    \cup IF e \in {"test", "develop"} THEN {} ELSE {[env |-> e, mainnet |-> TRUE]}
Networks == UNION {NetworksOf(e) : e \in Environments}

Batch(i) == Program(script, net)[i]
Instance(k) == <<k, IF k \in FixedKeys THEN 0 ELSE run>>

\* Reputation was minted in equal parts, so absolute majority counts heads.
\* MutCarries is a mutant: half of the heads are enough.
Voters == {founders[i] : i \in 1..Len(founders)}
MutCarries(c, b) ==
  2 * Cardinality({f \in Voters : <<c, f>> \in b}) >= Cardinality(Voters)
Carries(c, b) == 2 * Cardinality({f \in Voters : <<c, f>> \in b}) > Cardinality(Voters)

Open == proposed \ registered
Mishaps == crashes + Cardinality(lost) + Cardinality(byHand)

Init ==
  /\ env \in Environments
  /\ founders \in FounderLists(env, Keystores)
  /\ script = "none" /\ net = [env |-> env, mainnet |-> FALSE]
  /\ run = 0 /\ pc = 0 /\ sent = {} /\ status = "idle"
  /\ proposed = {<<k, 0>> : k \in FixedKeys}
  /\ registered = {} /\ live = {} /\ ballots = {}
  /\ poolOf = [r \in Runs |-> 0] /\ poolUbi = [r \in Runs |-> 0]
  /\ fmReserve = [r \in Runs |-> 0] /\ fmRecipient = [r \in Runs |-> 0]
  /\ proxyOwner = [n \in Networks |-> "none"]
  /\ minters = {}
  /\ file = [n \in Networks |-> [k \in FileKeys |-> 0]]
  /\ crashes = 0 /\ lost = {} /\ byHand = {}

-----------------------------------------------------------------------------
(* What a call does once it is mined, if it is accepted (see Accepted).     *)

\* Mutant: the migration reads the pool from the file before it wrote the file.
MutPoolFor == file[net]["FirstClaimPool"]

\* Constructors that keep an address: the scheme its pool, which the migration
\* has just deployed and the upgrade finds in the file, and the fund manager
\* its recipient.  The first proxy of a network brings the ProxyAdmin.
Proxies == {"DonationsStaking", "Invites", "FuseStaking"}
PoolFor == IF script = "sidechain_ubi" THEN run ELSE file[net]["FirstClaimPool"]
Deployed(c) ==
  /\ c.op = "deploy"
  /\ poolOf' = IF c.key = "UBIScheme" THEN [poolOf EXCEPT ![run] = PoolFor] ELSE poolOf
  /\ fmRecipient' = IF c.key = "FundManager"
                    THEN [fmRecipient EXCEPT ![run] = file[Home(net)]["UBIScheme"]]
                    ELSE fmRecipient
  /\ proxyOwner' = IF c.key \in Proxies /\ proxyOwner[net] = "none"
                   THEN [proxyOwner EXCEPT ![net] = "deployer"] ELSE proxyOwner
  /\ UNCHANGED <<dao, poolUbi, fmReserve, minters, file>>

Proposed(c) ==
  /\ c.op = "propose"
  /\ proposed' = proposed \cup {Instance(c.key)}
  /\ UNCHANGED <<registered, live, ballots, wiring, file>>

\* AbsoluteVote.vote: the vote that reaches the majority executes the
\* proposal, and a vote on an executed proposal is refused.
CastVote(c, f) ==
  /\ ballots' = ballots \cup {<<c, f>>}
  /\ registered' = IF Carries(c, ballots') THEN registered \cup {c} ELSE registered
  /\ UNCHANGED <<proposed, live, wiring, file>>

Voted(c) ==
  /\ c.op = "vote"
  /\ CastVote(Instance(c.key), c.by)

\* gd.isMinter(homeBridgeFactory) is read before setBridge is sent.
\* MutAddFactory is a mutant: the factory is always added.
MutAddFactory == TRUE
AddFactory == "factory" \notin minters

\* Mutant: the scheme acts for the DAO without being registered.
MutStartable(k) ==
  /\ Instance(k) \notin live
  /\ k = "HomeBridge" /\ AddFactory => "factory" \notin minters
  /\ k = "ChangeHomeBridge" => "bridge" \notin minters
  /\ k \in {"DonationsUpgrade", "InvitesUpgrade"} => proxyOwner[net] = "avatar"

\* Preconditions of the scheme's one call besides being registered.
Startable(k) ==
  /\ Instance(k) \in registered \ live
  /\ k = "HomeBridge" /\ AddFactory => "factory" \notin minters
  /\ k = "ChangeHomeBridge" => "bridge" \notin minters
  /\ k \in {"DonationsUpgrade", "InvitesUpgrade"} => proxyOwner[net] = "avatar"

Started(c) ==
  /\ c.op = "start"
  /\ live' = live \cup {Instance(c.key)}
  /\ poolUbi' = IF c.key = "UBIScheme" /\ poolOf[run] \in Runs
                THEN [poolUbi EXCEPT ![poolOf[run]] = run] ELSE poolUbi
  /\ fmReserve' = IF c.key = "FundManagerSetReserve"
                  THEN [fmReserve EXCEPT ![run] = run] ELSE fmReserve
  /\ fmRecipient' = IF c.key = "FundManagerSetUBIAndBridge"
                    THEN [fmRecipient EXCEPT ![file[net]["FundManager"]] =
                            file[Home(net)]["UBIScheme"]]
                    ELSE fmRecipient
  /\ minters' = minters
       \cup (IF c.key = "HomeBridge" THEN {"factory"} ELSE {})
       \cup (IF c.key = "ChangeHomeBridge" THEN {"bridge"} ELSE {})
  /\ UNCHANGED <<proposed, registered, ballots, poolOf, proxyOwner, file>>

\* The owner's calls on a contract that nobody votes on.
Given(c) ==
  /\ c.op = "give"
  /\ live' = live \cup {Instance(c.key)}
  /\ UNCHANGED <<proposed, registered, ballots, wiring, file>>

\* A released contract answers when it is live and knows its counterpart.
Usable(k) ==
  LET r == IF k \in FileKeys THEN file[net][k] ELSE 0 IN
  /\ k \in SchemeKeys => <<k, r>> \in live
  /\ k = "FundManager" => fmReserve[r] = file[net]["Reserve"]
  /\ k = "Reserve" => <<"MarketMaker", r>> \in live

Called(c) ==
  /\ c.op \in {"setup", "use", "upgrade"}
  /\ UNCHANGED <<dao, wiring, file>>

HandedOver(c) ==
  /\ c.op = "handover"
  /\ proxyOwner' = [proxyOwner EXCEPT ![net] = "avatar"]
  /\ UNCHANGED <<dao, poolOf, poolUbi, fmReserve, fmRecipient, minters, file>>

\* The record of the network as it was read, with the new addresses.
Released(c) ==
  /\ c.op = "release"
  /\ file' = [file EXCEPT ![net] =
                [k \in FileKeys |-> IF k \in Written(script, net) THEN run
                                    ELSE IF k \in Dropped(script) THEN 0
                                    ELSE file[net][k]]]
  /\ UNCHANGED <<dao, wiring>>

Effect(c) ==
  \/ Deployed(c) \/ Proposed(c) \/ Voted(c) \/ Started(c) \/ Given(c)
  \/ Called(c) \/ HandedOver(c) \/ Released(c)

Accepted(c) ==
  \/ c.op \in {"deploy", "propose", "release"}
  \/ c.op = "vote" /\ Instance(c.key) \in Open /\ c.by \in Voters
  \/ c.op = "start" /\ Startable(c.key)
  \/ c.op \in {"give", "setup"} /\ Instance(c.key) \notin live
  \/ c.op = "use" /\ Usable(c.key)
  \/ c.op \in {"upgrade", "handover"} /\ proxyOwner[net] = "deployer"

\* Refusals that stop nothing: of the votes for the home bridge, and of the
\* transfer of a ProxyAdmin that is not the deployer's any more, which the code
\* catches, and of the last call of deployFuseStaking, which is only logged
\* while the file is being written.
Tolerated(c) ==
  \/ c.op = "vote" /\ script = "bridges" /\ ~net.mainnet
  \/ c.op = "handover"
  \/ c = SetUp("FuseStaking")

-----------------------------------------------------------------------------
(* The operator and the running script.                                     *)

Run(s, n) ==
  /\ status # "running"
  /\ run < MaxRuns
  /\ <<script, s>> \in Runbook
  /\ Program(s, n) # Nothing
  /\ \A k \in Reads(s, n) : file[n][k] # 0
  /\ \A k \in ReadsHome(s) : file[Home(n)][k] # 0
  /\ \A k \in NotYet(s) : file[n][k] = 0
  /\ script' = s /\ net' = n
  /\ run' = run + 1 /\ pc' = 1 /\ sent' = Program(s, n)[1] /\ status' = "running"
  /\ UNCHANGED <<founders, env, dao, wiring, file, mishaps>>

Answer(c) ==
  /\ status = "running"
  /\ c \in sent
  /\ Accepted(c)
  /\ Effect(c)
  /\ sent' = sent \ {c}
  /\ UNCHANGED <<founders, env, script, net, run, pc, status, mishaps>>

Refuse(c) ==
  /\ status = "running"
  /\ c \in sent
  /\ ~Accepted(c)
  /\ sent' = sent \ {c}
  /\ status' = IF Tolerated(c) THEN status ELSE "failed"
  /\ UNCHANGED <<founders, env, script, net, run, pc, dao, wiring, file, mishaps>>

\* The node drops the transaction or the answer is an error: not mined.
Lose(c) ==
  /\ status = "running"
  /\ Mishaps < MaxMishaps
  /\ c \in sent /\ c.op \notin {"throw", "release"}
  /\ lost' = lost \cup {<<run, c.op>>}
  /\ sent' = sent \ {c}
  /\ status' = IF Tolerated(c) THEN status ELSE "failed"
  /\ UNCHANGED <<founders, env, script, net, run, pc, dao, wiring, file, crashes, byHand>>

\* Mutant: an await is missing, the script goes on while calls are under way.
MutNextBatch ==
  /\ status = "running"
  /\ pc < Len(Program(script, net))
  /\ pc' = pc + 1
  /\ sent' = sent \cup Batch(pc + 1)
  /\ UNCHANGED <<founders, env, script, net, run, status, dao, wiring, file, mishaps>>

NextBatch ==
  /\ status = "running" /\ sent = {}
  /\ pc < Len(Program(script, net))
  /\ pc' = pc + 1
  /\ sent' = Batch(pc + 1)
  /\ UNCHANGED <<founders, env, script, net, run, status, dao, wiring, file, mishaps>>

Finish ==
  /\ status = "running" /\ sent = {}
  /\ pc = Len(Program(script, net))
  /\ status' = "done"
  /\ UNCHANGED <<founders, env, script, net, run, pc, sent, dao, wiring, file, mishaps>>

Crash ==
  /\ status = "running"
  /\ Mishaps < MaxMishaps
  /\ crashes' = crashes + 1
  /\ status' = "crashed"
  /\ UNCHANGED <<founders, env, script, net, run, pc, sent, dao, wiring, file, lost, byHand>>

\* A transaction of a script that is gone; its file it can no longer write.
LateAnswer(c) ==
  /\ status \in {"failed", "crashed"}
  /\ c \in sent
  /\ c.op # "release"
  /\ Accepted(c)
  /\ Effect(c)
  /\ sent' = sent \ {c}
  /\ UNCHANGED <<founders, env, script, net, run, pc, status, mishaps>>

\* A founder votes from a wallet, while a script votes or long after it died.
HandVote(c, f) ==
  /\ Mishaps < MaxMishaps
  /\ c \in Open /\ f \in Voters
  /\ CastVote(c, f)
  /\ byHand' = byHand \cup {<<c, f>>}
  /\ UNCHANGED <<founders, env, process, crashes, lost>>

ScriptStep == (\E c \in sent : Answer(c) \/ Refuse(c)) \/ NextBatch \/ Finish

Next ==
  \/ \E s \in Scripts, n \in NetworksOf(env) : Run(s, n)
  \/ ScriptStep
  \/ Crash
  \/ \E c \in sent : Lose(c) \/ LateAnswer(c)
  \/ \E c \in Open, f \in Voters : HandVote(c, f)

Spec == Init /\ [][Next]_vars
\* A script that is running goes on: its transactions are answered.
FairSpec == Spec /\ WF_vars(ScriptStep)

-----------------------------------------------------------------------------
Names == SchemeKeys \cup {"MarketMaker"}
Contracts == Names \X (0..MaxRuns)

\* The state has its type.  Everything that is registered was proposed, and no
\* scheme acted for the DAO that a majority had not registered.
TypeOK ==
  /\ env \in Environments /\ founders \in FounderLists(env, Keystores) /\ net \in NetworksOf(env)
  /\ script \in Scripts \cup {"none"}
  /\ run \in 0..MaxRuns /\ pc \in Nat
  /\ status \in {"idle", "running", "done", "failed", "crashed"}
  /\ proposed \subseteq Contracts /\ registered \subseteq proposed
  /\ live \subseteq Contracts
  /\ \A c \in live : c[1] \in SchemeKeys => c \in registered
  /\ poolOf \in [Runs -> 0..MaxRuns] /\ poolUbi \in [Runs -> 0..MaxRuns]
  /\ fmReserve \in [Runs -> 0..MaxRuns] /\ fmRecipient \in [Runs -> 0..MaxRuns]
  /\ proxyOwner \in [Networks -> {"none", "deployer", "avatar"}]
  /\ minters \subseteq {"factory", "bridge"}
  /\ file \in [Networks -> [FileKeys -> 0..MaxRuns]]
  /\ crashes \in Nat

\* Names that a file gives only to contracts whose start() was mined, or whose
\* owner was changed: all but the deprecated UBI, which is never started.
LiveNames == (FileKeys \cap Names) \ {"UBI"}

\* At every moment, whatever died and whoever voted: the address files name
\* only schemes that a majority registered and whose start() was mined, and
\* market makers that their reserve owns.  The files are what the next script
\* and the applications read (releaser, and every script's last lines).
ReleasedIsLive ==
  \A n \in Networks, k \in LiveNames : file[n][k] # 0 => <<k, file[n][k]>> \in live

\* The files agree with what the contracts know of each other.  The fund
\* manager of the file sends what it mints to the reserve of the file, and the
\* pool of the file pays a scheme no older than the file's.  After a script
\* that came to its end, earlier crashes or not, they agree exactly: the pool
\* with the new UBIScheme, the fund manager with its recipient.
ReleasedIsWired ==
  \A n \in NetworksOf(env) :
    LET f == file[n]  ubi == file[Home(n)]["UBIScheme"] IN
    /\ f["FundManager"] # 0 => fmReserve[f["FundManager"]] = f["Reserve"]
    /\ f["FirstClaimPool"] # 0 => poolUbi[f["FirstClaimPool"]] >= f["UBIScheme"]
    /\ n = net /\ status = "done" =>
         /\ script \in {"sidechain_ubi", "upgradeUBIScheme"} =>
              poolUbi[f["FirstClaimPool"]] = f["UBIScheme"]
         /\ script \in {"mainnet", "updateBridgeAndUBIRecipient"} =>
              fmRecipient[f["FundManager"]] = ubi

\* The proxies that the migrations released are upgraded by the DAO alone: the
\* ProxyAdmin of their network is the Avatar's.  A refused transfer is only
\* logged (upgradableDeployer.js:126), which is right when the Avatar has the
\* ProxyAdmin already, and leaves it with the deployer when the call was lost.
ProxyBelongsToDAO ==
  \A n \in Networks, k \in {"DonationsStaking", "Invites"} :
    file[n][k] # 0 => proxyOwner[n] = "avatar" \/ <<file[n][k], "handover">> \in lost

\* Every way a script can be refused a call.  No order in which the calls of a
\* batch are mined refuses one, nor does anything an earlier crash left behind
\* once the script is run again, except what is listed: a lost call, a founder
\* who votes by hand while the script votes, half the founders being no majority,
\* a fixed proposal that is over or falls short, a home bridge that is a minter
\* already, a ProxyAdmin with the wrong owner, and the script that throws.
FailureHasCause ==
  status = "failed" =>
    \/ script = "updateUBICyclePeriod"
    \/ script \in {"mint_rep", "upgradeScheme"}
    \/ script = "updateHomeBridge" /\ "bridge" \in minters
    \/ script = "fuse_staking_upgrade" /\ proxyOwner[net] = "avatar"
    \/ script \in {"donations_upgrade", "invites_upgrade"} /\ proxyOwner[net] = "deployer"
    \/ 2 * Cardinality(FirstHalf) <= Cardinality(Voters)
    \/ \E l \in lost : l[1] = run
    \/ /\ \E v \in byHand : v[1][2] = run
       /\ ~(script = "bridges" /\ ~net.mainnet)

\* What the DAO has registered and nobody has started.
Waiting == {c \in registered \ live : c[1] # "UBI"}

\* A scheme that the founders carried is started in the end, unless the process
\* died, a call was lost, a founder voted by hand, or the call itself is refused for good: the
\* scripts never carry a scheme and then stop short of its start().
CarriedIsStarted ==
  Waiting # {} ~> \/ Waiting = {}
                  \/ Mishaps > 0
                  \/ script = "updateHomeBridge" /\ "bridge" \in minters

-----------------------------------------------------------------------------
(* The scripts implement SchemeLife.                                        *)

Places == {[net |-> n, key |-> k] : n \in Networks, k \in FileKeys \cap Names}

Life == INSTANCE SchemeLife WITH
  SchemeNames <- SchemeKeys,
  voters <- Voters,
  published <- [p \in Places |-> file[p.net][p.key]]

\* Every step of every script, of a founder or of a late transaction is one
\* that SchemeLife allows, or changes nothing that it sees.
LifeSpec == Life!Spec
=============================================================================
