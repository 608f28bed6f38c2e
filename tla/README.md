# Verification of GoodContracts

TLA+ modules, TLC runs and TLAPS proofs for the GoodDollar contracts of this repository: the identity
contract, the G$ token and its fees, the DAO schemes that distribute it, and the staking model; and for the
migrations and scripts that create the DAO, have it vote, start its schemes and record their addresses. The code
(Solidity and JavaScript) is the reference; every definition of the modules names the lines it translates in
`PROJECT.json` ("map").

## 1. The system

A contract's public functions are the operations; a transaction runs one of them, and everything it calls,
to the end or not at all. So there is no interleaving inside a transaction. The hard part is the order of
transactions of many parties (users, admins, the DAO through its avatar, anybody), the clock, calls whose
failure is ignored, and counters and caches in one contract about sets that live in another.

A script is a process outside the chain. It sends many transactions at once, in batches (`Promise.all`), waits for
the answers, and may die at any `await` with some of them mined, some not and some yet to come; what it leaves
behind is in the DAO, and only its last line writes the address file that the next script reads.

| component | state | operations | interacts with |
|---|---|---|---|
| `Identity` | whitelist, blacklist, DAO contracts, counters, authentication dates, DID index, admins, pause | add, remove, renounce, authenticate, blacklist, contracts, roles | asked by everything through `IdentityGuard`; `FeelessScheme` adds and removes contracts through the DAO |
| `GoodDollar` (ERC20 with cap, fees, ERC677) | balances, allowances, supply, minters, pause, formula, fee recipient | transfer, transferFrom, transferAndCall, mint, burn, setFormula | `Identity` (blacklist, fee exemption), fee formula |
| fee formulas | percentage | `getTxFees` | called by the token and by `OneTimePayments` |
| `UBI`, `FixedUBI` | one-shot distribution among the whitelisted | start, claim, end | `Identity` counters, token |
| `UBIScheme` with `FirstClaimPool` | day, cycle, daily pool and share, active users, fished users, claims | claim, fish, fishMulti, setDay, start, upgrade, end | `Identity.isWhitelisted`, token, avatar, pool |
| `OneTimePayments` | payments by id, pooled balance | deposit by transferAndCall, withdraw, cancel, start | token, `Identity`, formula |
| `SignUpBonus`, `InviteUser` | rewards given, bonds | award, invite, end | token, `Identity` |
| `AdminWallet` | admins, toppings per day | topWallet, whitelist, award | `Identity`, `SignUpBonus` |
| `SimpleDAIStaking` | stakes, total staked | stake, withdraw, collect interest, recover | Compound's cDAI, fund manager |
| `GoodFundManager` | last transfer block | transferInterest | staking, reserve, bridge, UBI recipient |
| `GoodReserveCDai`, `GoodMarketMaker` | reserve supply and ratio per token, last mint block | buy, sell, mint expansion and interest | Bancor formula, contribution calculation, token |
| `BancorFormula`, `DSMath`, `ContributionCalculation` | pure arithmetic | power, return of a purchase or sale | market maker |
| one-shot proposals (`SetReserve...`, `AddMinter`, `AddAdmin`, `ReserveRelayer`, ...) | used once | start | DAO controller |
| `DaoCreator*`, `UpgradesRegistrar`, `UpgradeImplScheme*` | locks, proposals, time locks | forge, setSchemes, propose, vote, execute | DAOstack |
| `migrations/2`, `3` (DAO creation) | the DAO's owners, roles, schemes, members; the address file | forge, hand over, set schemes, release; fund the wallet | `DaoCreator`, `Identity`, token, `AdminWallet` |
| the other migrations and scripts (23, in three packages) | address files per network; the process: batch, calls under way | deploy, propose, vote, start, set up, hand over a proxy, release | `AbsoluteVote`, `SchemeRegistrar`, the schemes, each other through the files |
| mocks, compiled artifacts, configuration | | | |

### What is hard, and what makes each component correct

* **Identity.** Memberships come and go by admins, by the members themselves and by the clock; two counters and
  a two-way index are kept by hand. Correct: the counters are the sizes of the sets, a DID has one holder,
  membership never returns without an authentication, a pause stops everything.
* **UBIScheme and FirstClaimPool.** Two clocks (days since noon and 24-hour spans since the cycle's first claim),
  a divisor kept by hand, shares cached for a day and pools for a cycle, claims racing fishers. Correct: what
  the cycle promises is funded, nobody is counted twice, the share is fixed for the day and the pool for the
  cycle, only the inactive lose their share, every G$ paid is recorded.
* **Token and fees.** The fee is a transfer of its own before the transfer proper, its payer depends on the
  formula, its due on a list in another contract, and payer, recipient and fee recipient may be one account.
  Correct: balances add up to the supply, the supply stays in the cap, a spender stays within the allowance, a
  DAO contract's transfers are exact, a pause holds, what is renounced stays renounced.
* **OneTimePayments.** All payments lie in one balance, cancel races withdraw, ids are reused, and the scheme's fee
  exemption can be missing without notice. Correct: the scheme holds what it owes, an open payment is paid
  out once and in full, to somebody entitled, and a closed one pays nobody.
* **Staking, reserve, market maker, fund manager.** One cDAI balance for all stakes, roundings at every
  conversion, a curve that keeps books of its own about cDAI and G$ that are elsewhere, three gates with their own
  intervals. Correct: stakes stay covered, trade and expansions up to the rate 1 leave a curve the formula accepts, its books follow the G$ minted
  and burnt and the cDAI received and paid.
* **DAO creation** (migrations 2 and 3 with `DaoCreator`). The deployer gives its rights away in the middle of the
  script. Correct: no call lacks a right that was given away, not yet received or used before, in any order of
  mining; a DAO left behind by a crash has exactly one governor; the file names only a DAO that was handed over.
* **Migrations and scripts.** Half of the founders vote together, and founders may vote by hand; processes die between
  the vote and the start, and the operator starts over; four files and three packages refer to each other. Correct:
  the files name only contracts that a majority registered and that were started, and that know each other; proxies
  belong to the DAO; a script fails only from outside causes; what the founders carried is started.
* **Rewards** (`UBI`, `FixedUBI`, `SignUpBonus`, `InviteUser`, `AdminWallet`; planned). Correct: a user is paid
  once or up to a limit, the contract never promises more than it holds, toppings stay in the day's limit.
* **Upgrades and proposals** (planned). Correct: an upgrade happens once, after a vote and its time lock, as a
  whole or not at all; a proposal is used once.

The hazards of the modelled parts are listed line by line in `PROJECT.json` ("hazards") with the properties that
answer them; those of the parts that are not modelled are in section 8.

## 2. Plan

Written, in this order, and each composing those it names:

1. `Identity`
2. `FirstClaimPool`, and `UBIScheme` on top of it and of `Sums` (what was paid over all days)
3. `GoodDollar` (with the fee formulas), over `Sums`; `OneTimePayments` on top of the token
4. `SimpleDAIStaking`, `GoodMarketMaker`, and `GoodFundManager` (with `GoodReserveCDai`) on top of both

5. `MigrationScripts` (what each script does), `DAOScripts` (the operator, the DAO and the files) on top of it,
   with the abstract specification `SchemeLife`; `DeployOrganization` for the DAO's creation

The scripts came before the reward contracts: they are where processes, crashes and partial failures are, and no
test of the repository runs a script that fails half-way.

To come, the most important first:

6. `Rewards`: `UBI`/`FixedUBI` on the real `Identity` (the number of claimers is taken at deployment, who may
   claim is decided at the claim), `SignUpBonus`, `InviteUser`, the toppings of `AdminWallet` (the day that only
   `topWallet` moves), with an abstract ledger "each member is paid once and never more than was set aside".
7. `Upgrades`: `UpgradesRegistrar`, the time lock of `UpgradeImplScheme` and V2, `FixPermissions`.
8. Theorems: every safety property that a run checks is proved; the parts to come bring their own.

## 3. How the modules follow the code

* A transaction is one action, its first parameter `c` the caller (`msg.sender`) where it matters. It holds every
  call that the function makes, in other contracts too. A call that reverts is not enabled: on the chain it leaves
  no trace. `require`s, modifiers and SafeMath's limits are the guards.
* A *generic call* of the DAO's controller does not revert when the inner call fails, it returns `false`. Where
  the code ignores that (`FeelessScheme.addRights`, `UBIScheme.upgrade`, `GoodReserveCDai.start`) the action has a
  parameter for the outcome or follows both; where the inner call is one of the model's own it succeeds exactly
  when that is enabled.
* `registered` is what the DAO answers to `isRegistered()`; a vote may change it at any time. Code that appears at
  an address, memberships seen by a scheme, the clock, the chain's blocks and cDAI's rate are environment actions.
* `transferAndCall` calls the receiver at the end of the transfer. The receivers of this code that are modelled take
  the G$ as the last thing; what any other receiver does there, it could do in a later transaction of its own, with
  the same state.
* A script is a sequence of batches; a batch is the set of calls under way at one `await`. A call is answered or
  refused, in any order within the batch; the next batch starts when all are answered, and the first refusal that
  the code does not catch ends the script. What is still under way then, or when the process dies, may be mined
  late, until the next script's first transaction. Calls of the node that change nothing are left out.
* A contract is a pair of its name and the number of the run that deployed it: each run deploys anew. A file maps
  each network and name to a run, 0 for none.
* "now" and amounts are numbers in units of the model. What wraps in the code (`whitelistedCount`, an unchecked
  `+=`) wraps at `Word`, what SafeMath guards has a guard, and divisions round down as in Solidity.

| module | source | state | actions |
|---|---|---|---|
| `Identity` | `Identity.sol`, `IdentityAdminRole.sol`, `IdentityGuard.sol`, `SchemeGuard.sol` | the two lists, `contracts`, the two counters, dates, both directions of the DID index, `owner`, admins, pausers, pause; outside: `code`, `registered`, `now` | one per public function; `CodeAppears`, `CodeDestroyed`, `RegistrationChanges`, `Tick` |
| `FirstClaimPool` | `FirstClaimPool.sol` | `poolStatus`, `ubi`, `claimAmount`, and `balance` of pool, scheme, avatar and previous scheme | `startPool`, `setUBIScheme`, `setClaimAmount`, `endPool`; the award is a part of the scheme's claim |
| `UBIScheme` | `UBIScheme.sol`, `AbstractUBI`, `ActivePeriod.sol`, `FeelessScheme.sol` | day, cycle, pool and share, settings, the users' dates, who is fished, records per day | `claim`, `fish`, `fishMulti`, `setDay`, `start`, `upgrade`, `end`, the DAO's settings; `Tick`, `WhitelistChanges`, `Unregister`, `Deposit` |
| `GoodDollar` | `GoodDollar.sol`, `ERC677*.sol`, `FormulaHolder.sol`, `AbstractFees`, the two formulas | balances, allowances, supply, formula, fee recipient, roles, pause | one per public function; `BlacklistChanges`, `DAOContractsChange`, `FormulaStatusChanges` for the identity contract and the DAO |
| `OneTimePayments` | `OneTimePayments.sol` | `payments`, owner; the whole token | `deposit` (transferAndCall with `onTokenTransfer`), `withdraw`, `cancel`, `start`, and every call of the token's |
| `SimpleDAIStaking` | `SimpleDAIStaking.sol` | stakes, total, last collection, pause, listing; `cdai` per holder, `rate`, `block` | `stakeDAI`, `withdrawStake`, `collectUBIInterest`, `startStaking`, `endStaking`, `recoverStaking`, settings; `NextBlock`, `RateGrows` |
| `GoodMarketMaker` | `GoodMarketMaker.sol`, `ContributionCalculation.sol` | the `curve` (supply, reserve, ratio), the expansion, the owner | operators from curve to curve, used by the reserve's actions |
| `GoodFundManager` | `GoodFundManager.sol`, `GoodReserveCDai.sol` | status, intervals and last runs of both contracts, `gd` per kind of holder | `buy`, `sell`, `transferInterest` (collect, mint, expand, split), `mintedByOther`, start, end, recover, settings |
| `MigrationScripts` | the migrations 4 to 8, `stakingModel/migrations`, `stakingModel/scripts`, `upgradables/migrations`, `upgradables/scripts` | `founders` | none: one operator per script gives its batches; tables of the names it writes and reads |
| `DAOScripts` | the same; `releaser.js`, `AbsoluteVote` and `SchemeRegistrar` as the scripts use them | the process (script, network, run, batch, calls under way), the DAO (proposed, registered, live, ballots), what contracts know of each other, the files | `Run`, `Answer`, `Refuse`, `NextBatch`, `Finish`; `Crash`, `Lose`, `LateAnswer`, `HandVote` |
| `SchemeLife` | (abstract) | ballots, proposed, registered, live, published | `Propose`, `Approve`, `GoLive`, `Publish` |
| `DeployOrganization` | `2_deploy_organization.js`, `3_deploy_adminwallet.js`, `DaoCreator.sol` | the process; per run the DAO it creates: owners, admins, pausers, minters, schemes, lock, lists; the file | `CreateOrganization`, `SetUpWallet`, and as in `DAOScripts` |
| `Sums` | (none: mathematics) | | `SumOf` of a function, as the cardinality of its units |

Choices worth knowing:

* *The whitelist in `UBIScheme`* is a set that changes by itself. How it changes is the subject of `Identity`; the
  scheme only asks.
* *G$ transfers by `UBIScheme` and the staking model are free of fees.* Their contracts are DAO contracts; what
  happens to a scheme that is not is the subject of `OneTimePayments`, on the real token.
* *The formula of the curve* is a parameter. Its assumption is what `BancorFormula` has: a sale returns at most
  the reserve, and less than it unless the whole supply is sold. The books of the curve start with cDAI that nobody deposited
  (`migrations/3_mainnet.js:140`), and so they do in `Init`; hence `BackingIsKept` is about the difference.
* *The expansion's rate* is any fraction with a positive denominator, as in `setReserveRatioDailyExpansion`, and the
  ratio is a `uint32` (`RatioWord`). At a rate above 1 the supply that keeps the price is mostly less than today's,
  and the expansion reverts; when the rounding of the price lets it pass, the ratio is above 100% and the formula
  refuses every later trade. `CurveStaysValid` names this as the one way out and rules out all others.
* *Start and end of the staking contract.* `startStaking` and `endStaking` have a parameter for the generic call that
  puts the contract on the list or takes it off: it may fail unnoticed. The start is the owner's, who is the deployer
  and from then on the avatar; the model does not keep the owner, so it may come again, as the avatar's may.
* *Rounding.* `DSMath`'s ray arithmetic is replaced by rounding down to the unit of the token, at the places where
  the code rounds to the unit.
* *Voting.* Reputation is minted in equal parts (`2_deploy_organization.js:60`), so the absolute majority of
  `AbsoluteVote` is one of heads. The vote that completes it executes the proposal, and later votes are refused.
* *`SchemeLife`* says what DAO and scripts promise together: a contract is proposed, approved by a majority, live, and
  only then published; a file loses or keeps an entry or takes one that is ready. `DAOScripts` implements it with
  the contracts' names and the files' entries for `published` (`LifeSpec`).
* *The tokens for founders* in the DAO's creation (`TestMoney`): the code asks whether their amount is "0" as well. The
  model does not: it is 200000 for "test" and the default's 2000000000 for "develop" (`deploy-settings.json`).
* *The end of `deployFuseStaking.ts`.* The file is written by a call that nobody awaits while `upgrade1` is under way.
  If `upgrade1` fails, `main().catch` prints the error and the file is written all the same: a tolerated refusal.
* *Inputs of a script* that are missing from the files keep it from being run (`Reads`, `ReadsHome`): with
  `undefined` for an address it throws before its first transaction.
* *Receivers of cDAI and of G$* outside the contracts (traders, bridge) are lumped together: no code reads them.

## 4. Runs

All runs are exhaustive for their bounds.

| run | instance | what it shows |
|---|---|---|
| `identity` | 3 accounts, DIDs `{empty, d1}`, counters wrap at 4, times to 2, period 0 or 1 | counters and DID index agree through every path on and off the list; only code that appears or vanishes makes the contract counter drift; nobody is reinstated but by authentication |
| `ubi_days` | 2 users, 4 days of 2 hours, cycles of 2 days that the DAO sets to 1, inactivity of 1 day, 7 G$ | everything said of the daily distribution: divisor, funding of the cycle, overrun of a day at most, share and pool fixed, only the inactive fished |
| `ubi_lifecycle` | 1 user, 2 G$, from deployment through start or upgrade to the end | the types (no balance goes negative in any life of scheme and pool), every G$ paid is recorded |
| `ubi_fisher`, `ubi_overrun`, `ubi_totals`, `ubi_upgrade` | as above, smaller | one comment of the source each that the code does not keep, see 7 |
| `gooddollar` | 3 accounts, one of them a contract, cap 4, amounts 1 and 3, a fee of a third under both formulas | conservation, allowances, exact transfers of DAO contracts |
| `onetime_payments` | 2 ids, 2 users, the scheme on the real token | solvency; an open payment is paid once, in full and to whom it belongs, a closed one to nobody |
| `staking_model` | 2 stakers, amounts 1 and 6, rates 1 and 2, blocks 0 to 2, ratio 4/4 falling to 2/4 and 1/4 or rising to 5/4 | stakes covered, curve valid unless a rate above 1 left it, backing and supply follow the books |
| `organization` | 5 networks, up to 2 creations, 2 mishaps | every DAO left behind is governed, only one that was handed over is released, no order of mining refuses a call, the wallet serves |
| `dao_scripts` | 4 environments, keystores of 2 and 3 founders, chains of up to 4 of the 23 scripts, 1 mishap | the files name only live contracts that know each other, every failure has a known kind of cause, what is carried is started, refinement of `SchemeLife` |

Bounds, and why they are enough:

* *Identity.* Three accounts allow a holder, a rival for the DID and an admin; `Word` 4 wraps one step beyond them, so that a
  missing or double decrement shows at once. Two times and a period of 0 or 1 reach a lapse and a renewal. `Bound`
  lets either the members move (the roles stay) or the roles (nobody has a DID): no guard of one part reads what the
  other changes, save who is an admin, registered and not paused, and both parts reach all of these.
* *UBIScheme.* Two users give a claimer and a fisher, and both parts of each race; a third adds nothing to a divisor of
  which two values are compared. Days of two hours let a claim come earlier or later in its day than the cycle's
  start, which is all that the two clocks can disagree about. Four days hold two cycles, one overrun and a second
  inactivity. `StartedSpec` starts from a scheme just started, since `ubi_lifecycle` covers the way there.
* *GoodDollar.* Three accounts are payer, recipient and fee recipient, or fewer when they coincide; a fee of one of three
  rounds to 0 for the amount 1 and to 1 for 3. `Bound`: at most one open allowance (no guard reads two), and the roles
  move only with a supply of at most 1.
* *OneTimePayments.* Two ids are needed for one to be paid from the other's G$; the second has two key holders, either
  of whom may be its sender, for the race. Roles stay, the formula and the scheme's exemption change at any time. `OneAllowance`.
* *Staking model.* For the ratio 1/k the curve is S ~ R^(1/k), computed in whole numbers. Two stakers, so that one can
  lose by the other's rounding; the amounts 1 and 6 with the rates 1 and 2 give exact and rounded conversions;
  two expansions reach the smallest ratio, from which no more is possible, and one with the rate 5/4 a ratio above 100%;
  `RatioWord` 8 is beyond it. `Bound`: the contracts start before
  anything moves, and of twelve settings (pause, managers, intervals, ends, ratios, listing, minter's right) one
  at a time is away from its value at deployment.

* *DAOScripts.* "production" has a home and a main chain and a keystore, "test" and "develop" play both chains with
  one founder, "fuse" is a home network with one founder. Keystores of two and of three founders are the two
  parities of `Math.ceil(founders.length / 2)`. `Runbook` says which script may follow which: every script first
  or after those that write what it reads, and once more after itself where that is more than the same again.
  `MaxRuns` 4 holds the longest chain (UBI, main chain, new UBI, new recipient). `MaxMishaps` 1: one death, lost call
  or vote by hand in a chain, at any point; what it leaves behind meets up to three later runs.
* *DeployOrganization.* The five networks are all the ways the two migrations can go. A creation starts over with new
  contracts, so that two are enough for a file that names the older one; `MaxMishaps` 2 puts one into each.

`CHECK_DEADLOCK` is on in the runs of the contracts: there is always somebody who may move. It is off in
`organization` and `dao_scripts`, where the operator may stop after any script.

## 5. Fairness

`DAOScripts`: `FairSpec` is `Spec` with weak fairness of `ScriptStep`, the steps of the running process. The code
justifies it: a script waits for nothing but the answers to transactions it has sent, the chain mines them or
refuses them (a call that is neither is a lost one, a step of its own), and JavaScript goes on after an `await`. Nothing
is assumed of the operator, who may never run another script, of founders, or of late transactions, which
may never be mined. `CarriedIsStarted` needs it: what the founders carried is started unless something went wrong.

The contracts: none is assumed. Every step is a transaction that somebody may send and nobody must; blocks and
the clock move, but no function runs by itself. So there is no liveness property to state: "the interest is
collected some day" would rest on a caller the code does not have. What can be said of progress is said as safety: a
cycle in progress is funded, no trade and no expansion up to the rate 1 leaves a curve on which all trade reverts, no date makes `isWhitelisted`
revert.

## 6. Proofs

`tlapm` checks the theorems of the eight `*_proofs` modules to the last leaf, for every value of the constants that
satisfies the `ASSUME`s of the modules (each is evaluated by the runs as well). The argument is the same throughout:
an inductive invariant, lemmas for the effect of each kind of step, one step of the proof per action, and the action
properties from the invariant.

* `Sums_proofs`: `SumUpdate`, a changed value changes the sum by as much. A sum is a cardinality of a set of units,
  since recursive sums are beyond the provers' induction.
* `Identity_proofs`: `IInv` is types, `CountMatchesWhitelist`, `DIDIndexAgrees`, `DatesOrdered` and `now > 0`. They
  need each other: removal decrements exactly because only listed accounts are removed, and a DID is free exactly
  when no listed account holds it; a date of 0 must lie in the past. The assumption is that there are fewer accounts
  than the counter has values. `ContractCountKept`, `DIDReleasedByRemoval`,
  `ReinstatedByAuthentication` and `ContractsLeaveBothLists` follow.
* `UBIScheme_proofs`: `UInv` adds to types, `NoUserCountedTwice` and `ClaimRecordsAgree` where the clock is
  (`ClockInv`: nothing is recorded before the start, which moves the origin of the days, and the last day calculated
  is not ahead) and that the fished are known users. `ShareFixedForTheDay` and `FishedAfterInactivity` follow.
  `CycleInv` relates the two clocks: the days begin on a whole hour, a cycle begins on the day of its first claim, and
  no calculated day is later than the last one or than the cycle's first day by more than its length. It gives
  `CycleOverrunsByOneDay`; `PoolFixedForTheCycle` needs the facts about division only. `FundedInv` (`CycleIsFunded`,
  and no cycle before the start) is inductive on top of both. What makes it so is that the shares are rounded
  down and that fishing pays from the day's pool only for those who have not claimed that day.
  `PaymentsRecorded` follows by `SumUpdate`: a payment changes one day of the sum.
* `GoodDollar_proofs`: `IInv` is types, `BalancesAddUp` and `WithinCap`; one lemma about a payment with its fee,
  wherever the three accounts coincide, serves transfer, transferFrom and the payments. Five action properties.
* `OneTimePayments_proofs`: `PInv` adds that the scheme gives no allowance, without which anybody holding one could
  take the deposits; `SolvencyKept` and `PaidOnceToItsOwner`. `PayGains` says what each account gains by a payment with
  its fee, wherever accounts coincide; `WithdrawPaysOut` that a withdrawal or cancellation is such a payment of the
  whole amount. With the invariant, a step takes G$ from the scheme only so, from one open record, which it closes.
* `GoodFundManager_proofs`: `IInv` is types, `StakesAddUp` and a curve with positive supply, reserve and ratio, the ratio
  within its word. Nothing is assumed of the expansion's rate but a positive denominator: `CurveIsAlwaysValid` is about
  steps, and has the case of a rate above 1 in its statement.
  The core is `InterestFits`: the interest, rounded down, is held by the contract and what is left is worth the
  stakes. `PrincipalIsKept`, `BackingIsKept`, `SupplyFollowsToken`.

* `DeployOrganization_proofs`: what a DAO under construction has is a function of how far its script has come. The
  invariant says for each batch what was reached before it and what is under way of it (`Inductive`);
  that no call of a batch takes away what another call of the same batch needs makes `NoRefusal`, that the
  ownerships are given in a batch after the roles makes `NeverOrphan`. For any networks, founders, numbers of runs
  and mishaps. `WalletServing` needs, beside that, how full the wallet is at each batch of migration 3 (`Filled`): it is
  financed once per run and only while it holds no more than one amount, so it never holds more than two, and only a
  lost call, whose refusal the script does not see, leaves it without admins or its admins without money.
* `DAOScripts_proofs`: a lemma per script says that its programs start every contract before they release it
  (`StartsFirst`), and the invariant that whatever lies before the current batch has been answered; with types
  it is inductive for any order of scripts, any founders, any number of mishaps (`Inductive`). `ReleasedLive` follows,
  and `Refinement`: `Init` maps to `Init`, each action to one of `SchemeLife` or a stutter.

  `ReleasedWired`, `ProxiesBelongToDAO` and `FailuresHaveCauses` rest on a second invariant, `Arranged`, and on two
  groups of lemmas. `AllOrdered` says of each script, from its batches alone, that it votes only for what it proposed,
  starts only after all of its votes, hands over only what it deployed, releases only what is complete, and does none
  of it twice (`Ordered`). `HeadFacts` counts: the votes of the first half carry a scheme
  when they are more than half of the heads, and without one of them they never do. `Arranged` then says that every
  answered call of the running script has achieved what it is there for (`Achieved`) and nothing has anticipated the
  rest (`Untouched`): a scheme of this run is not live before its `start()`, and a founder has not voted on it
  except by hand. This is what makes it inductive. Each vote of the first half is needed for the majority, so that a
  vote refused because the scheme is registered already means that somebody voted by hand. A late transaction
  belongs to an earlier run, whose contracts have other addresses. `FailureHasCause` is a conjunct of `Arranged`: the
  listed causes are those under which the guard of a call can be false although `Ordered` and
  `Achieved` hold.

  The assumption on the keystores, at least one account and none twice, is needed: with an account listed twice
  the first half of the list is fewer heads than the script counts on, and its second vote is refused.

Proved for all parameters and not checked by a run: `WithinCap`, `PausedFreezesHoldings`, `RenouncedForGood` (token),
`DatesOrdered` (`Identity`), `StakesAddUp` (staking).

Every invariant and every safety property that a passing run checks is stated by a theorem. Only model-checked is
`CarriedIsStarted`: liveness under fairness, ENABLED and induction over data are out of the prover's reach. No
module declares a RECURSIVE operator.

## 7. Where the code and its comments disagree

Runs with a violation, each with the step-by-step counterexample of TLC:

* `ubi_fisher`: `activeUsersCount` is said to change when a new user claims for the first time
  (`UBIScheme.sol:19-21`); a new user whose first call is `fish()` becomes a claimant without being counted.
* `ubi_overrun`: a cycle is said to last `cycleLength` days (`UBIScheme.sol:38-39`); it pays its daily pool on one
  more day when the first claim after its last day comes at an earlier hour than the one that began it.
* `ubi_totals`: `totalClaimsPerUser` (`UBIScheme.sol:74`) stays 0, the result of `add(1)` is dropped (`:298`).
* `ubi_upgrade`: `upgrade()` is said to move the old scheme's funds (`UBIScheme.sol:482`); when the old scheme's
  `end()` fails, the avatar's own G$ move instead.

Read, and in the models where they change state, but without a run:

* `setFormula` is said to revert for an unregistered formula (`FormulaHolder.sol:20`); the answer of
  `isRegistered()` is dropped (`:24`).
* `updateUBICyclePeriod.js:45` logs `newAuthPeriod`, which nothing declares: the script throws right after the
  deployment, `.catch(console.log).then(done)` ends it without an error, and no proposal is made.
* `upgrade()` of `deployFuseFaucet.ts` (`:41`) upgrades the proxy of `FuseStaking` with the code of `FuseFaucet`.
* `deployFuseFaucet.ts:27` and `deployFuseStaking.ts:23` replace the network's whole record by their own address;
  the proxies that other scripts recorded are lost from the file (`Dropped`), and the next migration deploys new ones.
* `README.md:61` says of the UBI migration that it will "start the contract if enough votes are given"; the call is
  commented out (`4_deploy_new_ubi.depracated.js:79`).
* The votes of `Math.ceil(founders.length / 2)` founders are no majority of an even number of founders: with two, every
  script that relies on them fails at its `start()`.
* `updateHomeBridge.js`, run a second time for the same bridge, carries a scheme whose call can never succeed.
* `package.json` numbers the migrations as before the AdminWallet had one: `deploy:ubi` ends with migration 3.
* `setDay()` by anybody moves `currentDay` and leaves the share of yesterday for the views to show.
* `checkEntitlement` answers with the whole balance's part before the first claim of a day, `claim` pays the
  cycle's part.
* `amountOfClaimers` of a day counts payments, not persons: a fisher is counted for every fish and for the own claim
  (`UBIScheme.sol:295`).
* `OneTimePayments.start` succeeds although `addContract` failed, and the scheme then pays fees.
* `lastTransferred` is documented as a block number (`GoodFundManager.sol:51-52`) and is the number of an interval;
  after the DAO raises an interval the gate waits until the blocks have caught up.

## 8. Not modelled

* *Planned* (section 2): `UBI`/`FixedUBI`, `SignUpBonus`, `InviteUser`, the toppings of `AdminWallet`, time locks
  and the registrar of upgrades.
* *Out of TLC's reach*: `BancorFormula` (256-bit fixed point with tables of constants), `DSMath` (rays of 10^27).
* *External*: the DAOstack controller, Compound's cDAI and DAI, the token bridge, the OpenZeppelin upgrades plugin. Their
  parts in use are actions or parameters as described in section 3.
* *No behaviour to check*: interfaces, mocks, compiled artifacts, `truffle-config.js` and `hardhat.config.ts`,
  `verifyContracts.js`, `fetchOrDeployProxyFactory.ts`, `simulateInterestDays.js` (a simulation on a test network).
* *Left out of the scripts*: two scripts running at the same time (they would overwrite each other's file, and an account
  has one order of transactions, so an operator runs one at a time); the money that `getFounders` gives founders; the
  `ProxyAdmin`, `Contribution`, `DAI`, `cDAI` and `ForeignBridge` entries of the records; the amounts of
  `4_deploy_dev.js`; `upgradeByAvatar` (nothing calls it) and the upgrade of the faucet (section 7); the wait for a
  block interval in `collect_interest.js`.
* *Hazards of parts that are not modelled, or without a promise to hold the code against*: `UBI.sol:150` (`end()` of a
  scheme that is not registered any more reverts); `UBI.sol:205` (the number of claimers is taken at deployment);
  `SignUpBonus.sol:61` (whether the reserve moved is ignored); `AdminWallet.sol:181` (reimbursements count under a
  stale day); `UpgradeImplScheme.sol:49` (returns once the time lock has passed); `UpgradesRegistrar.sol:61`
  (any id may be executed); `UBIScheme.sol:336` and `GoodFundManager.sol:170` (section 7);
  `GoodReserveCDai.sol:409` (`recover()` takes cDAI that the curve still prices).
* *Left out of modelled contracts*: views; `setMarketMaker`, `setContributionAddress` and
  `setBridgeAndUBIRecipient`, which exchange a contract for one the model does not have; recovery of foreign tokens;
  events.
