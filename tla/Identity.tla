------------------------------- MODULE Identity -------------------------------
(***************************************************************************)
(* The identity contract of the GoodDollar DAO                             *)
(* (contracts/identity/Identity.sol, with IdentityAdminRole.sol and the    *)
(* OpenZeppelin roles it inherits): who is whitelisted, blacklisted and a  *)
(* DAO contract, the counters the UBI schemes divide by, and the DID       *)
(* (decentralised identifier) index.                                       *)
(*                                                                         *)
(* Every public function is one action; its first parameter is the caller. *)
(* A call that reverts is an action that is not enabled.                   *)
(***************************************************************************)
EXTENDS Integers, FiniteSets

CONSTANTS
  Accounts,   \* the addresses, users' and contracts'
  Zero,       \* address(0)
  DIDs,       \* the DIDs; a DID stands for its keccak256 hash too
  NoDID,      \* the empty string, the DID of an account that has none
  Deployer,   \* the account that deploys the contract
  Day,        \* the length of "1 days" in units of the clock
  InitialPeriod, \* the initial authentication period in days, 14 in the code
  Periods,    \* bound: the authentication periods the owner may set, in days
  Word,       \* 2^256, the modulus of the unchecked counters
  MaxTime     \* bound: the clock stops here

ASSUME IdentityAssumption ==
  /\ IsFiniteSet(Accounts) /\ Deployer \in Accounts /\ Zero \notin Accounts
  /\ NoDID \in DIDs
  /\ Day \in Nat \ {0} /\ MaxTime \in Nat /\ Periods \subseteq Nat
  /\ InitialPeriod \in Nat
  /\ Word \in Nat /\ Cardinality(Accounts) < Word

VARIABLES
  owner,                 \* Ownable
  identityAdmins,        \* IdentityAdminRole
  pausers, paused,       \* PauserRole, Pausable
  registered,            \* what SchemeGuard.isRegistered() answers
  blacklist, whitelist, contracts,
  whitelistedCount, whitelistedContracts,
  authenticationPeriod,
  dateAuthenticated, dateAdded,
  addrToDID, didHashToAddress,
  code,                  \* the addresses with code (extcodesize > 0)
  now                    \* the timestamp of the block

roles == <<owner, identityAdmins, pausers, paused, registered>>
members == <<whitelist, whitelistedCount, whitelistedContracts, dateAdded,
             addrToDID, didHashToAddress>>
env == <<code, now>>
vars == <<roles, blacklist, contracts, authenticationPeriod,
          dateAuthenticated, members, env>>

-----------------------------------------------------------------------------
(* uint256 arithmetic of `+= 1` and `-= 1`, neither of which checks.       *)
Inc(n) == IF n = Word - 1 THEN 0 ELSE n + 1

MutDecForgotten(n) == n
MutDecUnwrapped(n) == n - 1
Dec(n) == IF n = 0 THEN Word - 1 ELSE n - 1

MutListedContract(a) == a \in contracts
isContract(a) == a \in code

isWhitelisted(a) ==
  /\ (now - dateAuthenticated[a]) \div Day <= authenticationPeriod
  /\ a \in whitelist

isDAOContract(a) == a \in contracts

(* onlyRegistered, onlyIdentityAdmin and whenNotPaused in one.             *)
AdminGuard(c) == registered /\ c \in identityAdmins /\ ~paused

(* dateAuthenticated once `a` is authenticated at the current time         *)
MutDateKept(a) == dateAuthenticated
Authenticated(a) == [dateAuthenticated EXCEPT ![a] = now]

MutAnyDID(did) == TRUE
DIDIsFree(did) == didHashToAddress[did] = Zero

-----------------------------------------------------------------------------
(* The internal functions that every membership change goes through.       *)
_addWhitelisted(a) ==
  /\ a \notin whitelist
  /\ whitelist' = whitelist \union {a}
  /\ whitelistedCount' = Inc(whitelistedCount)
  /\ whitelistedContracts' =
       IF isContract(a) THEN Inc(whitelistedContracts) ELSE whitelistedContracts
  /\ dateAdded' = [dateAdded EXCEPT ![a] = now]
  /\ dateAuthenticated' = Authenticated(a)

(* The DID index loses the hash of the account's DID, which is the hash of *)
(* the empty string when the account has none.                             *)
_removeWhitelisted(a) ==
  /\ a \in whitelist
  /\ whitelist' = whitelist \ {a}
  /\ whitelistedCount' = Dec(whitelistedCount)
  /\ whitelistedContracts' =
       IF isContract(a) THEN Dec(whitelistedContracts) ELSE whitelistedContracts
  /\ dateAuthenticated' = [dateAuthenticated EXCEPT ![a] = 0]
  /\ addrToDID' = [addrToDID EXCEPT ![a] = NoDID]
  /\ didHashToAddress' = [didHashToAddress EXCEPT ![addrToDID[a]] = Zero]
  /\ UNCHANGED dateAdded

-----------------------------------------------------------------------------
(* The constructor: IdentityWithOwner may hand the ownership to another    *)
(* account; the deployer stays identity admin and pauser.                  *)
Init ==
  /\ owner \in Accounts
  /\ identityAdmins = {Deployer} /\ pausers = {Deployer}
  /\ paused = FALSE /\ registered = FALSE
  /\ blacklist = {} /\ whitelist = {} /\ contracts = {}
  /\ whitelistedCount = 0 /\ whitelistedContracts = 0
  /\ authenticationPeriod = InitialPeriod
  /\ dateAuthenticated = [a \in Accounts |-> 0]
  /\ dateAdded = [a \in Accounts |-> 0]
  /\ addrToDID = [a \in Accounts |-> NoDID]
  /\ didHashToAddress = [d \in DIDs |-> Zero]
  /\ code \in SUBSET Accounts
  /\ now = 1

setAuthenticationPeriod(c, period) ==
  /\ c = owner /\ ~paused
  /\ authenticationPeriod' = period
  /\ UNCHANGED <<roles, blacklist, contracts, dateAuthenticated, members, env>>

authenticate(c, a) ==
  /\ AdminGuard(c)
  /\ dateAuthenticated' = Authenticated(a)
  /\ UNCHANGED <<roles, blacklist, contracts, authenticationPeriod, members, env>>

addWhitelisted(c, a) ==
  /\ AdminGuard(c)
  /\ _addWhitelisted(a)
  /\ UNCHANGED <<addrToDID, didHashToAddress>>
  /\ UNCHANGED <<roles, blacklist, contracts, authenticationPeriod, env>>

addWhitelistedWithDID(c, a, did) ==
  /\ AdminGuard(c)
  /\ DIDIsFree(did)
  /\ addrToDID' = [addrToDID EXCEPT ![a] = did]
  /\ didHashToAddress' = [didHashToAddress EXCEPT ![did] = a]
  /\ _addWhitelisted(a)
  /\ UNCHANGED <<roles, blacklist, contracts, authenticationPeriod, env>>

removeWhitelisted(c, a) ==
  /\ AdminGuard(c)
  /\ _removeWhitelisted(a)
  /\ UNCHANGED <<roles, blacklist, contracts, authenticationPeriod, env>>

(* Needs neither a registered contract nor an admin.                       *)
renounceWhitelisted(c) ==
  /\ ~paused
  /\ _removeWhitelisted(c)
  /\ UNCHANGED <<roles, blacklist, contracts, authenticationPeriod, env>>

addBlacklisted(c, a) ==
  /\ AdminGuard(c)
  /\ a \notin blacklist
  /\ blacklist' = blacklist \union {a}
  /\ UNCHANGED <<roles, contracts, authenticationPeriod, dateAuthenticated, members, env>>

removeBlacklisted(c, a) ==
  /\ AdminGuard(c)
  /\ a \in blacklist
  /\ blacklist' = blacklist \ {a}
  /\ UNCHANGED <<roles, contracts, authenticationPeriod, dateAuthenticated, members, env>>

addContract(c, a) ==
  /\ AdminGuard(c)
  /\ isContract(a)
  /\ a \notin contracts
  /\ contracts' = contracts \union {a}
  /\ _addWhitelisted(a)
  /\ UNCHANGED <<addrToDID, didHashToAddress>>
  /\ UNCHANGED <<roles, blacklist, authenticationPeriod, env>>

(* Reverts for a DAO contract that was removed from the whitelist by       *)
(* removeWhitelisted or renounceWhitelisted: whitelist.remove fails.       *)
MutRemoveContractOnly(c, a) ==
  /\ AdminGuard(c)
  /\ a \in contracts
  /\ contracts' = contracts \ {a}
  /\ UNCHANGED <<roles, blacklist, authenticationPeriod, dateAuthenticated, members, env>>

removeContract(c, a) ==
  /\ AdminGuard(c)
  /\ a \in contracts
  /\ contracts' = contracts \ {a}
  /\ _removeWhitelisted(a)
  /\ UNCHANGED <<roles, blacklist, authenticationPeriod, env>>

-----------------------------------------------------------------------------
(* Roles: IdentityAdminRole, OpenZeppelin's Ownable, PauserRole, Pausable. *)
lists == <<blacklist, contracts, authenticationPeriod, dateAuthenticated, members, env>>

addIdentityAdmin(c, a) ==
  /\ c = owner /\ a \notin identityAdmins
  /\ identityAdmins' = identityAdmins \union {a}
  /\ UNCHANGED <<owner, pausers, paused, registered, lists>>

removeIdentityAdmin(c, a) ==
  /\ c = owner /\ a \in identityAdmins
  /\ identityAdmins' = identityAdmins \ {a}
  /\ UNCHANGED <<owner, pausers, paused, registered, lists>>

renounceIdentityAdmin(c) ==
  /\ c \in identityAdmins
  /\ identityAdmins' = identityAdmins \ {c}
  /\ UNCHANGED <<owner, pausers, paused, registered, lists>>

transferOwnership(c, a) ==
  /\ c = owner
  /\ owner' = a
  /\ UNCHANGED <<identityAdmins, pausers, paused, registered, lists>>

renounceOwnership(c) ==
  /\ c = owner
  /\ owner' = Zero
  /\ UNCHANGED <<identityAdmins, pausers, paused, registered, lists>>

addPauser(c, a) ==
  /\ c \in pausers /\ a \notin pausers
  /\ pausers' = pausers \union {a}
  /\ UNCHANGED <<owner, identityAdmins, paused, registered, lists>>

renouncePauser(c) ==
  /\ c \in pausers
  /\ pausers' = pausers \ {c}
  /\ UNCHANGED <<owner, identityAdmins, paused, registered, lists>>

pause(c) ==
  /\ c \in pausers /\ ~paused
  /\ paused' = TRUE
  /\ UNCHANGED <<owner, identityAdmins, pausers, registered, lists>>

unpause(c) ==
  /\ c \in pausers /\ paused
  /\ paused' = FALSE
  /\ UNCHANGED <<owner, identityAdmins, pausers, registered, lists>>

(* setAvatar by the owner, or the DAO's controller registering or          *)
(* unregistering the contract as a scheme.                                 *)
RegistrationChanges ==
  /\ registered' = ~registered
  /\ UNCHANGED <<owner, identityAdmins, pausers, paused, lists>>

-----------------------------------------------------------------------------
(* The environment: blocks pass; a contract is deployed at an address, or  *)
(* destroys itself, as SchemeGuard's descendants do when they end.         *)
Tick ==
  /\ now < MaxTime
  /\ now' = now + 1
  /\ UNCHANGED <<roles, blacklist, contracts, authenticationPeriod,
                 dateAuthenticated, members, code>>

CodeAppears(a) ==
  /\ a \notin code
  /\ code' = code \union {a}
  /\ UNCHANGED <<roles, blacklist, contracts, authenticationPeriod,
                 dateAuthenticated, members, now>>

CodeDestroyed(a) ==
  /\ a \in code
  /\ code' = code \ {a}
  /\ UNCHANGED <<roles, blacklist, contracts, authenticationPeriod,
                 dateAuthenticated, members, now>>

-----------------------------------------------------------------------------
MembershipNext ==
  \/ \E c, a \in Accounts :
       \/ authenticate(c, a)
       \/ addWhitelisted(c, a)
       \/ removeWhitelisted(c, a)
       \/ addBlacklisted(c, a)
       \/ removeBlacklisted(c, a)
       \/ addContract(c, a)
       \/ removeContract(c, a)
       \/ \E did \in DIDs : addWhitelistedWithDID(c, a, did)
  \/ \E c \in Accounts : renounceWhitelisted(c)
  \/ \E c \in Accounts, period \in Periods : setAuthenticationPeriod(c, period)

RoleNext ==
  \/ \E c, a \in Accounts :
       \/ addIdentityAdmin(c, a)
       \/ removeIdentityAdmin(c, a)
       \/ transferOwnership(c, a)
       \/ addPauser(c, a)
  \/ \E c \in Accounts :
       \/ renounceIdentityAdmin(c)
       \/ renounceOwnership(c)
       \/ renouncePauser(c)
       \/ pause(c)
       \/ unpause(c)
  \/ RegistrationChanges

EnvNext ==
  \/ Tick
  \/ \E a \in Accounts : CodeAppears(a) \/ CodeDestroyed(a)

Next == MembershipNext \/ RoleNext \/ EnvNext

Spec == Init /\ [][Next]_vars

-----------------------------------------------------------------------------
(* The types of the state.                                                 *)
TypeOK ==
  /\ owner \in Accounts \union {Zero}
  /\ identityAdmins \subseteq Accounts /\ pausers \subseteq Accounts
  /\ paused \in BOOLEAN /\ registered \in BOOLEAN
  /\ blacklist \subseteq Accounts /\ whitelist \subseteq Accounts
  /\ contracts \subseteq Accounts /\ code \subseteq Accounts
  /\ whitelistedCount \in 0 .. Word - 1 /\ whitelistedContracts \in 0 .. Word - 1
  /\ authenticationPeriod \in Nat
  /\ dateAuthenticated \in [Accounts -> Nat] /\ dateAdded \in [Accounts -> Nat]
  /\ addrToDID \in [Accounts -> DIDs]
  /\ didHashToAddress \in [DIDs -> Accounts \union {Zero}]
  /\ now \in Nat

(* whitelistedCount, which UBI divides by, is the number of accounts on    *)
(* the whitelist, through every path on and off the list.                  *)
CountMatchesWhitelist == whitelistedCount = Cardinality(whitelist)

(* The two directions of the DID index agree for every DID that is not     *)
(* empty, and only a whitelisted account holds one: nobody's DID can be    *)
(* registered again while the account has it.                              *)
DIDIndexAgrees ==
  /\ \A a \in Accounts : addrToDID[a] # NoDID =>
       a \in whitelist /\ didHashToAddress[addrToDID[a]] = a
  /\ \A d \in DIDs \ {NoDID} : didHashToAddress[d] # Zero =>
       addrToDID[didHashToAddress[d]] = d

(* isWhitelisted subtracts an account's authentication date from now with  *)
(* SafeMath: it never reverts, and a whitelisted account was authenticated *)
(* no earlier than it was added.                                           *)
DatesOrdered ==
  \A a \in Accounts :
    /\ dateAuthenticated[a] <= now
    /\ a \in whitelist => dateAdded[a] <= dateAuthenticated[a] /\ dateAdded[a] > 0

(* The contract's own functions keep whitelistedContracts equal to the     *)
(* number of whitelisted addresses with code. It drifts only when code     *)
(* appears at, or is destroyed at, a whitelisted address.                  *)
ContractCount == whitelistedContracts = Cardinality(whitelist \intersect code)
ContractCountKept == [][ContractCount /\ code' = code => ContractCount']_vars

(* A DID changes hands only by leaving the index first, and it leaves only *)
(* when its holder leaves the whitelist.                                   *)
DIDReleasedByRemoval ==
  [][\A d \in DIDs \ {NoDID} :
       didHashToAddress[d] # Zero /\ didHashToAddress'[d] # didHashToAddress[d] =>
         /\ didHashToAddress'[d] = Zero
         /\ didHashToAddress[d] \in whitelist \ whitelist']_vars

(* An account that does not count as whitelisted, be it removed or lapsed, *)
(* counts again only because it was authenticated in that step or the      *)
(* owner lengthened the authentication period.                             *)
ReinstatedByAuthentication ==
  [][\A a \in Accounts :
       ~isWhitelisted(a) /\ isWhitelisted(a)' =>
         \/ dateAuthenticated'[a] = now
         \/ authenticationPeriod' > authenticationPeriod]_vars

(* A DAO contract loses that standing only together with its whitelisting, *)
(* so the fee exemption never outlives removeContract as a listed user.    *)
ContractsLeaveBothLists ==
  [][\A a \in Accounts :
       a \in contracts \ contracts' => a \in whitelist \ whitelist']_vars

=============================================================================
