------------------------------ MODULE MCIdentity ------------------------------
(* Bounds and symmetry for model-checking Identity: three accounts share   *)
(* two DIDs while the deployer keeps all roles, and two accounts hand the  *)
(* roles around while nobody has a DID.                                    *)
EXTENDS Identity, TLC

Users == Permutations(Accounts \ {Deployer}) \union Permutations(DIDs \ {NoDID})

(* Bound of the roles' part: no code, no DIDs, one account on a list; one  *)
(* account is left out of it all, and one of the two roles moves.          *)
Untouched(a) ==
  /\ a \notin blacklist \union whitelist \union identityAdmins \union pausers
  /\ a # owner /\ a \notin code /\ dateAuthenticated[a] = 0 /\ dateAdded[a] = 0

RolesMove ==
  /\ code = {} /\ \A a \in Accounts : addrToDID[a] = NoDID
  /\ Cardinality(whitelist) + Cardinality(blacklist) <= 1
  /\ identityAdmins = {Deployer} \/ pausers = {Deployer}
  /\ \E a \in Accounts \ {Deployer} : Untouched(a)

(* Bound of the memberships' part: no address stays blacklisted, which     *)
(* nothing else in the contract depends on.                                *)
MembersMove ==
  /\ owner = Deployer /\ identityAdmins = {Deployer} /\ pausers = {Deployer}
  /\ registered /\ ~paused /\ authenticationPeriod = InitialPeriod
  /\ blacklist = {}

Bound == RolesMove \/ MembersMove
=============================================================================
