---------------------------- MODULE SchemeLife ----------------------------
(***************************************************************************)
(* What the DAO and the scripts together promise about a contract, with no *)
(* script in sight: it is proposed, the founders approve it, it goes live, *)
(* and only then may an address file name it.  A contract that is no       *)
(* scheme needs no approval.  DAOScripts implements this.                  *)
(***************************************************************************)
EXTENDS Naturals, FiniteSets

CONSTANTS Contracts,    \* the contracts, each <<name, number of the run>>
          SchemeNames,  \* names of contracts that act for the DAO
          LiveNames,    \* names that a file gives to live contracts only
          Places        \* places in the files, each with a field key

VARIABLES voters,       \* who may vote, with equal reputation
          ballots,      \* set of <<contract, voter>>
          proposed, registered, live,   \* how far the contracts have come
          published     \* the run whose contract each place names; 0 for none

vars == <<voters, ballots, proposed, registered, live, published>>

Majority(c, b) == 2 * Cardinality({f \in voters : <<c, f>> \in b}) > Cardinality(voters)

Init ==
  /\ proposed \subseteq Contracts
  /\ registered = {} /\ live = {} /\ ballots = {}
  /\ published = [p \in Places |-> 0]

Propose(c) ==
  /\ proposed' = proposed \cup {c}
  /\ UNCHANGED <<voters, ballots, registered, live, published>>

\* The vote that completes a majority registers the scheme in the same step.
Approve(c, f) ==
  /\ c \in proposed \ registered
  /\ ballots' = ballots \cup {<<c, f>>}
  /\ registered' = IF Majority(c, ballots') THEN registered \cup {c} ELSE registered
  /\ UNCHANGED <<voters, proposed, live, published>>

GoLive(c) ==
  /\ c[1] \in SchemeNames => c \in registered
  /\ live' = live \cup {c}
  /\ UNCHANGED <<voters, ballots, proposed, registered, published>>

\* A file is rewritten: a place keeps its entry, loses it, or takes the
\* address of a contract that is ready.
Ready(c) == c[1] \in LiveNames => c \in live
Publish ==
  /\ \A p \in Places : \/ published'[p] \in {published[p], 0}
                       \/ Ready(<<p.key, published'[p]>>)
  /\ DOMAIN published' = Places
  /\ UNCHANGED <<voters, ballots, proposed, registered, live>>

Next ==
  \/ \E c \in Contracts : Propose(c) \/ GoLive(c) \/ \E f \in voters : Approve(c, f)
  \/ Publish

Spec == Init /\ [][Next]_vars
=============================================================================
