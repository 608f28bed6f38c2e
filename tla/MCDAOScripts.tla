--------------------------- MODULE MCDAOScripts ---------------------------
(***************************************************************************)
(* Instances of DAOScripts for TLC.                                        *)
(***************************************************************************)
EXTENDS DAOScripts

MCKeystores == {<<"f1", "f2", "f3">>, <<"f1", "f2">>}

\* Which script may follow which.  A script may be run again, and the chains
\* follow the order in which one writes the addresses that the next reads.
After(s) ==
  CASE s = "none" -> Scripts
    [] s = "sidechain_ubi" -> {"mainnet", "upgradeUBIScheme", "invites", "fuse_staking"}
    [] s = "mainnet" -> {"upgradeUBIScheme", "dev", "collect_interest", "fake_interest",
                         "donations"}
    [] s = "upgradeUBIScheme" -> {"updateBridgeAndUBIRecipient"}
    [] s = "donations" -> {"donations_upgrade"}
    [] s = "invites" -> {"invites_upgrade", "fuse_staking"}
    [] s = "fuse_staking" -> {"invites", "fuse_staking_upgrade", "fuse_faucet"}
    [] OTHER -> {}
Again == {"new_otp", "bridges", "mint_rep", "sidechain_ubi", "mainnet", "upgradeUBIScheme",
          "updateBridgeAndUBIRecipient", "updateHomeBridge", "donations", "invites"}
MCRunbook == {<<s, t>> \in (Scripts \cup {"none"}) \X Scripts :
                t \in After(s) \/ (t = s /\ s \in Again)}
=============================================================================
