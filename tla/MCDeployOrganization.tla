----------------------- MODULE MCDeployOrganization -----------------------
(***************************************************************************)
(* Instances of DeployOrganization for TLC.                                *)
(***************************************************************************)
EXTENDS DeployOrganization

MCKeystores == {<<"f1", "f2", "f3">>}

On(env, mainnet) == [env |-> env, mainnet |-> mainnet]
\* One network for each way the migrations can go.
MCNetworks == {On("production", FALSE), On("production", TRUE), On("test", FALSE),
               On("develop", FALSE), On("fuse", FALSE)}
=============================================================================
