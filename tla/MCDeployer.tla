----------------------------- MODULE MCDeployer -----------------------------
(***************************************************************************)
(* Small instances of Deployer.  One target and one feature already give   *)
(* two keys, the deployment and the clean up of the feature.               *)
(***************************************************************************)
EXTENDS Deployer
=============================================================================
