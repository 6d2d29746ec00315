------------------------- MODULE MCWorkloadIdentity -------------------------
(***************************************************************************)
(* Two callers that come through the cluster cache, or one of them and one *)
(* that calls lib/clusterproxy directly.                                   *)
(***************************************************************************)
EXTENDS WorkloadIdentity
=============================================================================
