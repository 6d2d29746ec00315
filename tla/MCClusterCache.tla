--------------------------- MODULE MCClusterCache ---------------------------
(***************************************************************************)
(* Small instances of ClusterCache: a SveltosCluster that may change from  *)
(* one Secret to another and from one mode to another.                     *)
(***************************************************************************)
EXTENDS ClusterCache, TLC

CONSTANT s2

KubeconfigSpecs == [mode : {"kubeconfig"}, secret : Secrets]
IdentitySpecs == [mode : {"identity"}, secret : {s2}]
AllSpecs == KubeconfigSpecs \cup IdentitySpecs \cup [mode : {"pull"}, secret : {s2}]

NoCapi == [c \in {} |-> None]
=============================================================================
