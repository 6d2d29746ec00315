------------------------- MODULE MCClusterSelection -------------------------
(***************************************************************************)
(* Small instances of ClusterSelection: clusters of both kinds, which do   *)
(* not depend on each other, so that one at a time is enough.              *)
(***************************************************************************)
EXTENDS ClusterSelection

CONSTANTS k1, v1

TwoClusters == {k1, v1}
=============================================================================
