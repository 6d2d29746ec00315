-------------------------- MODULE MCSharedObjects --------------------------
(***************************************************************************)
(* A small instance of SharedObjects: two processes and each of the        *)
(* objects, with licenses of this cluster and of another, with and without *)
(* a grace period of their own, one forged and one without a signature.    *)
(***************************************************************************)
EXTENDS SharedObjects

License(date, days, cluster, keys) ==
  [expirationDate |-> date, gracePeriodDays |-> days, fingerprint |-> cluster,
   signed |-> TRUE, keys |-> keys]
Forged(lp) == [lp EXCEPT !.signed = FALSE]

SmallPayload == [l1 |-> License(1, 0, "", Keys),
                 l2 |-> License(1, 3, "other", Keys),
                 l3 |-> Forged(License(2, 1, "this", Keys)),
                 l4 |-> License(2, 1, "this", Keys),
                 l5 |-> License(2, 1, "", {"license"})]
=============================================================================
