------------------------ MODULE MCResourceOwnership ------------------------
(***************************************************************************)
(* Three profiles: the first has the lowest tier; the second has two       *)
(* references of different tiers, and two runs that may act for it at      *)
(* once; the third has its tier and does nothing any more.  At first the   *)
(* object is missing, not deployed by Sveltos, of an old release or owned  *)
(* by the second or the third profile.                                     *)
(***************************************************************************)
EXTENDS ResourceOwnership

CONSTANTS p1, p2, p3, f1, f2, f3

Claim1 == [profile |-> p1, ref |-> f1, tier |-> 1, refTier |-> 100]
Claim2 == [profile |-> p2, ref |-> f2, tier |-> 2, refTier |-> 100]
Claim3 == [profile |-> p2, ref |-> f3, tier |-> 2, refTier |-> 50]
ThreeClaims == {Claim1, Claim2, Claim3}

Foreign == [owner |-> Nil, tier |-> Nil, ref |-> Nil, refTier |-> Nil, ownerRef |-> Nil, deleting |-> FALSE]
OldRelease == [Foreign EXCEPT !.ref = f2, !.ownerRef = p3]
Owned == [Foreign EXCEPT !.owner = p3, !.tier = 2, !.ref = f2, !.refTier = 100]
OfSecond == [Owned EXCEPT !.owner = p2]
AllObjects == {Nil, Foreign, OldRelease, Owned, OfSecond}

SomeRuns == [profile : {p2}, n : {1, 2}] \cup {[profile |-> p1, n |-> 1]}

=============================================================================
