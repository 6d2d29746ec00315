----------------------------- MODULE MCPullMode -----------------------------
(***************************************************************************)
(* Small instances of PullMode.  Changing from one of SomeWants to the     *)
(* other overwrites the bundle of an index and drops that of the other.    *)
(***************************************************************************)
EXTENDS PullMode, TLC

CONSTANTS i1, i2, x1, x2

Summary == [kind |-> "ClusterSummary", name |-> "x"]
OneRequestor == {Summary}

Want(a, b) == [i \in {i1, i2} |-> IF i = i1 THEN a ELSE b]
SomeWants == {Want(x1, x1), Want(x2, Nil)}
OneWant == {[i \in {i1} |-> x1]}
TwoWants == {[i \in {i1} |-> x] : x \in {x1, x2}}

(* A free name is as good as any other: either all of them are tried and   *)
(* states that differ in the names alone are identified, or, for liveness, *)
(* where that is not sound, one is.                                        *)
AnyName(free) == free
OneName(free) == {CHOOSE n \in free : TRUE}
Renamed == Permutations(BundleNames) \cup Permutations(GroupNames)

(* These properties say nothing of a requestor that was misled, and what it *)
(* leaves behind would use up the names.  It is followed only as long as    *)
(* nothing has failed and the agent has not come, which is enough for it to *)
(* meet the duplicates; the proofs have no such bound.                      *)
Followed == misled # {} =>
              /\ failures = 0
              /\ \A n \in GroupNames : groups[n] # Nil => ~groups[n].finalizer

(* The cache lags in its bundles or in its groups, and in both at once only *)
(* while a call ends; the proofs do not have this bound either.             *)
OneLag == Unseen = {} \/ cached = groups \/ \A r \in Requestors : work[r].step = "sweep"

=============================================================================
