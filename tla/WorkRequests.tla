---------------------------- MODULE WorkRequests ----------------------------
(***************************************************************************)
(* What lib/deployer promises its callers, without queues or workers: a    *)
(* request that was accepted stays pending until a run of it begins or the *)
(* caller withdraws it, and a run ends either in an outcome the caller can *)
(* collect or, because the key was requested again meanwhile, in nothing.  *)
(***************************************************************************)
EXTENDS Naturals

CONSTANTS Key,        \* what can be requested
          Outcomes,   \* how a run can end
          Absent      \* no outcome is held

VARIABLES pending,    \* keys whose latest request no run has taken up
          running,    \* number of runs of each key now under way
          outcome     \* outcome held for each key

vars == <<pending, running, outcome>>

Init == /\ pending = {}
        /\ running = [k \in Key |-> 0]
        /\ outcome = [k \in Key |-> Absent]

(* A request is accepted: whatever was known of the key is out of date. *)
Submit(k) == /\ pending' = pending \cup {k}
             /\ outcome' = [outcome EXCEPT ![k] = Absent]
             /\ UNCHANGED running

(* A run begins; only a pending key is ever run. *)
Begin(k) == /\ k \in pending
            /\ pending' \in {pending, pending \ {k}}
            /\ running' = [running EXCEPT ![k] = @ + 1]
            /\ UNCHANGED outcome

(* A run ends.  Its outcome may be dropped only in favour of a run to come. *)
Finish(k) == /\ running[k] > 0
             /\ running' = [running EXCEPT ![k] = @ - 1]
             /\ \/ \E o \in Outcomes : outcome' = [outcome EXCEPT ![k] = o]
                \/ k \in pending /\ outcome' = [outcome EXCEPT ![k] = Absent]
             /\ UNCHANGED pending

Collect(k) == /\ outcome[k] # Absent
              /\ outcome' = [outcome EXCEPT ![k] = Absent]
              /\ UNCHANGED <<pending, running>>

(* The caller wants no run and no outcome any more: nothing is kept.        *)
Withdraw(k) == /\ pending' = pending \ {k}
               /\ outcome' = [outcome EXCEPT ![k] = Absent]
               /\ UNCHANGED running

Next == \E k \in Key : Submit(k) \/ Begin(k) \/ Finish(k) \/ Collect(k) \/ Withdraw(k)

Spec == Init /\ [][Next]_vars
=============================================================================
