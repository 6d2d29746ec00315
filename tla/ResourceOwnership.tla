-------------------------- MODULE ResourceOwnership --------------------------
(***************************************************************************)
(* lib/deployer: who owns one resource of a managed cluster.  Profiles     *)
(* deploy it because of a ConfigMap or Secret they reference (a claim),    *)
(* and withdraw it when they do not reference it any more.  A profile      *)
(* first reads the resource (CanDeployResource, UndeployStaleResource) and *)
(* later writes it (UpdateResource, handleResourceDelete); in between      *)
(* others may have changed it, another run for the same profile included:  *)
(* the queue has two features of a profile, and at times the same key,     *)
(* handled in parallel.  The annotations name the owner.                   *)
(*                                                                         *)
(* A resourceVersion is abstracted to what the API server compares: rv is  *)
(* "none" (not set), "current", or "stale" if there was a change since.    *)
(***************************************************************************)
EXTENDS Naturals, FiniteSets

CONSTANTS Profiles,
          Runs,           \* [profile, n]: what may deploy or withdraw for a profile at one time
          Claims,         \* [profile, ref, tier, refTier]: lower tiers have priority
          InitialObjects, \* what may be there at first: Nil, or an object
          ForceRecreate,  \* whether a write the API server rejects recreates the resource
          MaxChanges,     \* bound on changes by users and other controllers
          Nil

MaxTier == 2147483647
DefaultRefTier == 100

Tiers == {c.tier : c \in Claims} \cup {0, Nil}
RefTiers == {c.refTier : c \in Claims} \cup {Nil}
Refs == {c.ref : c \in Claims} \cup {Nil}
Object == [owner : Profiles \cup {Nil}, tier : Tiers, ref : Refs, refTier : RefTiers,
           ownerRef : Profiles \cup {Nil}, deleting : BOOLEAN]

ASSUME ResourceOwnershipAssumption ==
  /\ \A r \in Runs : r.profile \in Profiles
  /\ \A c \in Claims : c.profile \in Profiles /\ {c.tier, c.refTier} \subseteq Nat \ {0}
  /\ InitialObjects \subseteq Object \cup {Nil}
  /\ ForceRecreate \in BOOLEAN /\ MaxChanges \in Nat

VARIABLES
  object,  \* the resource, or Nil
  crd,     \* whether it is a CustomResourceDefinition
  wanted,  \* claims whose profile references them now
  todo,    \* wanted claims whose profile has not deployed them yet
  work,    \* call of each run: [step, claim, saw, rv, told]
  changes  \* changes by users and other controllers so far

vars == <<object, crd, wanted, todo, work, changes>>

Idle == [step |-> "idle", claim |-> Nil, saw |-> FALSE, rv |-> "none", told |-> FALSE]

Init == /\ object \in InitialObjects
        /\ crd \in BOOLEAN
        /\ wanted \in SUBSET Claims
        /\ todo = wanted
        /\ work = [r \in Runs |-> Idle]
        /\ changes = 0

-----------------------------------------------------------------------------
(* The metadata of an object.  Objects of old releases have an owner        *)
(* reference and labels instead of annotations, and no tiers.               *)

OwnerOf(o) == IF o.owner # Nil THEN o.owner ELSE o.ownerRef
TierOf(o) == IF o.tier \in {Nil, 0} THEN MaxTier ELSE o.tier
RefTierOf(o) == IF o.refTier = Nil THEN DefaultRefTier ELSE o.refTier

SameTierTakesOver(c, o) == c.tier <= TierOf(o)
NeverTakesOver(c, o) == FALSE
HasHigherOwnershipPriority(c, o) == c.tier < TierOf(o)

(* ValidateObjectForUpdate                                                 *)
Conflict(c, o) == \/ c.refTier >= RefTierOf(o) /\ o.ref \notin {Nil, c.ref}
                  \/ OwnerOf(o) \notin {Nil, c.profile}

(* What GetResource sets on the resource before it is applied.              *)
Applied(c, o) ==
  [owner |-> c.profile, tier |-> c.tier, ref |-> c.ref, refTier |-> c.refTier,
   ownerRef |-> IF o = Nil \/ crd THEN Nil ELSE o.ownerRef,
   deleting |-> o # Nil /\ o.deleting]

(* What handleResourceDelete leaves behind with LeavePolicies.              *)
Left(o) == [o EXCEPT !.owner = Nil, !.tier = Nil, !.ref = Nil, !.refTier = Nil]

(* An object with finalizers is not gone at once.                          *)
AfterDelete(o) == {Nil, [o EXCEPT !.deleting = TRUE]}

-----------------------------------------------------------------------------
Outdated(w) == IF w.rv = "current" THEN [w EXCEPT !.rv = "stale"] ELSE w

(* r's call goes on with next and makes the object new.                    *)
Change(r, new, next) ==
  /\ object' = new
  /\ work' = [q \in Runs |-> IF q = r THEN next
                             ELSE IF new = object THEN work[q] ELSE Outdated(work[q])]

Goto(r, next) == work' = [work EXCEPT ![r] = next] /\ UNCHANGED object

(* GetResourceVersion, which AddMetadata sets on the resource.              *)
NoVersion(o) == "none"
AlwaysAVersion(o) == "current"
Version(o) == IF o = Nil THEN "none" ELSE "current"

(* CanDeployResource: a conflict is returned as an error, and changes       *)
(* nothing.                                                                 *)
CanDeployResource(r, c) ==
  /\ work[r].step = "idle" /\ c \in todo /\ c.profile = r.profile
  /\ object # Nil /\ Conflict(c, object) => HasHigherOwnershipPriority(c, object)
  /\ Goto(r, [step |-> "write", claim |-> c, saw |-> object # Nil, rv |-> Version(object),
              told |-> object # Nil /\ Conflict(c, object)])
  /\ UNCHANGED <<crd, wanted, todo, changes>>

Deployed(c) == /\ todo' = todo \ {c} \/ UNCHANGED todo
               /\ UNCHANGED <<crd, wanted, changes>>

(* A forced apply: with no version it overwrites what is there; with one    *)
(* the object must not have changed.  Whether a version is an error when    *)
(* there is no object is up to the API server.  The subresources are        *)
(* applied next: when that fails the call does, and is tried again.         *)
Apply(r) ==
  LET w == work[r] IN
  /\ w.rv = "stale" => object = Nil
  /\ Change(r, Applied(w.claim, object), Idle)
  /\ Deployed(w.claim)

UpdateResource(r) == ~crd /\ work[r].step \in {"write", "patch"} /\ Apply(r)

(* updateCRD reads the version again.                                      *)
UpdateCRD(r) ==
  LET w == work[r] IN
  /\ crd /\ w.step = "write"
  /\ object = Nil => w.rv = "none"
  /\ Change(r, Applied(w.claim, object), Idle)
  /\ Deployed(w.claim)

(* Any error ends the call: a version that is out of date, a write the API  *)
(* server rejects, a timeout.                                               *)
Fail(r) ==
  /\ work[r].step # "idle"
  /\ Goto(r, Idle)
  /\ UNCHANGED <<crd, wanted, todo, changes>>

(* recreateResource, after a rejection that only this can resolve: deletes  *)
(* by name, waits until nothing is there, and applies once more.            *)
RecreateResource(r) ==
  /\ ForceRecreate /\ ~crd
  /\ work[r].step = "write" /\ work[r].rv # "stale"
  /\ \/ object # Nil /\ \E new \in AfterDelete(object) :
                          Change(r, new, [Outdated(work[r]) EXCEPT !.step = "gone"])
     \/ object = Nil /\ Goto(r, [work[r] EXCEPT !.step = "gone"])
  /\ UNCHANGED <<crd, wanted, todo, changes>>

WaitUntilGone(r) ==
  /\ work[r].step = "gone" /\ object = Nil
  /\ Goto(r, [work[r] EXCEPT !.step = "patch"])
  /\ UNCHANGED <<crd, wanted, todo, changes>>

-----------------------------------------------------------------------------
(* UndeployStaleResource, with the object from an earlier list; then        *)
(* handleResourceDelete, by name, or an update of the listed version.       *)

UndeployStaleResource(r) ==
  /\ work[r].step = "idle"
  /\ object # Nil /\ object.ref # Nil
  /\ \A c \in wanted : c.profile # r.profile
  /\ OwnerOf(object) = r.profile
  /\ Goto(r, [Idle EXCEPT !.step = "withdraw", !.saw = TRUE, !.rv = "current"])
  /\ UNCHANGED <<crd, wanted, todo, changes>>

Unconditional(r) == TRUE
UpToDate(r) == work[r].rv = "current"
HandleResourceDelete(r) ==
  /\ work[r].step = "withdraw" /\ object # Nil
  /\ \/ \E new \in AfterDelete(object) : Change(r, new, Idle)
     \/ UpToDate(r) /\ Change(r, Left(object), Idle)
  /\ UNCHANGED <<crd, wanted, todo, changes>>

-----------------------------------------------------------------------------
(* Users change what the profiles reference; other controllers update the   *)
(* object and remove its finalizers.                                        *)

Reference(c) ==
  /\ changes < MaxChanges /\ changes' = changes + 1
  /\ \/ c \notin wanted /\ wanted' = wanted \cup {c} /\ todo' = todo \cup {c}
     \/ c \in wanted /\ wanted' = wanted \ {c} /\ todo' = todo \ {c}
  /\ UNCHANGED <<object, crd, work>>

Touch ==
  /\ changes < MaxChanges /\ changes' = changes + 1
  /\ object # Nil
  /\ work' = [r \in Runs |-> Outdated(work[r])]
  /\ UNCHANGED <<object, crd, wanted, todo>>

Finalize ==
  /\ object # Nil /\ object.deleting
  /\ object' = Nil
  /\ work' = [r \in Runs |-> Outdated(work[r])]
  /\ UNCHANGED <<crd, wanted, todo, changes>>

-----------------------------------------------------------------------------
Writes(r) == UpdateResource(r) \/ UpdateCRD(r)

Next == \/ \E r \in Runs : \/ \E c \in Claims : CanDeployResource(r, c)
                           \/ Writes(r)
                           \/ RecreateResource(r)
                           \/ WaitUntilGone(r)
                           \/ UndeployStaleResource(r)
                           \/ HandleResourceDelete(r)
                           \/ Fail(r)
        \/ \E c \in Claims : Reference(c)
        \/ Touch
        \/ Finalize

(* As long as a profile has something to deploy, some run tries again; a    *)
(* call returns; and a write that can succeed again and again does.         *)
Fairness == /\ \A p \in Profiles : SF_vars(\E r \in Runs, c \in Claims :
                                              r.profile = p /\ CanDeployResource(r, c))
            /\ \A r \in Runs : SF_vars(Writes(r)) /\ WF_vars(Fail(r))

Spec == Init /\ [][Next]_vars
FairSpec == Spec /\ Fairness

-----------------------------------------------------------------------------
TypeOK ==
  /\ object \in Object \cup {Nil}
  /\ wanted \subseteq Claims /\ todo \subseteq wanted
  /\ \A r \in Runs :
       LET w == work[r] IN
       /\ w.step \in {"idle", "write", "gone", "patch", "withdraw"}
       /\ w.claim \in Claims \cup {Nil} /\ w.saw \in BOOLEAN /\ w.rv \in {"none", "current", "stale"} /\ w.told \in BOOLEAN
       /\ w.rv = "current" => object # Nil
  /\ changes \in 0..MaxChanges

Beats(c, o) ==
  \/ c.tier < TierOf(o)
  \/ OwnerOf(o) \in {Nil, c.profile} /\ (o.ref \in {Nil, c.ref} \/ c.refTier < RefTierOf(o))

(* The optimistic lock AddMetadata describes: a claim that was judged on an *)
(* object overwrites one only if it also beats what is there now, and the   *)
(* owner that loses it is the one the caller is told to requeue.            *)
Holds(r) ==
  work[r].saw /\ object # Nil =>
    /\ Beats(work[r].claim, object)
    /\ OwnerOf(object) \notin {Nil, r.profile} => work[r].told
DecisionsHold == [][\A r \in Runs : UpdateResource(r) => Holds(r)]_vars

(* With LeavePolicies a profile takes its own marks off, never those of one *)
(* that has taken the object over since it was listed.                      *)
LeavesOnlyItsOwn ==
  [][\A r \in Runs :
       HandleResourceDelete(r) /\ object' # Nil /\ object'.deleting = object.deleting /\ object' # object
         => OwnerOf(object) = r.profile]_vars

(* While the object, no CRD, stays there, the claim that comes first, if it is       *)
(* wanted, ends up as its owner and keeps it, whoever else deploys it or    *)
(* withdraws it, and whatever conflicts its writes meet.                    *)
First(c) == \A d \in Claims \ {c} : c.tier < d.tier
Owns(p) == object # Nil /\ OwnerOf(object) = p
FirstOwns ==
  \A c \in Claims : First(c) =>
    (~crd /\ [](object # Nil) => <>[](c \in wanted => Owns(c.profile)))

(* "the decision made by canDeployResource remains valid during the policy  *)
(* update", and "setting the resource version will fail" otherwise: also    *)
(* for CRDs.                                                                *)
CRDDecisionsHold == [][\A r \in Runs : UpdateCRD(r) => Holds(r)]_vars
=============================================================================
