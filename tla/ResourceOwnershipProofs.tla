----------------------- MODULE ResourceOwnershipProofs -----------------------
(***************************************************************************)
(* Theorems about ResourceOwnership, for any profiles, runs, claims and    *)
(* objects and any number of changes by others.                            *)
(***************************************************************************)
EXTENDS ResourceOwnership, TLAPS

USE ResourceOwnershipAssumption

-----------------------------------------------------------------------------
Steps == {"idle", "write", "gone", "patch", "withdraw"}
Versions == {"none", "current", "stale"}
Works == [step : Steps, claim : Claims \cup {Nil}, saw : BOOLEAN, rv : Versions, told : BOOLEAN]

StateOK == /\ object \in Object \cup {Nil}
           /\ wanted \subseteq Claims /\ todo \subseteq wanted
           /\ work \in [Runs -> Works]
           /\ changes \in 0..MaxChanges

(* What a call of r may rely on: a version that is up to date is that of   *)
(* the object the claim was judged on, or that was found to be r's; and a  *)
(* call that saw an object has a version, so that its write is checked.    *)
Sound(r, w, o) ==
  /\ w.step \in {"write", "gone", "patch"} => w.claim \in Claims /\ w.claim.profile = r.profile
  /\ w.saw => w.rv # "none"
  /\ w.rv = "current" =>
       /\ o # Nil
       /\ w.step \in {"write", "gone", "patch"} =>
            Beats(w.claim, o) /\ (OwnerOf(o) \notin {Nil, r.profile} => w.told)
       /\ w.step = "withdraw" => OwnerOf(o) = r.profile

IInv == StateOK /\ \A r \in Runs : Sound(r, work[r], object)

-----------------------------------------------------------------------------
(* The resource version that a change leaves behind is not relied on. *)
LEMMA OutdatedSound ==
  ASSUME NEW q, NEW w \in Works, NEW o, NEW n, Sound(q, w, o)
  PROVE  /\ Outdated(w) \in Works
         /\ Outdated(w).rv # "current"
         /\ Sound(q, Outdated(w), n)
<1>1. CASE w.rv = "current"
  <2>1. /\ Outdated(w) \in Works /\ Outdated(w).rv = "stale"
        /\ Outdated(w).step = w.step /\ Outdated(w).claim = w.claim
        /\ Outdated(w).saw = w.saw /\ Outdated(w).told = w.told
    BY <1>1 DEF Outdated, Works, Versions
  <2> QED BY <2>1 DEF Sound
<1>2. CASE w.rv # "current"
  <2>1. Outdated(w) = w BY <1>2 DEF Outdated
  <2> QED BY <1>2, <2>1 DEF Sound
<1> QED BY <1>1, <1>2

(* A step of one call keeps the invariant of all calls if it keeps its own. *)
LEMMA ChangeSound ==
  ASSUME IInv, NEW r \in Runs, NEW new \in Object \cup {Nil}, NEW next \in Works,
         Sound(r, next, new), Change(r, new, next)
  PROVE  /\ object' \in Object \cup {Nil}
         /\ work' \in [Runs -> Works]
         /\ \A q \in Runs : Sound(q, work'[q], object')
<1>1. object' = new BY DEF Change
<1>2. ASSUME NEW q \in Runs
      PROVE  work'[q] \in Works /\ Sound(q, work'[q], new)
  <2>0. work[q] \in Works /\ Sound(q, work[q], object) BY DEF IInv, StateOK
  <2>1. CASE q = r BY <2>1 DEF Change
  <2>2. CASE q # r /\ new = object BY <2>0, <2>2 DEF Change
  <2>3. CASE q # r /\ new # object
    <3>1. work'[q] = Outdated(work[q]) BY <2>3 DEF Change
    <3> QED BY <2>0, <3>1, OutdatedSound
  <2> QED BY <2>1, <2>2, <2>3
<1>3. work' \in [Runs -> Works] BY <1>2 DEF Change
<1> QED BY <1>1, <1>2, <1>3

LEMMA GotoSound ==
  ASSUME IInv, NEW r \in Runs, NEW next \in Works, Sound(r, next, object), Goto(r, next)
  PROVE  /\ object' \in Object \cup {Nil}
         /\ work' \in [Runs -> Works]
         /\ \A q \in Runs : Sound(q, work'[q], object')
  BY DEF Goto, IInv, StateOK

LEMMA OthersChangeSound ==
  ASSUME IInv, object' \in Object \cup {Nil}, work' = [q \in Runs |-> Outdated(work[q])]
  PROVE  /\ work' \in [Runs -> Works]
         /\ \A q \in Runs : Sound(q, work'[q], object')
<1>1. ASSUME NEW q \in Runs
      PROVE  Outdated(work[q]) \in Works /\ Sound(q, Outdated(work[q]), object')
  BY OutdatedSound DEF IInv, StateOK
<1> QED BY <1>1

LEMMA IdleSound ==
  ASSUME NEW r, NEW o
  PROVE  Idle \in Works /\ Sound(r, Idle, o)
  BY DEF Idle, Works, Steps, Versions, Sound

LEMMA AppliedIsObject ==
  ASSUME NEW c \in Claims, NEW o \in Object \cup {Nil}
  PROVE  Applied(c, o) \in Object
  BY DEF Applied, Object, Tiers, RefTiers, Refs

LEMMA DeletedIsObject ==
  ASSUME NEW o \in Object, NEW n \in AfterDelete(o)
  PROVE  n \in Object \cup {Nil}
  BY DEF AfterDelete, Object

LEMMA LeftIsObject ==
  ASSUME NEW o \in Object
  PROVE  Left(o) \in Object
  BY DEF Left, Object, Tiers, RefTiers, Refs

(* CanDeployResource lets a claim through only if it beats the object it   *)
(* has read, and tells the caller of the owner that loses it.              *)
LEMMA Judged ==
  ASSUME NEW c \in Claims, NEW o \in Object,
         Conflict(c, o) => HasHigherOwnershipPriority(c, o)
  PROVE  /\ Beats(c, o)
         /\ OwnerOf(o) \notin {Nil, c.profile} => Conflict(c, o)
<1>1. c.refTier \in Nat /\ RefTierOf(o) \in Nat
  <2>1. o.refTier \in RefTiers BY DEF Object
  <2> QED BY <2>1 DEF RefTierOf, DefaultRefTier, RefTiers
<1>2. ~(c.refTier >= RefTierOf(o)) => c.refTier < RefTierOf(o)
  BY <1>1
<1>3. CASE Conflict(c, o)
  BY <1>3 DEF HasHigherOwnershipPriority, Beats
<1>4. CASE ~Conflict(c, o)
  BY <1>2, <1>4 DEF Conflict, Beats
<1> QED BY <1>3, <1>4

-----------------------------------------------------------------------------
LEMMA InitInv == Init => IInv
<1> SUFFICES ASSUME Init PROVE IInv
  OBVIOUS
<1>1. \A r \in Runs : Idle \in Works /\ Sound(r, Idle, object)
  BY IdleSound
<1> QED BY <1>1 DEF Init, IInv, StateOK

(* The part of the state that only users change. *)
Rest == <<crd, wanted, todo, changes>>

LEMMA StepInv == IInv /\ [Next]_vars => IInv'
<1> SUFFICES ASSUME IInv, [Next]_vars PROVE IInv'
  OBVIOUS
<1> USE DEF IInv
<1>0. ASSUME NEW r \in Runs
      PROVE  work[r] \in Works /\ Sound(r, work[r], object) /\ Idle \in Works
             /\ \A o : Sound(r, Idle, o)
  BY IdleSound DEF StateOK
<1>1. ASSUME NEW r \in Runs, NEW c \in Claims, CanDeployResource(r, c) PROVE IInv'
  <2> DEFINE next == [step |-> "write", claim |-> c, saw |-> object # Nil, rv |-> Version(object),
                      told |-> object # Nil /\ Conflict(c, object)]
  <2>1. Goto(r, next) /\ c.profile = r.profile /\ UNCHANGED Rest
        /\ (object # Nil /\ Conflict(c, object) => HasHigherOwnershipPriority(c, object))
    BY <1>1 DEF CanDeployResource, Rest
  <2>2. next \in Works
    BY DEF Works, Steps, Versions, Version
  <2>3. Sound(r, next, object)
    <3>1. CASE object = Nil BY <2>1, <3>1 DEF Sound, Version
    <3>2. CASE object # Nil
      <4>1. object \in Object BY <3>2 DEF StateOK
      <4>2. /\ Beats(c, object)
            /\ OwnerOf(object) \notin {Nil, r.profile} => Conflict(c, object)
        BY <2>1, <3>2, <4>1, Judged
      <4> QED BY <2>1, <3>2, <4>2 DEF Sound, Version
    <3> QED BY <3>1, <3>2
  <2> HIDE DEF next
  <2> QED BY <2>1, <2>2, <2>3, GotoSound DEF StateOK, Rest
<1>2. ASSUME NEW r \in Runs, Writes(r) PROVE IInv'
  <2>1. work[r].claim \in Claims
    BY <1>0, <1>2 DEF Writes, UpdateResource, UpdateCRD, Sound
  <2>2. Change(r, Applied(work[r].claim, object), Idle) /\ Deployed(work[r].claim)
    BY <1>2 DEF Writes, UpdateResource, UpdateCRD, Apply
  <2>3. Applied(work[r].claim, object) \in Object
    BY <2>1, AppliedIsObject DEF StateOK
  <2> QED BY <1>0, <2>2, <2>3, ChangeSound DEF StateOK, Deployed
<1>3. ASSUME NEW r \in Runs, Fail(r) PROVE IInv'
  BY <1>0, <1>3, GotoSound DEF Fail, StateOK
<1>4. ASSUME NEW r \in Runs, RecreateResource(r) PROVE IInv'
  <2> DEFINE w == Outdated(work[r])
             next == [w EXCEPT !.step = "gone"]
  <2>0. work[r].step = "write" /\ UNCHANGED Rest
    BY <1>4 DEF RecreateResource, Rest
  <2>1. w \in Works /\ w.rv # "current" /\ \A o : Sound(r, w, o)
    BY <1>0, OutdatedSound
  <2>2. w.step = "write"
    BY <1>0, <2>0 DEF Outdated, Works
  <2>3. next \in Works /\ \A o : Sound(r, next, o)
    <3> HIDE DEF w
    <3> QED BY <2>1, <2>2 DEF Works, Steps, Sound
  <2>4. CASE object # Nil /\ \E new \in AfterDelete(object) : Change(r, new, next)
    <3>1. PICK new \in AfterDelete(object) : Change(r, new, next)
      BY <2>4
    <3>2. new \in Object \cup {Nil}
      BY <2>4, DeletedIsObject DEF StateOK
    <3> HIDE DEF next
    <3> QED BY <2>0, <2>3, <3>1, <3>2, ChangeSound DEF StateOK, Rest
  <2>5. CASE object = Nil /\ Goto(r, [work[r] EXCEPT !.step = "gone"])
    <3>1. [work[r] EXCEPT !.step = "gone"] \in Works
          /\ Sound(r, [work[r] EXCEPT !.step = "gone"], object)
      BY <1>0, <2>0, <2>5 DEF Works, Steps, Sound
    <3> QED BY <2>0, <2>5, <3>1, GotoSound DEF StateOK, Rest
  <2> QED BY <1>4, <2>4, <2>5 DEF RecreateResource
<1>5. ASSUME NEW r \in Runs, WaitUntilGone(r) PROVE IInv'
  <2> DEFINE next == [work[r] EXCEPT !.step = "patch"]
  <2>1. next \in Works /\ Sound(r, next, object)
    BY <1>0, <1>5 DEF WaitUntilGone, Works, Steps, Sound
  <2>2. Goto(r, next) /\ UNCHANGED Rest
    BY <1>5 DEF WaitUntilGone, Rest
  <2> HIDE DEF next
  <2> QED BY <2>1, <2>2, GotoSound DEF StateOK, Rest
<1>6. ASSUME NEW r \in Runs, UndeployStaleResource(r) PROVE IInv'
  <2> DEFINE next == [Idle EXCEPT !.step = "withdraw", !.saw = TRUE, !.rv = "current"]
  <2>1. next \in Works /\ Sound(r, next, object)
    BY <1>6 DEF UndeployStaleResource, Idle, Works, Steps, Versions, Sound
  <2>2. Goto(r, next) /\ UNCHANGED Rest
    BY <1>6 DEF UndeployStaleResource, Rest
  <2> HIDE DEF next
  <2> QED BY <2>1, <2>2, GotoSound DEF StateOK, Rest
<1>7. ASSUME NEW r \in Runs, HandleResourceDelete(r) PROVE IInv'
  <2>1. object \in Object /\ UNCHANGED Rest
    BY <1>7 DEF HandleResourceDelete, StateOK, Rest
  <2>2. PICK new \in Object \cup {Nil} : Change(r, new, Idle)
    BY <1>7, <2>1, DeletedIsObject, LeftIsObject DEF HandleResourceDelete
  <2> QED BY <1>0, <2>1, <2>2, ChangeSound DEF StateOK, Rest
<1>8. ASSUME NEW c \in Claims, Reference(c) PROVE IInv'
  BY <1>8 DEF Reference, StateOK
<1>9. CASE Touch
  BY <1>9, OthersChangeSound DEF Touch, StateOK
<1>10. CASE Finalize
  BY <1>10, OthersChangeSound DEF Finalize, StateOK
<1>11. CASE UNCHANGED vars
  BY <1>11 DEF vars, StateOK
<1> QED
  BY <1>1, <1>2, <1>3, <1>4, <1>5, <1>6, <1>7, <1>8, <1>9, <1>10, <1>11 DEF Next

LEMMA Invariance == Spec => []IInv
  BY InitInv, StepInv, PTL DEF Spec

-----------------------------------------------------------------------------
(* Every variable keeps its type, and no version counts as up to date when *)
(* there is no object.                                                     *)
THEOREM TypeCorrect == Spec => []TypeOK
<1>1. IInv => TypeOK
  <2> SUFFICES ASSUME IInv PROVE TypeOK
    OBVIOUS
  <2>1. ASSUME NEW r \in Runs
        PROVE  work[r] \in Works /\ (work[r].rv = "current" => object # Nil)
    BY DEF IInv, StateOK, Sound
  <2> QED BY <2>1 DEF IInv, StateOK, TypeOK, Works, Steps, Versions
<1> QED BY <1>1, Invariance, PTL

(* UpdateResource: what CanDeployResource decided about an object still    *)
(* holds of the object that is overwritten.                                *)
THEOREM OptimisticLock == Spec => DecisionsHold
<1>1. ASSUME IInv, NEW r \in Runs, UpdateResource(r) PROVE Holds(r)
  <2>1. /\ work[r] \in Works /\ Sound(r, work[r], object)
        /\ work[r].step \in {"write", "patch"}
        /\ work[r].rv = "stale" => object = Nil
    BY <1>1 DEF IInv, StateOK, UpdateResource, Apply
  <2>2. work[r].saw /\ object # Nil => work[r].rv = "current"
    BY <2>1 DEF Works, Versions, Sound
  <2> QED BY <2>1, <2>2 DEF Sound, Holds
<1>2. IInv /\ [Next]_vars => [\A r \in Runs : UpdateResource(r) => Holds(r)]_vars
  BY <1>1
<1> QED BY <1>2, Invariance, PTL DEF Spec, DecisionsHold

(* handleResourceDelete with LeavePolicies strips the marks of an object   *)
(* only while they are those of the profile that withdraws it.             *)
THEOREM MarksOfOthersStay == Spec => LeavesOnlyItsOwn
<1> DEFINE Own == \A r \in Runs :
       HandleResourceDelete(r) /\ object' # Nil /\ object'.deleting = object.deleting /\ object' # object
         => OwnerOf(object) = r.profile
<1>1. ASSUME IInv, NEW r \in Runs, HandleResourceDelete(r), object' # Nil,
             object'.deleting = object.deleting, object' # object
      PROVE  OwnerOf(object) = r.profile
  <2>1. object \in Object /\ Sound(r, work[r], object) /\ work[r].step = "withdraw"
    BY <1>1 DEF IInv, StateOK, HandleResourceDelete
  <2>2. object' # [object EXCEPT !.deleting = TRUE]
    BY <1>1, <2>1 DEF Object
  <2>3. UpToDate(r)
    BY <1>1, <2>2 DEF HandleResourceDelete, AfterDelete, Change
  <2> QED BY <2>1, <2>3 DEF UpToDate, Sound
<1>2. IInv /\ [Next]_vars => [Own]_vars
  BY <1>1
<1> QED BY <1>2, Invariance, PTL DEF Spec, LeavesOnlyItsOwn
=============================================================================
