--------------------------- MODULE DeployerProofs ---------------------------
(***************************************************************************)
(* Theorems about Deployer, for any targets, features, parameters and any  *)
(* finite pool of workers.                                                 *)
(***************************************************************************)
EXTENDS Deployer, FiniteSetTheorems, SequenceTheorems, WellFoundedInduction, TLAPS

USE DeployerAssumption

-----------------------------------------------------------------------------
(* A non-empty set of naturals has a least element, which is its Min. *)
LEMMA MinIsMember ==
  ASSUME NEW S, S \subseteq Nat, S # {}
  PROVE  Min(S) \in S /\ \A x \in S : Min(S) <= x
<1>1. PICK m \in S : \A x \in S : ~ (<<x, m>> \in OpToRel(<, Nat))
  BY NatLessThanWellFounded, WFMin
<1>2. \A x \in S : x \in Nat /\ m \in Nat /\ ~(x < m)
  BY <1>1 DEF OpToRel
<1>3. \A x \in S : m <= x
  BY <1>2
<1> QED
  BY <1>3 DEF Min

(* Removing the first queued request of a key (CleanupEntries) leaves a    *)
(* queue of requests that were queued, with those of other keys.           *)
LEMMA CleanedQueue ==
  ASSUME NEW q \in Seq(RequestParams), NEW k
  PROVE  LET r == WithoutFirst(q, k) IN
         /\ r \in Seq(RequestParams)
         /\ \A i \in DOMAIN r : \E j \in DOMAIN q : r[i] = q[j]
         /\ \A j \in DOMAIN q : q[j].key # k => \E i \in DOMAIN r : r[i] = q[j]
<1> DEFINE I == {i \in 1..Len(q) : q[i].key = k}
           n == Min(I)
           before == SubSeq(q, 1, n - 1)
           after == SubSeq(q, n + 1, Len(q))
<1>1. CASE I = {}
  <2>1. WithoutFirst(q, k) = q
    BY <1>1 DEF WithoutFirst, RemoveFirstMatch
  <2> QED BY <2>1
<1>2. CASE I # {}
  <2>1. n \in 1..Len(q) /\ q[n].key = k
    <3>1. I \subseteq Nat BY Z3
    <3> HIDE DEF I
    <3>2. Min(I) \in I BY <1>2, <3>1, MinIsMember
    <3> QED BY <3>2 DEF I
  <2>2. WithoutFirst(q, k) = before \o after
    BY <1>2 DEF WithoutFirst, RemoveFirstMatch, RemoveAt, SelectInSeq
  <2> HIDE DEF n
  <2>3. /\ before \in Seq(RequestParams) /\ Len(before) = n - 1
        /\ \A i \in 1..(n - 1) : before[i] = q[i]
    BY <2>1
  <2>4. /\ after \in Seq(RequestParams) /\ Len(after) = Len(q) - n
        /\ \A i \in 1..(Len(q) - n) : after[i] = q[n + i]
    BY <2>1
  <2> HIDE DEF before, after
  <2> DEFINE r == before \o after
  <2>5. /\ r \in Seq(RequestParams) /\ Len(r) = Len(q) - 1
        /\ \A i \in 1..(Len(q) - 1) : r[i] = IF i < n THEN q[i] ELSE q[i + 1]
    <3>1. r \in Seq(RequestParams) /\ Len(r) = Len(before) + Len(after)
      BY <2>3, <2>4
    <3>2. \A i \in 1..Len(before) + Len(after) :
             r[i] = IF i <= Len(before) THEN before[i] ELSE after[i - Len(before)]
      BY <2>3, <2>4, ConcatProperties
    <3>3. ASSUME NEW i \in 1..(Len(q) - 1)
          PROVE  r[i] = IF i < n THEN q[i] ELSE q[i + 1]
      <4> HIDE DEF r
      <4>0. i \in 1..Len(before) + Len(after) BY <2>1, <2>3, <2>4
      <4>1. CASE i < n
        <5>1. r[i] = before[i] BY <4>0, <4>1, <3>2, <2>1, <2>3
        <5> QED BY <5>1, <4>1, <2>1, <2>3
      <4>2. CASE i >= n
        <5>1. r[i] = after[i - n + 1] BY <4>0, <4>2, <3>2, <2>1, <2>3
        <5>2. i - n + 1 \in 1..(Len(q) - n) BY <4>2, <2>1
        <5>3. after[i - n + 1] = q[n + (i - n + 1)] BY <5>2, <2>4
        <5>4. n + (i - n + 1) = i + 1 BY <2>1
        <5> QED BY <5>1, <5>3, <5>4, <4>2, <2>1
      <4> QED BY <4>1, <4>2, <2>1
    <3> QED BY <3>1, <3>3, <2>1, <2>3, <2>4
  <2> HIDE DEF r
  <2>6. \A i \in DOMAIN r : \E j \in DOMAIN q : r[i] = q[j]
    BY <2>1, <2>5
  <2>7. ASSUME NEW j \in DOMAIN q, q[j].key # k
        PROVE  \E i \in DOMAIN r : r[i] = q[j]
    <3>1. CASE j < n BY <3>1, <2>1, <2>5
    <3>2. CASE j > n
      <4>1. j - 1 \in DOMAIN r /\ r[j - 1] = q[j]
        BY <3>2, <2>1, <2>5
      <4> QED BY <4>1
    <3> QED BY <3>1, <3>2, <2>1, <2>7
  <2> QED BY <2>2, <2>5, <2>6, <2>7 DEF r
<1> QED BY <1>1, <1>2

-----------------------------------------------------------------------------
(* What Deploy and storeResult make of the queue. *)
LEMMA PushedQueue ==
  ASSUME jobQueue \in Seq(RequestParams), NEW req \in RequestParams
  PROVE  LET r == PushBack(req) IN
         /\ r \in Seq(RequestParams)
         /\ \A i \in DOMAIN r : r[i] = req \/ \E j \in DOMAIN jobQueue : r[i] = jobQueue[j]
         /\ \A j \in DOMAIN jobQueue : \E i \in DOMAIN r : r[i] = jobQueue[j]
         /\ \E i \in DOMAIN r : r[i] = req
<1> DEFINE q == jobQueue
           r == PushBack(req)
<1>1. /\ r \in Seq(RequestParams) /\ Len(r) = Len(q) + 1
      /\ \A i \in 1..Len(q) : r[i] = q[i]
      /\ r[Len(q) + 1] = req
  BY AppendProperties DEF PushBack
<1> HIDE DEF r
<1>2. DOMAIN q = 1..Len(q) /\ DOMAIN r = 1..(Len(q) + 1) /\ Len(q) \in Nat
  BY <1>1
<1>3. \A i \in DOMAIN r : i = Len(q) + 1 \/ i \in 1..Len(q)
  BY <1>2
<1>4. Len(q) + 1 \in DOMAIN r /\ \A i \in DOMAIN q : i \in DOMAIN r
  BY <1>2
<1> QED BY <1>1, <1>2, <1>3, <1>4 DEF r

(* What taking a request makes of the queue. *)
LEMMA TakenQueue ==
  ASSUME NEW q \in Seq(RequestParams), q # <<>>
  PROVE  /\ Head(q) \in RequestParams
         /\ Tail(q) \in Seq(RequestParams)
         /\ \A i \in DOMAIN Tail(q) : \E j \in DOMAIN q : Tail(q)[i] = q[j]
         /\ \A j \in DOMAIN q : q[j] = Head(q) \/ \E i \in DOMAIN Tail(q) : Tail(q)[i] = q[j]
         /\ \E j \in DOMAIN q : q[j] = Head(q)
<1> DEFINE r == Tail(q)
<1>1. /\ Head(q) \in RequestParams /\ r \in Seq(RequestParams) /\ Len(r) = Len(q) - 1
      /\ \A i \in 1..Len(r) : r[i] = q[i + 1]
  BY HeadTailProperties
<1>2. Head(q) = q[1] OBVIOUS
<1> HIDE DEF r
<1>3. DOMAIN q = 1..Len(q) /\ DOMAIN r = 1..(Len(q) - 1) /\ Len(q) \in Nat /\ Len(q) > 0
  BY <1>1
<1>4. \A i \in DOMAIN r : i + 1 \in DOMAIN q /\ r[i] = q[i + 1]
  BY <1>1, <1>3
<1>5. ASSUME NEW j \in DOMAIN q, j # 1
      PROVE  \E i \in DOMAIN r : r[i] = q[j]
  <2>1. j - 1 \in DOMAIN r /\ r[j - 1] = q[j]
    BY <1>5, <1>1, <1>3
  <2> QED BY <2>1
<1> QED BY <1>1, <1>2, <1>3, <1>4, <1>5 DEF r

(* What replacing the queued requests of a key makes of the queue. *)
LEMMA UpdatedQueue ==
  ASSUME jobQueue \in Seq(RequestParams), NEW req \in RequestParams
  PROVE  LET r == UpdateJobQueue(req) IN
         /\ r \in Seq(RequestParams)
         /\ DOMAIN r = DOMAIN jobQueue
         /\ \A i \in DOMAIN r : r[i] = IF jobQueue[i].key = req.key THEN req ELSE jobQueue[i]
         /\ \A i \in DOMAIN r : r[i].key = jobQueue[i].key
<1>1. \A i \in 1..Len(jobQueue) : jobQueue[i] \in RequestParams
  OBVIOUS
<1> QED BY <1>1 DEF UpdateJobQueue

-----------------------------------------------------------------------------
(* A worker that runs a key is one of its runners, so the key is in progress. *)
LEMMA RunningIsInProgress ==
  ASSUME TypeOK, InProgressIsRunners, NEW w \in Workers, Running(w)
  PROVE  params[w] \in RequestParams /\ params[w].key \in Key /\ inProgress[params[w].key] > 0
<1> DEFINE k == params[w].key
<1>1. params[w] \in RequestParams /\ k \in Key
  BY DEF TypeOK, Running, RequestParams
<1>2. w \in RunnersOf(k) /\ RunnersOf(k) \subseteq Workers
  BY DEF RunnersOf
<1>3. IsFiniteSet(RunnersOf(k)) /\ Cardinality(RunnersOf(k)) \in Nat
      /\ Cardinality(RunnersOf(k)) # 0
  BY <1>2, FS_Subset, FS_CardinalityType, FS_EmptySet
<1> QED BY <1>1, <1>3 DEF InProgressIsRunners

(* Nothing but the two worker actions changes params or inProgress. *)
LEMMA RunnersStep ==
  ASSUME TypeOK, InProgressIsRunners, [Next]_vars
  PROVE  InProgressIsRunners'
<1> SUFFICES ASSUME NEW k \in Key
             PROVE  inProgress'[k] = Cardinality(RunnersOf(k)')
  BY DEF InProgressIsRunners
<1>0. /\ IsFiniteSet(RunnersOf(k)) /\ Cardinality(RunnersOf(k)) \in Nat
      /\ inProgress[k] = Cardinality(RunnersOf(k))
  <2>1. RunnersOf(k) \subseteq Workers BY DEF RunnersOf
  <2> QED BY <2>1, FS_Subset, FS_CardinalityType DEF InProgressIsRunners
<1>1. ASSUME UNCHANGED <<params, inProgress>>
      PROVE  inProgress'[k] = Cardinality(RunnersOf(k)')
  <2>1. RunnersOf(k)' = RunnersOf(k)
    BY <1>1 DEF RunnersOf, Running
  <2> QED BY <2>1, <1>1, <1>0
<1>2. ASSUME NEW w \in Workers, TakeRequest(w)
      PROVE  inProgress'[k] = Cardinality(RunnersOf(k)')
  <2> DEFINE req == Head(jobQueue)
  <2>1. req \in RequestParams /\ req.key \in Key /\ req # Nil
    BY <1>2, TakenQueue DEF TakeRequest, TypeOK, RequestParams
  <2>2. params' = [params EXCEPT ![w] = req] /\ ~Running(w)
    BY <1>2 DEF TakeRequest
  <2>3. RunnersOf(k)' = IF k = req.key THEN RunnersOf(k) \cup {w} ELSE RunnersOf(k)
    BY <2>1, <2>2 DEF RunnersOf, Running, TypeOK
  <2>4. w \notin RunnersOf(k)
    BY <2>2 DEF RunnersOf
  <2>5. inProgress'[k] = IF k = req.key THEN inProgress[k] + 1 ELSE inProgress[k]
    BY <1>2, <2>1 DEF TakeRequest, AddToInProgress, TypeOK
  <2>6. Cardinality(RunnersOf(k) \cup {w}) = Cardinality(RunnersOf(k)) + 1
    BY <2>4, <1>0, FS_AddElement
  <2> QED BY <2>3, <2>5, <2>6, <1>0
<1>3. ASSUME NEW w \in Workers, StoreResult(w)
      PROVE  inProgress'[k] = Cardinality(RunnersOf(k)')
  <2>1. params' = [params EXCEPT ![w] = Nil] /\ Running(w)
    BY <1>3 DEF StoreResult
  <2>2. RunnersOf(k)' = IF k = params[w].key THEN RunnersOf(k) \ {w} ELSE RunnersOf(k)
    BY <2>1 DEF RunnersOf, Running, TypeOK
  <2>3. k = params[w].key => w \in RunnersOf(k)
    BY <2>1 DEF RunnersOf
  <2>4. inProgress'[k] = IF k = params[w].key THEN inProgress[k] - 1 ELSE inProgress[k]
    BY <1>3 DEF StoreResult, RemoveFromInProgress, TypeOK
  <2>5. w \in RunnersOf(k) => Cardinality(RunnersOf(k) \ {w}) = Cardinality(RunnersOf(k)) - 1
    BY <1>0, FS_RemoveElement
  <2> QED BY <2>2, <2>3, <2>4, <2>5, <1>0
<1>4. (Next /\ ~ \E w \in Workers : TakeRequest(w) \/ StoreResult(w))
      => UNCHANGED <<params, inProgress>>
  BY DEF Next, Controller, Worker, RegisterFeatureID, Deploy, GetResult, CleanupEntries,
         Stop, Cancel, queueVars, workerVars
<1> QED BY <1>1, <1>2, <1>3, <1>4 DEF vars, queueVars, workerVars

LEMMA TypeStep ==
  ASSUME TypeOK, InProgressIsRunners, [Next]_vars
  PROVE  TypeOK'
<1> USE DEF TypeOK
<1>1. ASSUME NEW f \in Features, RegisterFeatureID(f) PROVE TypeOK'
  BY <1>1 DEF RegisterFeatureID, queueVars, workerVars, historyVars
<1>2. ASSUME NEW k \in Key, NEW p \in Params, Deploy(k, p) PROVE TypeOK'
  <2> DEFINE req == [key |-> k, params |-> p]
  <2>1. req \in RequestParams BY DEF RequestParams
  <2>2. PushBack(req) \in Seq(RequestParams) BY <2>1, PushedQueue
  <2>3. UpdateJobQueue(req) \in Seq(RequestParams) BY <2>1, UpdatedQueue
  <2>4. DeleteResult(k) \in [Key -> Outcomes \cup {Absent}] BY DEF DeleteResult
  <2>5. jobQueue' \in Seq(RequestParams) BY <1>2, <2>2, <2>3 DEF Deploy
  <2>6. results' \in [Key -> Outcomes \cup {Absent}] BY <1>2, <2>4 DEF Deploy
  <2>7. dirty' \subseteq Key BY <1>2 DEF Deploy
  <2>8. overtaken' \subseteq Workers BY <1>2 DEF Deploy, RunnersOf
  <2>9. asked' \in [Key -> Params \cup {Nil}] /\ outdated' \subseteq Key BY <1>2 DEF Deploy
  <2>10. parallel' \subseteq Key BY <1>2 DEF Deploy
  <2> QED BY <1>2, <2>5, <2>6, <2>7, <2>8, <2>9, <2>10 DEF Deploy, workerVars
<1>3. ASSUME NEW k \in Key, GetResult(k) PROVE TypeOK'
  BY <1>3 DEF GetResult, DeleteResult, workerVars
<1>4. ASSUME NEW k \in Key, CleanupEntries(k) PROVE TypeOK'
  <2>1. jobQueue' \in Seq(RequestParams) BY <1>4, CleanedQueue DEF CleanupEntries
  <2> QED BY <1>4, <2>1 DEF CleanupEntries, DeleteResult, RemoveFromDirty, workerVars
<1>5. ASSUME NEW w \in Workers, TakeRequest(w) PROVE TypeOK'
  <2>1. Head(jobQueue) \in RequestParams /\ Tail(jobQueue) \in Seq(RequestParams)
    BY <1>5, TakenQueue DEF TakeRequest
  <2>2. Head(jobQueue).key \in Key BY <2>1 DEF RequestParams
  <2> QED BY <1>5, <2>1, <2>2 DEF TakeRequest, AddToInProgress, RemoveFromDirty
<1>6. ASSUME NEW w \in Workers, StoreResult(w) PROVE TypeOK'
  <2> DEFINE k == params[w].key
  <2>1. params[w] \in RequestParams /\ k \in Key /\ inProgress[k] > 0
    BY <1>6, RunningIsInProgress DEF StoreResult
  <2>2. inProgress' \in [Key -> Nat]
    BY <1>6, <2>1 DEF StoreResult, RemoveFromInProgress
  <2>3. jobQueue' \in Seq(RequestParams)
    BY <1>6, <2>1, PushedQueue DEF StoreResult, Requeue
  <2>4. results' \in [Key -> Outcomes \cup {Absent}]
    BY <1>6, <2>1 DEF StoreResult, DeleteResult, HandlerOutcomes, Outcomes
  <2>5. outdated' \subseteq Key BY <1>6, <2>1 DEF StoreResult
  <2> QED BY <1>6, <2>2, <2>3, <2>4, <2>5 DEF StoreResult, RemoveFromDirty
<1>7. ASSUME NEW w \in Workers, Stop(w) PROVE TypeOK'
  BY <1>7 DEF Stop, queueVars, historyVars
<1>8. CASE Cancel
  BY <1>8 DEF Cancel, queueVars, historyVars
<1>9. CASE UNCHANGED vars
  BY <1>9 DEF vars, queueVars, workerVars, historyVars
<1> QED
  BY <1>1, <1>2, <1>3, <1>4, <1>5, <1>6, <1>7, <1>8, <1>9 DEF Next, Controller, Worker

(* A dirty key has no result. *)
NoResultIfDirty == \A k \in dirty : results[k] = Absent

(* The inductive invariant. *)
IInv == TypeOK /\ InProgressIsRunners /\ DirtyIdleIsQueuedAsAsked /\ NoResultIfDirty

LEMMA NoResultStep ==
  ASSUME IInv, [Next]_vars
  PROVE  NoResultIfDirty'
<1> USE DEF IInv, TypeOK, NoResultIfDirty
<1>1. ASSUME NEW k \in Key, NEW p \in Params, Deploy(k, p) PROVE NoResultIfDirty'
  BY <1>1 DEF Deploy, DeleteResult
<1>2. ASSUME NEW k \in Key, GetResult(k) PROVE NoResultIfDirty'
  BY <1>2 DEF GetResult, DeleteResult
<1>3. ASSUME NEW k \in Key, CleanupEntries(k) PROVE NoResultIfDirty'
  BY <1>3 DEF CleanupEntries, DeleteResult, RemoveFromDirty
<1>4. ASSUME NEW w \in Workers, TakeRequest(w) PROVE NoResultIfDirty'
  BY <1>4 DEF TakeRequest, RemoveFromDirty
<1>5. ASSUME NEW w \in Workers, StoreResult(w) PROVE NoResultIfDirty'
  BY <1>5 DEF StoreResult, RemoveFromDirty, DeleteResult, RequestedAgain
<1>6. CASE UNCHANGED queueVars
  BY <1>6 DEF queueVars
<1> QED
  BY <1>1, <1>2, <1>3, <1>4, <1>5, <1>6
  DEF Next, Controller, Worker, RegisterFeatureID, Stop, Cancel, vars

(* A key that no worker runs after a step and that is dirty after it: the   *)
(* step left its queued request alone, replaced it, or appended it.         *)
LEMMA DirtyStep ==
  ASSUME IInv, [Next]_vars
  PROVE  DirtyIdleIsQueuedAsAsked'
<1> USE DEF IInv, TypeOK
<1> SUFFICES ASSUME NEW d \in dirty', ~(inProgress'[d] > 0)
             PROVE  \E i \in DOMAIN jobQueue' : jobQueue'[i] = [key |-> d, params |-> asked'[d]]
  BY DEF DirtyIdleIsQueuedAsAsked, InProgress
<1> DEFINE Goal == \E i \in DOMAIN jobQueue' : jobQueue'[i] = [key |-> d, params |-> asked'[d]]
<1>0. (d \in dirty /\ ~(inProgress[d] > 0)) =>
        \E i \in DOMAIN jobQueue : jobQueue[i] = [key |-> d, params |-> asked[d]]
  BY DEF DirtyIdleIsQueuedAsAsked, InProgress
<1>1. ASSUME NEW k \in Key, NEW p \in Params, Deploy(k, p) PROVE Goal
  <2> DEFINE req == [key |-> k, params |-> p]
  <2>1. req \in RequestParams BY DEF RequestParams
  <2>2. inProgress' = inProgress /\ asked' = [asked EXCEPT ![k] = p]
    BY <1>1 DEF Deploy
  <2>3. CASE d # k
    <3>1. d \in dirty /\ asked'[d] = asked[d] BY <1>1, <2>2, <2>3 DEF Deploy
    <3>2. PICK j \in DOMAIN jobQueue : jobQueue[j] = [key |-> d, params |-> asked[d]]
      BY <3>1, <2>2, <1>0
    <3>3. jobQueue' \in {UpdateJobQueue(req), jobQueue, PushBack(req)} BY <1>1 DEF Deploy
    <3>4. jobQueue[j].key # k BY <3>2, <2>3
    <3>5. \E i \in DOMAIN UpdateJobQueue(req) : UpdateJobQueue(req)[i] = jobQueue[j]
      BY <2>1, <3>4, UpdatedQueue
    <3>6. \E i \in DOMAIN PushBack(req) : PushBack(req)[i] = jobQueue[j]
      BY <2>1, PushedQueue
    <3> QED BY <3>1, <3>2, <3>3, <3>5, <3>6
  <2>4. CASE d = k /\ k \in dirty
    <3>1. PICK j \in DOMAIN jobQueue : jobQueue[j] = [key |-> d, params |-> asked[d]]
      BY <2>2, <2>4, <1>0
    <3>2. jobQueue' = UpdateJobQueue(req) BY <1>1, <2>4 DEF Deploy
    <3>3. j \in DOMAIN jobQueue' /\ jobQueue'[j] = req
      BY <2>1, <2>4, <3>1, <3>2, UpdatedQueue
    <3> QED BY <3>3, <2>2, <2>4
  <2>5. CASE d = k /\ k \notin dirty
    <3>1. jobQueue' = PushBack(req) BY <1>1, <2>2, <2>5 DEF Deploy, InProgress
    <3>2. \E i \in DOMAIN jobQueue' : jobQueue'[i] = req
      BY <2>1, <3>1, PushedQueue
    <3> QED BY <3>2, <2>2, <2>5
  <2> QED BY <2>3, <2>4, <2>5
<1>2. ASSUME NEW k \in Key, GetResult(k) PROVE Goal
  BY <1>0, <1>2 DEF GetResult
<1>3. ASSUME NEW k \in Key, CleanupEntries(k) PROVE Goal
  <2>1. d \in dirty /\ d # k /\ inProgress' = inProgress /\ asked'[d] = asked[d]
    BY <1>3 DEF CleanupEntries, RemoveFromDirty
  <2>2. PICK j \in DOMAIN jobQueue : jobQueue[j] = [key |-> d, params |-> asked[d]]
    BY <2>1, <1>0
  <2>3. jobQueue[j].key # k BY <2>1, <2>2
  <2>4. \E i \in DOMAIN jobQueue' : jobQueue'[i] = jobQueue[j]
    BY <1>3, <2>3, CleanedQueue DEF CleanupEntries
  <2> QED BY <2>1, <2>2, <2>4
<1>4. ASSUME NEW w \in Workers, TakeRequest(w) PROVE Goal
  <2> DEFINE req == Head(jobQueue)
  <2>1. d \in dirty /\ d # req.key /\ asked' = asked /\ jobQueue' = Tail(jobQueue)
    BY <1>4 DEF TakeRequest, RemoveFromDirty
  <2>2. inProgress'[d] = inProgress[d] BY <1>4, <2>1 DEF TakeRequest, AddToInProgress
  <2>3. PICK j \in DOMAIN jobQueue : jobQueue[j] = [key |-> d, params |-> asked[d]]
    BY <2>1, <2>2, <1>0
  <2>4. jobQueue[j] # req BY <2>1, <2>3
  <2>5. \E i \in DOMAIN jobQueue' : jobQueue'[i] = jobQueue[j]
    BY <1>4, <2>1, <2>4, TakenQueue DEF TakeRequest
  <2> QED BY <2>1, <2>3, <2>5
<1>5. ASSUME NEW w \in Workers, StoreResult(w) PROVE Goal
  <2> DEFINE k == params[w].key
  <2>0. params[w] \in RequestParams BY <1>5, RunningIsInProgress DEF StoreResult
  <2>1. d \in dirty /\ asked' = asked BY <1>5 DEF StoreResult, RemoveFromDirty
  <2>2. d # k BY <1>5 DEF StoreResult, RemoveFromDirty, RequestedAgain
  <2>3. inProgress'[d] = inProgress[d] BY <1>5, <2>2 DEF StoreResult, RemoveFromInProgress
  <2>4. PICK j \in DOMAIN jobQueue : jobQueue[j] = [key |-> d, params |-> asked[d]]
    BY <2>1, <2>3, <1>0
  <2>5. jobQueue' \in {jobQueue, PushBack(params[w])} BY <1>5 DEF StoreResult, Requeue
  <2>6. \E i \in DOMAIN jobQueue' : jobQueue'[i] = jobQueue[j]
    <3>1. \E i \in DOMAIN PushBack(params[w]) : PushBack(params[w])[i] = jobQueue[j]
      BY <2>0, PushedQueue
    <3> QED BY <2>5, <3>1
  <2> QED BY <2>1, <2>4, <2>6
<1>6. CASE UNCHANGED <<dirty, inProgress, jobQueue, asked>>
  BY <1>0, <1>6
<1> QED
  BY <1>1, <1>2, <1>3, <1>4, <1>5, <1>6
  DEF Next, Controller, Worker, RegisterFeatureID, Stop, Cancel, vars, queueVars, historyVars

LEMMA IInvInit == Init => IInv
<1> SUFFICES ASSUME Init PROVE IInv OBVIOUS
<1> USE DEF Init
<1>1. TypeOK
  <2>1. <<>> \in Seq(RequestParams) OBVIOUS
  <2> QED BY <2>1 DEF TypeOK
<1>2. InProgressIsRunners
  <2>1. \A k \in Key : RunnersOf(k) = {} BY DEF RunnersOf, Running
  <2> QED BY <2>1, FS_EmptySet DEF InProgressIsRunners
<1> QED BY <1>1, <1>2 DEF IInv, DirtyIdleIsQueuedAsAsked, NoResultIfDirty

(* The deployer keeps its four structures consistent with its workers and  *)
(* with what was asked of it.                                              *)
THEOREM DeployerInvariant == Spec => []IInv
<1>1. IInv /\ [Next]_vars => IInv'
  BY TypeStep, RunnersStep, NoResultStep, DirtyStep DEF IInv
<1> QED BY <1>1, IInvInit, PTL DEF Spec

(* Every variable keeps its type, for any number of workers.               *)
THEOREM TypesCorrect == Spec => []TypeOK
<1>1. IInv => TypeOK BY DEF IInv
<1> QED BY <1>1, DeployerInvariant, PTL

(* The slice inProgress holds each key as often as workers run it: neither *)
(* a requeue nor CleanupEntries makes the count drift.                     *)
THEOREM RunnersCounted == Spec => []InProgressIsRunners
<1>1. IInv => InProgressIsRunners BY DEF IInv
<1> QED BY <1>1, DeployerInvariant, PTL

(* No accepted request is lost: a dirty key is run, or queued as asked. *)
THEOREM RequestsNotLost == Spec => [](InProgressIsRunners /\ DirtyIdleIsQueuedAsAsked)
<1>1. IInv => InProgressIsRunners /\ DirtyIdleIsQueuedAsAsked BY DEF IInv
<1> QED BY <1>1, DeployerInvariant, PTL

(* While a request waits in dirty, GetResult reports it as in progress. *)
THEOREM DirtyReported == Spec => []DirtyIsReportedInProgress
<1>1. IInv => DirtyIsReportedInProgress
  BY DEF IInv, TypeOK, DirtyIsReportedInProgress, GetRequestStatus, NoResultIfDirty,
         DirtyIdleIsQueuedAsAsked, QueuedKeys, Absent
<1> QED BY <1>1, DeployerInvariant, PTL

-----------------------------------------------------------------------------
(* What each step does to the set of queued keys. *)
LEMMA QueuedKeysStep ==
  ASSUME IInv
  PROVE  /\ \A k \in Key, p \in Params : Deploy(k, p) =>
              QueuedKeys' = IF k \in dirty \/ InProgress(k) THEN QueuedKeys
                                                            ELSE QueuedKeys \cup {k}
         /\ \A k \in Key : CleanupEntries(k) =>
              QueuedKeys' \subseteq QueuedKeys /\ QueuedKeys \ {k} \subseteq QueuedKeys'
         /\ \A w \in Workers : TakeRequest(w) =>
              /\ Head(jobQueue).key \in Key
              /\ QueuedKeys = QueuedKeys' \cup {Head(jobQueue).key}
         /\ \A w \in Workers : StoreResult(w) =>
              QueuedKeys' = IF params[w].key \in dirty THEN QueuedKeys \cup {params[w].key}
                                                       ELSE QueuedKeys
<1> USE DEF IInv, TypeOK
<1>1. ASSUME NEW k \in Key, NEW p \in Params, Deploy(k, p)
      PROVE  QueuedKeys' = IF k \in dirty \/ InProgress(k) THEN QueuedKeys
                                                           ELSE QueuedKeys \cup {k}
  <2> DEFINE req == [key |-> k, params |-> p]
  <2>1. req \in RequestParams BY DEF RequestParams
  <2>2. CASE k \in dirty
    <3>1. jobQueue' = UpdateJobQueue(req) BY <1>1, <2>2 DEF Deploy
    <3>2. DOMAIN jobQueue' = DOMAIN jobQueue
          /\ \A i \in DOMAIN jobQueue : jobQueue'[i].key = jobQueue[i].key
      BY <2>1, <3>1, UpdatedQueue
    <3> QED BY <2>2, <3>2 DEF QueuedKeys
  <2>3. CASE k \notin dirty /\ InProgress(k)
    BY <1>1, <2>3 DEF Deploy, QueuedKeys
  <2>4. CASE k \notin dirty /\ ~InProgress(k)
    <3>1. jobQueue' = PushBack(req) BY <1>1, <2>4 DEF Deploy
    <3>2. /\ \A i \in DOMAIN jobQueue' :
                jobQueue'[i] = req \/ \E j \in DOMAIN jobQueue : jobQueue'[i] = jobQueue[j]
          /\ \A j \in DOMAIN jobQueue : \E i \in DOMAIN jobQueue' : jobQueue'[i] = jobQueue[j]
          /\ \E i \in DOMAIN jobQueue' : jobQueue'[i] = req
      <4> HIDE DEF req
      <4> QED BY <2>1, <3>1, PushedQueue
    <3>3. req.key = k OBVIOUS
    <3> HIDE DEF req
    <3> QED BY <2>4, <3>2, <3>3 DEF QueuedKeys
  <2> QED BY <2>2, <2>3, <2>4
<1>2. ASSUME NEW k \in Key, CleanupEntries(k)
      PROVE  QueuedKeys' \subseteq QueuedKeys /\ QueuedKeys \ {k} \subseteq QueuedKeys'
  BY <1>2, CleanedQueue DEF CleanupEntries, QueuedKeys
<1>3. ASSUME NEW w \in Workers, TakeRequest(w)
      PROVE  Head(jobQueue).key \in Key /\ QueuedKeys = QueuedKeys' \cup {Head(jobQueue).key}
  <2>1. jobQueue # <<>> /\ jobQueue' = Tail(jobQueue) BY <1>3 DEF TakeRequest
  <2>2. /\ \A i \in DOMAIN jobQueue' : \E j \in DOMAIN jobQueue : jobQueue'[i] = jobQueue[j]
        /\ \A j \in DOMAIN jobQueue :
              jobQueue[j] = Head(jobQueue) \/ \E i \in DOMAIN jobQueue' : jobQueue'[i] = jobQueue[j]
        /\ \E j \in DOMAIN jobQueue : jobQueue[j] = Head(jobQueue)
    BY <2>1, TakenQueue
  <2>3. Head(jobQueue).key \in Key BY <2>1, TakenQueue DEF RequestParams
  <2> QED BY <2>2, <2>3 DEF QueuedKeys
<1>4. ASSUME NEW w \in Workers, StoreResult(w)
      PROVE  QueuedKeys' = IF params[w].key \in dirty THEN QueuedKeys \cup {params[w].key}
                                                      ELSE QueuedKeys
  <2>1. params[w] \in RequestParams BY <1>4, RunningIsInProgress DEF StoreResult
  <2>2. CASE params[w].key \in dirty
    <3>1. jobQueue' = PushBack(params[w])
      BY <1>4, <2>2 DEF StoreResult, RequestedAgain, Requeue
    <3>2. /\ \A i \in DOMAIN jobQueue' :
                jobQueue'[i] = params[w] \/ \E j \in DOMAIN jobQueue : jobQueue'[i] = jobQueue[j]
          /\ \A j \in DOMAIN jobQueue : \E i \in DOMAIN jobQueue' : jobQueue'[i] = jobQueue[j]
          /\ \E i \in DOMAIN jobQueue' : jobQueue'[i] = params[w]
      BY <2>1, <3>1, PushedQueue
    <3> QED BY <2>2, <3>2 DEF QueuedKeys
  <2>3. CASE params[w].key \notin dirty
    BY <1>4, <2>3 DEF StoreResult, RequestedAgain, QueuedKeys
  <2> QED BY <2>2, <2>3
<1> QED BY <1>1, <1>2, <1>3, <1>4

(* Every step of the queue is a step of the abstract ledger, or none, or    *)
(* the clean up of a key that stays queued.                                 *)
LEMMA LedgerStep ==
  ASSUME IInv, [Next]_vars
  PROVE  [Ledger!Next \/ \E k \in Key : LeavesARequest(k)]_<<dirty \cup QueuedKeys, inProgress, results>>
<1> USE DEF IInv, TypeOK
<1> DEFINE pending == dirty \cup QueuedKeys
           Goal == [Ledger!Next \/ \E k \in Key : LeavesARequest(k)]_<<pending, inProgress, results>>
<1>1. ASSUME NEW k \in Key, NEW p \in Params, Deploy(k, p) PROVE Goal
  <2>1. pending' = pending \cup {k}
    <3>1. dirty' = dirty \cup {k} BY <1>1 DEF Deploy
    <3> QED BY <1>1, <3>1, QueuedKeysStep
  <2>2. results' = [results EXCEPT ![k] = Absent]
    BY <1>1 DEF Deploy, DeleteResult, NoResultIfDirty
  <2>3. Ledger!Submit(k) BY <1>1, <2>1, <2>2 DEF Ledger!Submit, Deploy
  <2> QED BY <2>3 DEF Ledger!Next
<1>2. ASSUME NEW k \in Key, GetResult(k) PROVE Goal
  <2>1. Ledger!Collect(k)
    BY <1>2 DEF GetResult, DeleteResult, Ledger!Collect, QueuedKeys
  <2> QED BY <2>1 DEF Ledger!Next
<1>3. ASSUME NEW k \in Key, CleanupEntries(k) PROVE Goal
  <2>1. CASE k \in QueuedKeys' BY <1>3, <2>1 DEF LeavesARequest
  <2>2. CASE k \notin QueuedKeys'
    <3>1. dirty' = dirty \ {k} BY <1>3 DEF CleanupEntries, RemoveFromDirty
    <3>2. QueuedKeys' \subseteq QueuedKeys /\ QueuedKeys \ {k} \subseteq QueuedKeys'
      BY <1>3, QueuedKeysStep
    <3>3. pending' = pending \ {k} BY <2>2, <3>1, <3>2
    <3>4. Ledger!Withdraw(k)
      BY <1>3, <3>3 DEF CleanupEntries, DeleteResult, Ledger!Withdraw
    <3> QED BY <3>4 DEF Ledger!Next
  <2> QED BY <2>1, <2>2
<1>4. ASSUME NEW w \in Workers, TakeRequest(w) PROVE Goal
  <2> DEFINE k == Head(jobQueue).key
  <2>1. k \in Key /\ QueuedKeys = QueuedKeys' \cup {k} BY <1>4, QueuedKeysStep
  <2>2. dirty' = dirty \ {k} BY <1>4 DEF TakeRequest, RemoveFromDirty
  <2>3. pending' \in {pending, pending \ {k}}
    <3>1. CASE k \in QueuedKeys' BY <2>1, <2>2, <3>1
    <3>2. CASE k \notin QueuedKeys' BY <2>1, <2>2, <3>2
    <3> QED BY <3>1, <3>2
  <2>4. Ledger!Begin(k)
    BY <1>4, <2>1, <2>3 DEF TakeRequest, AddToInProgress, Ledger!Begin
  <2> QED BY <2>1, <2>4 DEF Ledger!Next
<1>5. ASSUME NEW w \in Workers, StoreResult(w) PROVE Goal
  <2> DEFINE k == params[w].key
  <2>1. k \in Key /\ inProgress[k] > 0 BY <1>5, RunningIsInProgress DEF StoreResult
  <2>2. inProgress' = [inProgress EXCEPT ![k] = @ - 1]
    BY <1>5 DEF StoreResult, RemoveFromInProgress
  <2>3. QueuedKeys' = IF k \in dirty THEN QueuedKeys \cup {k} ELSE QueuedKeys
    BY <1>5, QueuedKeysStep
  <2>4. dirty' = dirty \ {k} BY <1>5 DEF StoreResult, RemoveFromDirty, RequestedAgain
  <2>5. pending' = pending BY <2>3, <2>4
  <2>6. \/ \E o \in Outcomes : results' = [results EXCEPT ![k] = o]
        \/ k \in pending /\ results' = [results EXCEPT ![k] = Absent]
    BY <1>5 DEF StoreResult, RequestedAgain, DeleteResult, HandlerOutcomes, Outcomes
  <2>7. Ledger!Finish(k) BY <2>1, <2>2, <2>5, <2>6 DEF Ledger!Finish
  <2> QED BY <2>1, <2>7 DEF Ledger!Next
<1>6. CASE UNCHANGED queueVars
  BY <1>6 DEF queueVars, QueuedKeys
<1> QED
  BY <1>1, <1>2, <1>3, <1>4, <1>5, <1>6
  DEF Next, Controller, Worker, RegisterFeatureID, Stop, Cancel, vars

(* The queue implements the abstract request ledger: a request leaves it    *)
(* only by being run or withdrawn, an outcome is dropped only in favour of  *)
(* a later run, and what is withdrawn is not run, unless the clean up found *)
(* its key queued twice.                                                    *)
THEOREM DeployerImplementsLedger == Spec => ImplementsLedger
<1>1. Init => Ledger!Init
  BY DEF Init, Ledger!Init, QueuedKeys
<1>2. IInv /\ [Next]_vars
      => [Ledger!Next \/ \E k \in Key : LeavesARequest(k)]_<<dirty \cup QueuedKeys, inProgress, results>>
  BY LedgerStep
<1> QED BY <1>1, <1>2, DeployerInvariant, PTL DEF Spec, ImplementsLedger

-----------------------------------------------------------------------------
(* What is in progress becomes unavailable only through CleanupEntries. *)
THEOREM DeployerNeverForgets == Spec => NeverForgotten
<1>1. ASSUME IInv, Next, NEW k \in Key, GetRequestStatus(k) = "InProgress",
             GetRequestStatus(k)' = "Unavailable"
      PROVE  CleanupEntries(k)
  <2> USE DEF IInv, TypeOK
  <2>1. results[k] = Absent /\ (inProgress[k] > 0 \/ k \in QueuedKeys)
    BY <1>1 DEF GetRequestStatus, Outcomes, Absent, InProgress
  <2>2. results'[k] \notin Outcomes /\ ~(inProgress'[k] > 0) /\ k \notin QueuedKeys'
    BY <1>1 DEF GetRequestStatus, Outcomes, InProgress
  <2>3. ASSUME NEW c \in Key, NEW p \in Params, Deploy(c, p) PROVE FALSE
    <3>1. inProgress' = inProgress BY <2>3 DEF Deploy
    <3>2. k \notin QueuedKeys BY <1>1, <2>2, <2>3, QueuedKeysStep
    <3> QED BY <2>1, <2>2, <3>1, <3>2
  <2>4. ASSUME NEW c \in Key, CleanupEntries(c), c # k PROVE FALSE
    <3>1. inProgress' = inProgress BY <2>4 DEF CleanupEntries
    <3>2. QueuedKeys \ {c} \subseteq QueuedKeys' BY <1>1, <2>4, QueuedKeysStep
    <3> QED BY <2>1, <2>2, <2>4, <3>1, <3>2
  <2>5. ASSUME NEW w \in Workers, TakeRequest(w) PROVE FALSE
    <3> DEFINE c == Head(jobQueue).key
    <3>1. c \in Key /\ QueuedKeys = QueuedKeys' \cup {c} BY <1>1, <2>5, QueuedKeysStep
    <3>2. inProgress' = [inProgress EXCEPT ![c] = @ + 1]
      BY <2>5 DEF TakeRequest, AddToInProgress
    <3> HIDE DEF c
    <3>3. CASE k = c BY <1>1, <2>2, <3>1, <3>2, <3>3
    <3>4. CASE k # c BY <2>1, <2>2, <3>1, <3>2, <3>4
    <3> QED BY <3>3, <3>4
  <2>6. ASSUME NEW w \in Workers, StoreResult(w) PROVE FALSE
    <3> DEFINE c == params[w].key
    <3>1. c \in Key BY <1>1, <2>6, RunningIsInProgress DEF StoreResult
    <3>2. inProgress' = [inProgress EXCEPT ![c] = @ - 1]
      BY <2>6 DEF StoreResult, RemoveFromInProgress
    <3>3. QueuedKeys' = IF c \in dirty THEN QueuedKeys \cup {c} ELSE QueuedKeys
      BY <1>1, <2>6, QueuedKeysStep
    <3>4. c \notin dirty => results'[c] \in Outcomes
      BY <1>1, <2>6, <3>1 DEF StoreResult, RequestedAgain, HandlerOutcomes, Outcomes
    <3> HIDE DEF c
    <3> QED BY <2>1, <2>2, <3>1, <3>2, <3>3, <3>4
  <2>7. ~ UNCHANGED <<inProgress, jobQueue>>
    BY <2>1, <2>2 DEF QueuedKeys
  <2> QED
    BY <1>1, <2>3, <2>4, <2>5, <2>6, <2>7
    DEF Next, Controller, Worker, RegisterFeatureID, GetResult, Stop, Cancel, queueVars
<1>2. IInv /\ [Next]_vars => [\A k \in Key : (/\ GetRequestStatus(k) = "InProgress"
                                              /\ GetRequestStatus(k)' = "Unavailable")
                                             => CleanupEntries(k)]_vars
  BY <1>1
<1> QED BY <1>2, DeployerInvariant, PTL DEF Spec, NeverForgotten

-----------------------------------------------------------------------------
(* A run whose key was requested again finds it in dirty, unless a second  *)
(* worker has run the key meanwhile.                                       *)
OvertakenIsDirty ==
  \A w \in overtaken : Running(w) /\ (params[w].key \in dirty \/ params[w].key \in parallel)

(* Two workers that run one key are seen doing so. *)
ParallelIsSeen ==
  \A v, w \in Workers : v # w /\ Running(v) /\ Running(w) /\ params[v].key = params[w].key
                         => params[v].key \in parallel

CurrentInv == ResultIsCurrent /\ OvertakenIsDirty /\ ParallelIsSeen

LEMMA ParallelStep ==
  ASSUME IInv, ParallelIsSeen, [Next]_vars
  PROVE  ParallelIsSeen'
<1> USE DEF IInv, TypeOK
<1>1. ASSUME NEW w \in Workers, TakeRequest(w) PROVE ParallelIsSeen'
  <2> DEFINE k == Head(jobQueue).key
  <2>1. params' = [params EXCEPT ![w] = Head(jobQueue)] /\ ~Running(w)
    BY <1>1 DEF TakeRequest
  <2>2. /\ parallel \subseteq parallel'
        /\ RunnersOf(k) # {} => k \in parallel'
    BY <1>1 DEF TakeRequest
  <2>3. ASSUME NEW v \in Workers, v # w, Running(v)', params'[v].key = k
        PROVE  k \in parallel'
    <3>1. v \in RunnersOf(k) BY <2>1, <2>3 DEF RunnersOf, Running
    <3> QED BY <3>1, <2>2
  <2>4. ASSUME NEW v \in Workers, NEW u \in Workers, v # u, v # w, u # w,
               Running(v)', Running(u)', params'[v].key = params'[u].key
        PROVE  params'[v].key \in parallel'
    <3>1. params'[v] = params[v] /\ params'[u] = params[u] BY <2>1, <2>4
    <3> QED BY <3>1, <2>2, <2>4 DEF ParallelIsSeen, Running
  <2>5. params'[w].key = k BY <2>1
  <2> HIDE DEF k
  <2> QED BY <2>3, <2>4, <2>5 DEF ParallelIsSeen
<1>2. ASSUME NEW w \in Workers, StoreResult(w) PROVE ParallelIsSeen'
  <2>1. params' = [params EXCEPT ![w] = Nil] /\ parallel' = parallel
    BY <1>2 DEF StoreResult
  <2>2. ASSUME NEW v \in Workers, NEW u \in Workers, v # u,
               Running(v)', Running(u)', params'[v].key = params'[u].key
        PROVE  params'[v].key \in parallel'
    <3>1. params'[v] = params[v] /\ params'[u] = params[u] BY <2>1, <2>2 DEF Running
    <3> QED BY <3>1, <2>1, <2>2 DEF ParallelIsSeen, Running
  <2> QED BY <2>2 DEF ParallelIsSeen
<1>3. CASE UNCHANGED <<params, parallel>>
  BY <1>3 DEF ParallelIsSeen, Running
<1> QED
  BY <1>1, <1>2, <1>3
  DEF Next, Controller, Worker, RegisterFeatureID, Deploy, GetResult, CleanupEntries, Stop,
      Cancel, vars, workerVars, historyVars

LEMMA CurrentStep ==
  ASSUME IInv, CurrentInv, [Next]_vars
  PROVE  ResultIsCurrent' /\ OvertakenIsDirty'
<1> USE DEF IInv, TypeOK
<1> DEFINE Goal == ResultIsCurrent' /\ OvertakenIsDirty'
<1>0. outdated \subseteq parallel /\ OvertakenIsDirty /\ ParallelIsSeen
  BY DEF CurrentInv, ResultIsCurrent
<1>1. ASSUME NEW k \in Key, NEW p \in Params, Deploy(k, p) PROVE Goal
  BY <1>0, <1>1 DEF Deploy, workerVars, ResultIsCurrent, OvertakenIsDirty, RunnersOf, Running
<1>2. ASSUME NEW k \in Key, GetResult(k) PROVE Goal
  BY <1>0, <1>2 DEF GetResult, workerVars, ResultIsCurrent, OvertakenIsDirty, Running
<1>3. ASSUME NEW k \in Key, CleanupEntries(k) PROVE Goal
  <2>1. /\ overtaken' = overtaken \ RunnersOf(k) /\ parallel' = parallel
        /\ dirty' = dirty \ {k} /\ params' = params /\ outdated' = outdated \ {k}
    BY <1>3 DEF CleanupEntries, RemoveFromDirty, workerVars
  <2>2. ASSUME NEW w \in overtaken'
        PROVE  w \in overtaken /\ params[w] # Nil /\ params[w].key # k
    <3>1. w \in overtaken /\ w \in Workers /\ w \notin RunnersOf(k) BY <2>1
    <3>2. params[w] # Nil BY <1>0, <3>1 DEF OvertakenIsDirty, Running
    <3> QED BY <3>1, <3>2 DEF RunnersOf, Running
  <2> QED BY <1>0, <2>1, <2>2 DEF ResultIsCurrent, OvertakenIsDirty, Running
<1>4. ASSUME NEW w \in Workers, TakeRequest(w) PROVE Goal
  <2> DEFINE k == Head(jobQueue).key
  <2>1. /\ params' = [params EXCEPT ![w] = Head(jobQueue)]
        /\ dirty' = dirty \ {k} /\ outdated' = outdated
        /\ overtaken' = overtaken \ {w}
        /\ parallel \subseteq parallel'
        /\ RunnersOf(k) # {} => k \in parallel'
    BY <1>4 DEF TakeRequest, RemoveFromDirty
  <2> HIDE DEF k
  <2>2. ASSUME NEW v \in overtaken'
        PROVE  Running(v)' /\ (params'[v].key \in dirty' \/ params'[v].key \in parallel')
    <3>1. v \in overtaken /\ v \in Workers /\ v # w /\ params'[v] = params[v] BY <2>1
    <3>2. Running(v) /\ (params[v].key \in dirty \/ params[v].key \in parallel)
      BY <1>0, <3>1 DEF OvertakenIsDirty
    <3>3. CASE params[v].key = k
      <4>1. v \in RunnersOf(k) BY <3>1, <3>2, <3>3 DEF RunnersOf
      <4> QED BY <4>1, <2>1, <3>1, <3>2, <3>3 DEF Running
    <3>4. CASE params[v].key # k
      BY <2>1, <3>1, <3>2, <3>4 DEF Running
    <3> QED BY <3>3, <3>4
  <2> QED BY <1>0, <2>1, <2>2 DEF ResultIsCurrent, OvertakenIsDirty
<1>5. ASSUME NEW w \in Workers, StoreResult(w) PROVE Goal
  <2> DEFINE k == params[w].key
  <2>1. /\ params' = [params EXCEPT ![w] = Nil] /\ Running(w)
        /\ dirty' = dirty \ {k} /\ overtaken' = overtaken \ {w}
        /\ parallel' = parallel
    BY <1>5 DEF StoreResult, RemoveFromDirty, RequestedAgain
  <2>2. outdated' \subseteq parallel'
    <3>1. w \in overtaken => k \in dirty \/ k \in parallel
      BY <1>0 DEF OvertakenIsDirty
    <3>2. CASE k \in dirty
      BY <1>0, <1>5, <2>1, <3>2 DEF StoreResult, RequestedAgain
    <3>3. CASE k \notin dirty
      BY <1>0, <1>5, <2>1, <3>1, <3>3 DEF StoreResult, RequestedAgain
    <3> QED BY <3>2, <3>3
  <2> HIDE DEF k
  <2>3. ASSUME NEW v \in overtaken'
        PROVE  Running(v)' /\ (params'[v].key \in dirty' \/ params'[v].key \in parallel')
    <3>1. v \in overtaken /\ v \in Workers /\ v # w /\ params'[v] = params[v] BY <2>1
    <3>2. Running(v) /\ (params[v].key \in dirty \/ params[v].key \in parallel)
      BY <1>0, <3>1 DEF OvertakenIsDirty
    <3>3. CASE params[v].key = k
      <4>1. params[v].key \in parallel
        BY <1>0, <2>1, <3>1, <3>2, <3>3 DEF ParallelIsSeen, k
      <4> QED BY <4>1, <2>1, <3>1, <3>2 DEF Running
    <3>4. CASE params[v].key # k
      BY <2>1, <3>1, <3>2, <3>4 DEF Running
    <3> QED BY <3>3, <3>4
  <2> QED BY <2>2, <2>3 DEF ResultIsCurrent, OvertakenIsDirty
<1>6. CASE UNCHANGED <<dirty, params, overtaken, outdated, parallel>>
  BY <1>0, <1>6 DEF ResultIsCurrent, OvertakenIsDirty, Running
<1> QED
  BY <1>1, <1>2, <1>3, <1>4, <1>5, <1>6
  DEF Next, Controller, Worker, RegisterFeatureID, Stop, Cancel, vars, queueVars,
      workerVars, historyVars

(* Results are current, except for keys that two workers ran at once: with *)
(* one worker, always (storeResult ignores the outcome of every run that a *)
(* later Deploy overtook).                                                 *)
THEOREM ResultsCurrent == Spec => []ResultIsCurrent
<1>1. Init => CurrentInv
  BY DEF Init, CurrentInv, ResultIsCurrent, OvertakenIsDirty, ParallelIsSeen, Running
<1>2. IInv /\ CurrentInv /\ [Next]_vars => CurrentInv'
  BY ParallelStep, CurrentStep DEF CurrentInv
<1>3. CurrentInv => ResultIsCurrent BY DEF CurrentInv
<1> QED BY <1>1, <1>2, <1>3, DeployerInvariant, PTL DEF Spec
=============================================================================
