------------------------------ MODULE Deployer ------------------------------
(***************************************************************************)
(* lib/deployer: the queue of requests to deploy, or clean up, a feature   *)
(* on a cluster.  Controllers call Deploy, GetResult and CleanupEntries;   *)
(* a pool of worker goroutines takes requests off jobQueue and runs their  *)
(* handlers.  Every operation runs under the deployer's one mutex and is   *)
(* one action; between TakeRequest and StoreResult a worker runs the       *)
(* handler without the mutex, and anything may happen.                     *)
(***************************************************************************)
EXTENDS Naturals, FiniteSets, Sequences, SequencesExt

CONSTANTS Targets,      \* cluster namespace/name/type plus applicant
          Features,     \* feature IDs
          Params,       \* what a Deploy call carries: handler, metric handler, options
          Workers,      \* the numOfWorker goroutines
          MalformedTargets, \* targets whose key does not split in the six parts
          MaxQueue,     \* bound: no Deploy while jobQueue is this long
          Nil           \* a nil pointer

Key == [target : Targets, featureID : Features, cleanup : BOOLEAN]
RequestParams == [key : Key, params : Params]
Outcomes == {"success", "error"}
Absent == "absent"

ASSUME DeployerAssumption ==
  /\ IsFiniteSet(Workers)
  /\ MaxQueue \in Nat
  /\ Nil \notin RequestParams
  /\ Nil \notin Params

VARIABLES
  features,   \* registered feature IDs
  dirty,      \* keys requested and waiting to be served (a slice used as a set)
  inProgress, \* how often each key occurs in the inProgress slice
  jobQueue,   \* the requests the workers take, first come first served
  results,    \* outcome per key, Absent when the map has no entry
  params,     \* the request each worker is running, Nil between two requests
  stopped,    \* workers that saw the context cancelled and returned
  cancelled,  \* the context given to GetClient is cancelled
  \* History, read by no action:
  asked,      \* what the last accepted Deploy of each key carried, Nil if none
  overtaken,  \* workers whose key was requested again since they took it, and
              \* that request was not cleaned up
  outdated,   \* keys whose result comes from an overtaken run
  parallel    \* keys that two workers have ever run at the same time

queueVars == <<dirty, inProgress, jobQueue, results>>
workerVars == <<params, stopped, cancelled>>
historyVars == <<asked, overtaken, outdated, parallel>>
vars == <<features, queueVars, workerVars, historyVars>>

Init == /\ features = {}
        /\ dirty = {}
        /\ inProgress = [k \in Key |-> 0]
        /\ jobQueue = <<>>
        /\ results = [k \in Key |-> Absent]
        /\ params = [w \in Workers |-> Nil]
        /\ stopped = {}
        /\ cancelled = FALSE
        /\ asked = [k \in Key |-> Nil]
        /\ overtaken = {}
        /\ outdated = {}
        /\ parallel = {}

QueuedKeys == {jobQueue[i].key : i \in DOMAIN jobQueue}
InProgress(k) == inProgress[k] > 0
Running(w) == params[w] # Nil
RunnersOf(k) == {w \in Workers : Running(w) /\ params[w].key = k}

-----------------------------------------------------------------------------
(* What the operations do to the four structures.  The variants named after *)
(* a slip are what that slip would make of the helper below them.           *)

InProgressNotAdded(k) == inProgress
AddToInProgress(k) == [inProgress EXCEPT ![k] = @ + 1]

InProgressNotRemoved(k) == inProgress
RemoveFromInProgress(k) == [inProgress EXCEPT ![k] = @ - 1]

RemoveFromDirty(k) == dirty \ {k}

ResultNotDeleted(k) == results
DeleteResult(k) == [results EXCEPT ![k] = Absent]

PushFront(req) == <<req>> \o jobQueue
PushBack(req) == Append(jobQueue, req)

PushNothing(req) == jobQueue
Requeue(req) == PushBack(req)

UpdateNothing(req) == jobQueue
UpdateJobQueue(req) ==
  [i \in DOMAIN jobQueue |-> IF jobQueue[i].key = req.key THEN req ELSE jobQueue[i]]

WithoutFirst(q, k) == RemoveFirstMatch(q, LAMBDA r : r.key = k)

NeverRequestedAgain(k) == FALSE
RequestedAgain(k) == k \in dirty

-----------------------------------------------------------------------------
(* Operations of the controllers *)

RegisterFeatureID(f) ==
  /\ f \notin features
  /\ features' = features \cup {f}
  /\ UNCHANGED <<queueVars, workerVars, historyVars>>

(* A key that is dirty is not queued again, it only has its queued requests *)
(* replaced.  Any other key becomes dirty, and is queued unless it runs.    *)
Deploy(k, p) ==
  LET req == [key |-> k, params |-> p] IN
  /\ k.featureID \in features
  /\ Len(jobQueue) < MaxQueue
  /\ \/ /\ k \in dirty
        /\ jobQueue' = UpdateJobQueue(req)
        /\ UNCHANGED <<dirty, results>>
     \/ /\ k \notin dirty
        /\ results' = DeleteResult(k)
        /\ dirty' = dirty \cup {k}
        /\ jobQueue' = IF InProgress(k) THEN jobQueue ELSE PushBack(req)
  /\ asked' = [asked EXCEPT ![k] = p]
  /\ overtaken' = overtaken \cup RunnersOf(k)
  /\ outdated' = outdated \ {k}
  /\ UNCHANGED <<features, inProgress, workerVars, parallel>>

(* What GetResult answers, and what it would if queued requests were missed. *)
QueueNotSearched(k) == CASE results[k] = "error"   -> "Failed"
                         [] results[k] = "success" -> IF k.cleanup THEN "Removed" ELSE "Deployed"
                         [] OTHER                  -> IF InProgress(k) THEN "InProgress"
                                                                       ELSE "Unavailable"
GetRequestStatus(k) == CASE results[k] = "error"   -> "Failed"
                         [] results[k] = "success" -> IF k.cleanup THEN "Removed" ELSE "Deployed"
                         [] OTHER                  -> IF InProgress(k) \/ k \in QueuedKeys
                                                      THEN "InProgress" ELSE "Unavailable"

(* A call that finds a result hands it out once; any other changes nothing. *)
GetResult(k) ==
  /\ results[k] # Absent
  /\ results' = DeleteResult(k)
  /\ outdated' = outdated \ {k}
  /\ UNCHANGED <<features, dirty, inProgress, jobQueue, workerVars, asked, overtaken, parallel>>

(* Only the first queued request of the key is removed. *)
CleanupEntries(k) ==
  /\ dirty' = RemoveFromDirty(k)
  /\ jobQueue' = WithoutFirst(jobQueue, k)
  /\ results' = DeleteResult(k)
  /\ asked' = [asked EXCEPT ![k] = Nil]
  /\ overtaken' = overtaken \ RunnersOf(k)
  /\ outdated' = outdated \ {k}
  /\ UNCHANGED <<features, inProgress, workerVars, parallel>>

-----------------------------------------------------------------------------
(* The workers *)

TakeRequest(w) ==
  LET req == Head(jobQueue) IN
  /\ w \notin stopped /\ ~Running(w)
  /\ jobQueue # <<>>
  /\ jobQueue' = Tail(jobQueue)
  /\ params' = [params EXCEPT ![w] = req]
  /\ inProgress' = AddToInProgress(req.key)
  /\ dirty' = RemoveFromDirty(req.key)
  /\ overtaken' = overtaken \ {w}
  /\ parallel' = IF RunnersOf(req.key) # {} THEN parallel \cup {req.key} ELSE parallel
  /\ UNCHANGED <<features, results, stopped, cancelled, asked, outdated>>

(* A key that does not parse fails without its handler being called. *)
HandlerOutcomes(k) == IF k.target \in MalformedTargets THEN {"error"} ELSE Outcomes

(* A key that became dirty during the run goes back to the queue, with the *)
(* parameters of the request that just ran, and the outcome is dropped.    *)
StoreResult(w) ==
  LET k == params[w].key IN
  /\ Running(w)
  /\ inProgress' = RemoveFromInProgress(k)
  /\ \/ /\ RequestedAgain(k)
        /\ jobQueue' = Requeue(params[w])
        /\ dirty' = RemoveFromDirty(k)
        /\ results' = DeleteResult(k)
        /\ outdated' = outdated \ {k}
     \/ /\ ~RequestedAgain(k)
        /\ \E err \in HandlerOutcomes(k) : results' = [results EXCEPT ![k] = err]
        /\ outdated' = IF w \in overtaken THEN outdated \cup {k} ELSE outdated \ {k}
        /\ UNCHANGED <<jobQueue, dirty>>
  /\ params' = [params EXCEPT ![w] = Nil]
  /\ overtaken' = overtaken \ {w}
  /\ UNCHANGED <<features, stopped, cancelled, asked, parallel>>

Stop(w) ==
  /\ cancelled /\ w \notin stopped /\ ~Running(w)
  /\ stopped' = stopped \cup {w}
  /\ UNCHANGED <<features, queueVars, params, cancelled, historyVars>>

Cancel ==
  /\ ~cancelled
  /\ cancelled' = TRUE
  /\ UNCHANGED <<features, queueVars, params, stopped, historyVars>>

Controller(k) == \/ \E p \in Params : Deploy(k, p)
                 \/ GetResult(k)
                 \/ CleanupEntries(k)
Worker(w) == TakeRequest(w) \/ StoreResult(w) \/ Stop(w)

Next == \/ \E f \in Features : RegisterFeatureID(f)
        \/ \E k \in Key : Controller(k)
        \/ \E w \in Workers : Worker(w)
        \/ Cancel

(* A worker polls every second and its handler returns; nothing obliges a *)
(* controller to call, or the context to be cancelled.                    *)
Fairness == \A w \in Workers : WF_vars(Worker(w))

Spec == Init /\ [][Next]_vars
FairSpec == Spec /\ Fairness

-----------------------------------------------------------------------------
TypeOK ==
  /\ features \subseteq Features
  /\ dirty \subseteq Key
  /\ inProgress \in [Key -> Nat]
  /\ jobQueue \in Seq(RequestParams)
  /\ results \in [Key -> Outcomes \cup {Absent}]
  /\ params \in [Workers -> RequestParams \cup {Nil}]
  /\ stopped \subseteq Workers
  /\ cancelled \in BOOLEAN
  /\ asked \in [Key -> Params \cup {Nil}]
  /\ overtaken \subseteq Workers
  /\ outdated \subseteq Key
  /\ parallel \subseteq Key

(* IsInProgress tells the truth: the inProgress slice holds a key exactly  *)
(* once per worker that is running it, whatever workers and callers do.    *)
InProgressIsRunners == \A k \in Key : inProgress[k] = Cardinality(RunnersOf(k))

(* A dirty key that no worker runs has a queued request, and one that       *)
(* carries what its last Deploy carried: Deploy neither loses the request   *)
(* nor, while the key is idle, the options that changed (updateJobQueue).   *)
DirtyIdleIsQueuedAsAsked ==
  \A k \in dirty : ~InProgress(k) =>
    \E i \in DOMAIN jobQueue : jobQueue[i] = [key |-> k, params |-> asked[k]]

(* A request that waits in dirty is reported as in progress: no result of   *)
(* an earlier run is handed out for it, and it is never unavailable.        *)
DirtyIsReportedInProgress == \A k \in dirty : GetRequestStatus(k) = "InProgress"

(* What is in progress becomes unavailable only if the caller itself calls  *)
(* CleanupEntries; otherwise a caller that polls GetResult sees a result.   *)
NeverForgotten ==
  [][\A k \in Key : (/\ GetRequestStatus(k) = "InProgress"
                     /\ GetRequestStatus(k)' = "Unavailable") => CleanupEntries(k)]_vars

(* Deploy deletes the result of a previous request and storeResult ignores  *)
(* the outcome of a key found in dirty, so a result is that of a run which  *)
(* began after the key's last Deploy, except for keys that two workers have *)
(* run at once.                                                             *)
ResultIsCurrent == outdated \subseteq parallel

(* A dirty or queued request is run, unless its caller withdraws it or the  *)
(* context is cancelled; one made during a run does not stay dirty either.  *)
EveryRequestIsRun ==
  \A k \in Key :
    /\ (k \in dirty \cup QueuedKeys) ~> (InProgress(k) \/ k \notin dirty \cup QueuedKeys \/ cancelled)
    /\ (k \in dirty) ~> (k \notin dirty \/ cancelled)

(* The queue implements the abstract request ledger, but for the clean up   *)
(* of a key that is queued twice: one request is then left, and will be run *)
(* although it was withdrawn.                                               *)
Ledger == INSTANCE WorkRequests WITH pending <- dirty \cup QueuedKeys,
                                     running <- inProgress,
                                     outcome <- results
LeavesARequest(k) == CleanupEntries(k) /\ k \in QueuedKeys'
ImplementsLedger ==
  Ledger!Init /\ [][Ledger!Next \/ \E k \in Key : LeavesARequest(k)]_<<dirty \cup QueuedKeys, inProgress, results>>

-----------------------------------------------------------------------------
(* What comments say and the code does not do. *)

(* "a request to deploy a feature in a cluster is never process more than  *)
(* once in parallel"                                                       *)
NeverInParallel == \A k \in Key : inProgress[k] <= 1

(* "CleanupEntries removes any entry (from any internal data structure)"    *)
CleanupRemovesEntries == [][\A k \in Key : CleanupEntries(k) => k \notin (dirty \cup QueuedKeys)']_vars

=============================================================================
