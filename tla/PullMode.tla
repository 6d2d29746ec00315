------------------------------ MODULE PullMode ------------------------------
(***************************************************************************)
(* lib/pullmode: what components of the management cluster (requestors)    *)
(* have deployed by the agent of a cluster in pull mode.  A requestor      *)
(* writes one ConfigurationBundle per index and one ConfigurationGroup     *)
(* that references them, in several calls to the API server, any of which  *)
(* may fail; the process may restart and lose its staging area.  Reads     *)
(* come from a cache that lags: it may not show yet a bundle just created, *)
(* and shows the groups as they are or once were.  The agent fetches a     *)
(* group that is Ready and, later, its bundles.                            *)
(*                                                                         *)
(* There is one cluster and one feature.  A bundle's hash is its content.  *)
(***************************************************************************)
EXTENDS Naturals, Sequences, FiniteSets

CONSTANTS Requestors,  \* [kind, name]
          Indexes,     \* keys of the resources of a requestor
          Contents,    \* resources under one index
          Wants,       \* what a requestor may want deployed: content or Nil per index
          BundleNames, \* names the random generator may give to bundles
          GroupNames,  \* names the random generator may give to groups
          Random(_),   \* of the free names, those the generator may give
          Styles,      \* how a requestor registers resources: {"stage"}, {"record"} or both
          MaxUnseen,   \* bound on the bundles the cache does not show yet, at one time
          MaxFailures, \* bound on failed calls to the API server and restarts
          Nil

Items == Seq([name : BundleNames, hash : Contents])
Bundle == [owner : Requestors, index : Indexes, content : Contents, seen : BOOLEAN]
Group == [owner : Requestors, deleting : BOOLEAN, finalizer : BOOLEAN,
          phase : {"Ready", "Preparing"}, action : {"Deploy", "Remove"}, items : Items,
          observed : BOOLEAN, status : {"None", "Provisioned", "Failed", "Removed"}]
Version == [action : {"Deploy", "Remove"}, items : Items, deleting : BOOLEAN, current : BOOLEAN]

ASSUME PullModeAssumption ==
  /\ Requestors \subseteq [kind : STRING, name : STRING]
  /\ Wants \subseteq [Indexes -> Contents \cup {Nil}]
  /\ \A free \in ((SUBSET BundleNames) \cup (SUBSET GroupNames)) \ {{}} : Random(free) \subseteq free
  /\ MaxUnseen \in Nat /\ MaxFailures \in Nat
  /\ Nil \notin Contents /\ Nil \notin Bundle /\ Nil \notin Group /\ Nil \notin Version

Pairs(want) == {<<k, want[k]>> : k \in {i \in Indexes : want[i] # Nil}}

VARIABLES
  bundles,   \* API server: [owner, index, content, seen] by name, or Nil
  groups,    \* API server: ConfigurationGroup by name, or Nil
  cached,    \* the groups as the requestors' client shows them
  staged,    \* stagedManager: sequence of [name, hash] by key
  work,      \* call of each requestor: [step, want, todo, items]
  failures,  \* failed calls and restarts so far
  agent,     \* agent: the version of a group it is processing, or Nil
  applied,   \* managed cluster: <<index, content>> deployed for each requestor
  \* History
  pending,   \* requestors whose staging was neither committed nor discarded
  committed, \* what each requestor last made available to the agent, or Nil
  torn,      \* requestors with a group whose bundles were overwritten in place
  swept,     \* requestors whose last call went through
  misled     \* requestors that went by a cache that did not show what they looked for

history == <<pending, committed, torn, swept, misled>>
vars == <<bundles, groups, cached, staged, work, failures, agent, applied, history>>

Idle == [step |-> "idle", want |-> Nil, todo |-> {}, items |-> <<>>]

(* The key of the staging area is made of the requestor's name only.       *)
GeKey(r) == r.name
Keys == {GeKey(r) : r \in Requestors}

Init == /\ bundles = [n \in BundleNames |-> Nil]
        /\ groups = [n \in GroupNames |-> Nil] /\ cached = groups
        /\ staged = [k \in Keys |-> <<>>]
        /\ work = [r \in Requestors |-> Idle]
        /\ failures = 0
        /\ agent = [n \in GroupNames |-> Nil]
        /\ applied = [r \in Requestors |-> {}]
        /\ pending = {} /\ torn = {} /\ swept = Requestors /\ misled = {}
        /\ committed = [r \in Requestors |-> Nil]

-----------------------------------------------------------------------------
(* The API server and the client's cache of it. *)

Names(items) == {items[i].name : i \in DOMAIN items}

Owned(store, r) == {n \in DOMAIN store : store[n] # Nil /\ store[n].owner = r}
Seen(r) == {n \in Owned(bundles, r) : bundles[n].seen}
SeenAt(r, k) == {n \in Seen(r) : bundles[n].index = k}
Shown(r) == Owned(cached, r)
TheGroup(r) == CHOOSE n \in Shown(r) : TRUE
NoGroupInUse(r) == \A n \in Shown(r) : cached[n].deleting
NoGroup(r) == Shown(r) = {}
OneGroup(r) == Cardinality(Shown(r)) = 1

(* An update of an older version meets a conflict, or finds nothing.       *)
CurrentGroup(r) == OneGroup(r) /\ groups[TheGroup(r)] = cached[TheGroup(r)]

(* What a look of r at its group, at what its group lists, at its bundle of *)
(* an index, or at those it does not keep, should show.                     *)
GroupShown(r) == Owned(groups, r) \subseteq Shown(r)
ItemsShown(r) == /\ Owned(groups, r) = Shown(r)
                 /\ \A n \in Shown(r) : cached[n].items = groups[n].items
BundleShown(r, k) == {n \in Owned(bundles, r) : bundles[n].index = k} \subseteq SeenAt(r, k)
StaleShown(r) == Owned(bundles, r) \subseteq Seen(r) \cup Names(work[r].items)
GoBy(r, shown) == misled' = IF shown THEN misled ELSE misled \cup {r}

(* A name that nothing refers to any more is as good as a random one, and   *)
(* as any other such name.                                                  *)
Remembered == UNION ({Names(staged[k]) : k \in Keys}
                     \cup {Names(work[r].items) : r \in Requestors}
                     \cup {Names(groups[n].items) : n \in {g \in GroupNames : groups[g] # Nil}}
                     \cup {Names(cached[n].items) : n \in {g \in GroupNames : cached[g] # Nil}}
                     \cup {Names(agent[n].items) : n \in {g \in GroupNames : agent[g] # Nil}})
FreeBundles == {n \in BundleNames : bundles[n] = Nil} \ Remembered
FreeGroups == {n \in GroupNames : groups[n] = Nil /\ cached[n] = Nil}

(* The bound is on what the cache does not show at one time.               *)
Unseen == {n \in BundleNames : bundles[n] # Nil /\ ~bundles[n].seen}
Visible == IF Cardinality(Unseen) < MaxUnseen THEN BOOLEAN ELSE {TRUE}

(* Only a change of the spec advances the generation.                      *)
SetSpec(n, phase, action, items) ==
  LET g == groups[n]
      new == phase # g.phase \/ action # g.action \/ items # g.items
  IN
  /\ groups' = [groups EXCEPT ![n] = [g EXCEPT !.phase = phase, !.action = action, !.items = items,
                                               !.observed = @ /\ ~new]]
  /\ agent' = IF new /\ agent[n] # Nil THEN [agent EXCEPT ![n].current = FALSE] ELSE agent
  /\ torn' = IF new THEN torn \ {g.owner} ELSE torn

CreateGroup(r, action, items) ==
  /\ FreeGroups # {}
  /\ \E n \in Random(FreeGroups) :
       groups' = [groups EXCEPT ![n] =
                    [owner |-> r, deleting |-> FALSE, finalizer |-> FALSE,
                     phase |-> "Ready", action |-> action, items |-> items,
                     observed |-> FALSE, status |-> "None"]]
  /\ torn' = torn \ {r}
  /\ UNCHANGED agent

(* A group the agent has seen has its finalizer.                           *)
GoneAtOnce(g) == Nil
AfterDelete(g) == IF g # Nil /\ g.finalizer THEN [g EXCEPT !.deleting = TRUE] ELSE Nil
DeleteNoGroup(ns) == UNCHANGED groups
DeleteGroups(ns) == groups' = [n \in GroupNames |-> IF n \in ns THEN AfterDelete(groups[n]) ELSE groups[n]]
DeleteBundles(ns) == bundles' = [n \in BundleNames |-> IF n \in ns THEN Nil ELSE bundles[n]]

(* The cache catches up.  It shows the groups as they were together at one  *)
(* time, since their changes reach it in order.                             *)
Sync ==
  \/ \E n \in BundleNames :
       /\ bundles[n] # Nil /\ ~bundles[n].seen
       /\ bundles' = [bundles EXCEPT ![n].seen = TRUE]
       /\ UNCHANGED <<groups, cached, staged, work, failures, agent, applied, history>>
  \/ /\ cached # groups
     /\ cached' = groups
     /\ UNCHANGED <<bundles, groups, staged, work, failures, agent, applied, history>>

-----------------------------------------------------------------------------
(* Steps of a call *)

Call(r, step, want) == work' = [work EXCEPT ![r] = [step |-> step, want |-> want,
                                                    todo |-> {k \in Indexes : want[k] # Nil},
                                                    items |-> <<>>]]
Goto(r, step) == work' = [work EXCEPT ![r].step = step]
Sweeping(r, step, items) == work' = [work EXCEPT ![r] = [Idle EXCEPT !.step = step, !.items = items]]
Return(r) == work' = [work EXCEPT ![r] = Idle]

(* Any call to the API server may fail and end the call it is part of.     *)
Fail(r) ==
  /\ work[r].step # "idle" /\ failures < MaxFailures
  /\ failures' = failures + 1
  /\ Return(r)
  /\ UNCHANGED <<bundles, groups, cached, staged, agent, applied, history>>

(* "this should never happen. If it ever happens recover by deleting all    *)
(* groups": whatever call, or question about the status, looks for the      *)
(* group of r.                                                              *)
LooksForGroup == {"idle", "mark", "staged", "group", "delete"}
RecoverGroups(r) ==
  /\ work[r].step \in LooksForGroup \ {"group"} \/ (work[r].step = "group" /\ work[r].todo = {})
  /\ Cardinality(Shown(r)) > 1
  /\ DeleteGroups(Shown(r))
  /\ Return(r)
  /\ swept' = swept \ {r}
  /\ UNCHANGED <<bundles, cached, staged, failures, agent, applied, pending, committed, torn, misled>>

RecoverBundles(r) ==
  /\ work[r].step \in {"stage", "group"}
  /\ \E k \in work[r].todo : /\ Cardinality(SeenAt(r, k)) > 1
                             /\ DeleteBundles(SeenAt(r, k))
  /\ Return(r)
  /\ torn' = IF work[r].step = "group" THEN torn \cup {r} ELSE torn
  /\ UNCHANGED <<groups, cached, staged, failures, agent, applied, pending, committed, swept, misled>>

(* reconcileConfigurationBundle for one of the indexes left, in any order.  *)
ReconcileBundle(r, k, n) ==
  /\ GoBy(r, BundleShown(r, k))
  /\ \/ /\ SeenAt(r, k) = {n}
        /\ bundles' = [bundles EXCEPT ![n].content = work[r].want[k]]
     \/ /\ SeenAt(r, k) = {} /\ FreeBundles # {} /\ n \in Random(FreeBundles)
        /\ \E seen \in Visible :
             bundles' = [bundles EXCEPT ![n] = [owner |-> r, index |-> k,
                                                content |-> work[r].want[k], seen |-> seen]]

(* reconcileConfigurationGroup: a group the agent still has to clean up is  *)
(* not touched.                                                             *)
ReconcileGroup(r, items) ==
  /\ GoBy(r, GroupShown(r))
  /\ \/ NoGroup(r) /\ CreateGroup(r, "Deploy", items)
     \/ CurrentGroup(r) /\ ~groups[TheGroup(r)].deleting /\ SetSpec(TheGroup(r), "Ready", "Deploy", items)

Refused(r) ==
  /\ OneGroup(r)
  /\ \/ work[r].step \in {"mark", "staged"} /\ ~CurrentGroup(r)
     \/ work[r].step = "group" /\ work[r].todo = {} /\ ~CurrentGroup(r)
     \/ work[r].step = "staged" /\ cached[TheGroup(r)].deleting
     \/ work[r].step = "group" /\ work[r].todo = {} /\ cached[TheGroup(r)].deleting
  /\ Return(r)
  /\ UNCHANGED <<bundles, groups, cached, staged, failures, agent, applied, history>>

(* deleteStaleConfigurationBundles deletes one after the other.            *)
NothingStale(r) == {}
Stale(r) == Seen(r) \ Names(work[r].items)
Sweep(r) ==
  /\ work[r].step \in {"sweep", "terminate"}
  /\ \/ /\ \E n \in Stale(r) : DeleteBundles({n})
        /\ UNCHANGED <<work, swept, misled>>
     \/ /\ Stale(r) = {} /\ work[r].step = "sweep"
        /\ Return(r)
        /\ swept' = swept \cup {r}
        /\ GoBy(r, StaleShown(r))
        /\ UNCHANGED bundles
     \/ /\ Stale(r) = {} /\ work[r].step = "terminate"
        /\ Goto(r, "delete")
        /\ GoBy(r, StaleShown(r))
        /\ UNCHANGED <<bundles, swept>>
  /\ UNCHANGED <<groups, cached, staged, failures, agent, applied, pending, committed, torn>>

-----------------------------------------------------------------------------
(* StageResourcesForDeployment, once or several times; then Commit or, if   *)
(* anything failed, Discard until it succeeds.                              *)

Stage(r, want) ==
  /\ "stage" \in Styles /\ work[r].step = "idle" /\ r \notin pending
  /\ Call(r, "mark", want)
  /\ pending' = pending \cup {r} /\ swept' = swept \ {r}
  /\ UNCHANGED <<bundles, groups, cached, staged, failures, agent, applied, committed, torn, misled>>

StillReady(n) == SetSpec(n, groups[n].phase, groups[n].action, groups[n].items)
Preparing(n) == SetSpec(n, "Preparing", groups[n].action, groups[n].items)

MarkConfigurationGroupAsPreparing(r) ==
  /\ work[r].step = "mark"
  /\ \/ NoGroup(r) /\ UNCHANGED <<groups, agent, torn>>
     \/ CurrentGroup(r) /\ Preparing(TheGroup(r))
  /\ GoBy(r, GroupShown(r))
  /\ Goto(r, IF work[r].todo = {} THEN "staged" ELSE "stage")
  /\ UNCHANGED <<bundles, cached, staged, failures, applied, pending, committed, swept>>

(* The write of the hash to the bundle's status may fail: the bundle is     *)
(* written, but not recorded as staged.                                     *)
StageBundle(r) ==
  /\ work[r].step = "stage"
  /\ \E k \in work[r].todo, n \in BundleNames :
       /\ ReconcileBundle(r, k, n)
       /\ \/ /\ staged' = [staged EXCEPT ![GeKey(r)] = Append(@, [name |-> n, hash |-> work[r].want[k]])]
             /\ \E next \in IF work[r].todo = {k} THEN {"staged"} ELSE {"stage", "mark"} :
                  work' = [work EXCEPT ![r].todo = @ \ {k}, ![r].step = next]
             /\ UNCHANGED failures
          \/ /\ failures < MaxFailures
             /\ failures' = failures + 1
             /\ Return(r)
             /\ UNCHANGED staged
  /\ UNCHANGED <<groups, cached, agent, applied, pending, committed, torn, swept>>

Cleared(r) == [staged EXCEPT ![GeKey(r)] = <<>>]

(* The answer to the write of the group may be lost: what was staged is     *)
(* then kept, although it is committed.                                     *)
CommitStagedResources(r) ==
  /\ work[r].step = "staged"
  /\ ReconcileGroup(r, staged[GeKey(r)])
  /\ committed' = [committed EXCEPT ![r] = work[r].want]
  /\ \/ /\ staged' = Cleared(r)
        /\ Sweeping(r, "sweep", staged[GeKey(r)])
        /\ pending' = pending \ {r}
        /\ UNCHANGED failures
     \/ /\ failures < MaxFailures
        /\ failures' = failures + 1
        /\ Return(r)
        /\ UNCHANGED <<staged, pending>>
  /\ UNCHANGED <<bundles, cached, applied, swept>>

DiscardStagedResources(r) ==
  /\ work[r].step = "idle" /\ r \in pending
  /\ \/ NoGroup(r) /\ Sweeping(r, "sweep", <<>>)
     \/ OneGroup(r) /\ Sweeping(r, "sweep", cached[TheGroup(r)].items)
  /\ GoBy(r, ItemsShown(r))
  /\ staged' = Cleared(r)
  /\ pending' = pending \ {r}
  /\ UNCHANGED <<bundles, groups, cached, failures, agent, applied, committed, torn, swept>>

-----------------------------------------------------------------------------
(* RecordResourcesForDeployment writes the bundles in place.               *)

Record(r, want) ==
  /\ "record" \in Styles /\ work[r].step = "idle" /\ r \notin pending
  /\ Call(r, "group", want)
  /\ swept' = swept \ {r}
  /\ UNCHANGED <<bundles, groups, cached, staged, failures, agent, applied, pending, committed, torn, misled>>

RecordBundle(r) ==
  /\ work[r].step = "group"
  /\ \E k \in work[r].todo, n \in BundleNames :
       /\ ReconcileBundle(r, k, n)
       /\ work' = [work EXCEPT ![r].todo = @ \ {k},
                               ![r].items = Append(@, [name |-> n, hash |-> work[r].want[k]])]
  /\ torn' = torn \cup {r}
  /\ UNCHANGED <<groups, cached, staged, failures, agent, applied, pending, committed, swept>>

RecordGroup(r) ==
  /\ work[r].step = "group" /\ work[r].todo = {}
  /\ ReconcileGroup(r, work[r].items)
  /\ Sweeping(r, "sweep", work[r].items)
  /\ committed' = [committed EXCEPT ![r] = work[r].want]
  /\ UNCHANGED <<bundles, cached, staged, failures, applied, pending, swept>>

-----------------------------------------------------------------------------
(* RemoveDeployedResources and TerminateDeploymentTracking *)

RemoveDeployedResources(r) ==
  /\ work[r].step = "idle"
  /\ \/ NoGroup(r) /\ CreateGroup(r, "Remove", <<>>)
     \/ CurrentGroup(r) /\ SetSpec(TheGroup(r), "Ready", "Remove", <<>>)
  /\ GoBy(r, GroupShown(r))
  /\ Sweeping(r, "sweep", <<>>)
  /\ committed' = [committed EXCEPT ![r] = Nil]
  /\ swept' = swept \ {r}
  /\ UNCHANGED <<bundles, cached, staged, failures, applied, pending>>

TerminateDeploymentTracking(r) ==
  /\ work[r].step = "idle"
  /\ Sweeping(r, "terminate", <<>>)
  /\ committed' = [committed EXCEPT ![r] = Nil]
  /\ swept' = swept \ {r}
  /\ UNCHANGED <<bundles, groups, cached, staged, failures, agent, applied, pending, torn, misled>>

(* The delete is of whatever version, but an error if the group is gone.    *)
DeleteConfigurationGroup(r) ==
  /\ work[r].step = "delete"
  /\ \/ NoGroup(r) /\ UNCHANGED groups
     \/ OneGroup(r) /\ DeleteGroups({TheGroup(r)})
  /\ GoBy(r, GroupShown(r))
  /\ Return(r)
  /\ swept' = IF OneGroup(r) /\ groups[TheGroup(r)] = Nil THEN swept ELSE swept \cup {r}
  /\ UNCHANGED <<bundles, cached, staged, failures, agent, applied, pending, committed, torn>>

(* The process restarts, and with it the staging area is lost.             *)
Restart ==
  /\ failures < MaxFailures
  /\ failures' = failures + 1
  /\ work' = [r \in Requestors |-> Idle]
  /\ staged' = [k \in Keys |-> <<>>]
  /\ pending' = {}
  /\ UNCHANGED <<bundles, groups, cached, agent, applied, committed, torn, swept, misled>>

-----------------------------------------------------------------------------
(* The agent: it takes a version of a group that is Ready, or one that is   *)
(* being deleted, sets its finalizer, reads the bundles later, and writes   *)
(* the status with the generation it has processed.                         *)

AgentFetch(n) ==
  LET g == groups[n] IN
  /\ g # Nil /\ agent[n] = Nil
  /\ g.deleting \/ (g.phase = "Ready" /\ (~g.observed \/ g.status = "Failed"))
  /\ agent' = [agent EXCEPT ![n] = [action |-> g.action, items |-> g.items,
                                    deleting |-> g.deleting, current |-> TRUE]]
  /\ groups' = [groups EXCEPT ![n].finalizer = TRUE]
  /\ UNCHANGED <<bundles, cached, staged, work, failures, applied, history>>

AgentReport(n, status) ==
  /\ groups' = [groups EXCEPT ![n].status = status, ![n].observed = agent[n].current]
  /\ agent' = [agent EXCEPT ![n] = Nil]

AgentProcess(n) ==
  LET a == agent[n]
      r == groups[n].owner
      names == Names(a.items)
  IN
  /\ a # Nil
  /\ \/ /\ a.deleting
        /\ applied' = [applied EXCEPT ![r] = {}]
        /\ groups' = [groups EXCEPT ![n] = Nil]
        /\ agent' = [agent EXCEPT ![n] = Nil]
     \/ /\ ~a.deleting /\ a.action = "Remove"
        /\ applied' = [applied EXCEPT ![r] = {}]
        /\ AgentReport(n, "Removed")
     \/ /\ ~a.deleting /\ a.action = "Deploy"
        /\ \A b \in names : bundles[b] # Nil
        /\ applied' = [applied EXCEPT ![r] = {<<bundles[b].index, bundles[b].content>> : b \in names}]
        /\ AgentReport(n, "Provisioned")
     \/ /\ ~a.deleting /\ a.action = "Deploy"
        /\ \E b \in names : bundles[b] = Nil
        /\ AgentReport(n, "Failed")
        /\ UNCHANGED applied
  /\ UNCHANGED <<bundles, cached, staged, work, failures, history>>

-----------------------------------------------------------------------------
GetStatusOfAnyGeneration(n) == IF cached[n].action = "Deploy" /\ cached[n].phase = "Ready"
                               THEN cached[n].status ELSE "Error"
(* GetDeploymentStatus once it has found the group, as the cache shows it:  *)
(* an error unless it is to be deployed and the agent's report, if there is *)
(* one, is on that generation (whose spec holds the requestor's hash).      *)
GetDeploymentStatus(n) ==
  LET g == cached[n] IN
  IF g.action = "Deploy" /\ g.phase = "Ready" /\ (g.status # "None" => g.observed)
  THEN g.status ELSE "Error"

-----------------------------------------------------------------------------
Steps(r) == \/ RecoverBundles(r) \/ Refused(r) \/ Sweep(r)
            \/ MarkConfigurationGroupAsPreparing(r) \/ StageBundle(r) \/ CommitStagedResources(r)
            \/ RecordBundle(r) \/ RecordGroup(r) \/ DeleteConfigurationGroup(r)

Next == \/ \E r \in Requestors : \/ \E want \in Wants : Stage(r, want) \/ Record(r, want)
                                 \/ DiscardStagedResources(r)
                                 \/ RemoveDeployedResources(r)
                                 \/ TerminateDeploymentTracking(r)
                                 \/ RecoverGroups(r)
                                 \/ Steps(r)
                                 \/ Fail(r)
        \/ \E n \in GroupNames : AgentFetch(n) \/ AgentProcess(n)
        \/ Sync
        \/ Restart

(* A requestor goes on with its call and, when one has failed, tries again; *)
(* it asks for the status until the work is done.  The agent processes what *)
(* it has fetched, and the cache catches up.                                *)
Fairness == /\ \A r \in Requestors : /\ WF_vars(Steps(r))
                                     /\ SF_vars(RecoverGroups(r))
                                     /\ SF_vars(DiscardStagedResources(r))
            /\ \A n \in GroupNames : WF_vars(AgentFetch(n)) /\ WF_vars(AgentProcess(n))
            /\ WF_vars(Sync)

Spec == Init /\ [][Next]_vars
FairSpec == Spec /\ Fairness

-----------------------------------------------------------------------------
TypeOK ==
  /\ DOMAIN bundles = BundleNames /\ DOMAIN groups = GroupNames /\ DOMAIN agent = GroupNames
  /\ \A n \in BundleNames : bundles[n] # Nil => bundles[n] \in Bundle
  /\ \A n \in GroupNames : groups[n] # Nil => groups[n] \in Group
  /\ DOMAIN cached = GroupNames /\ \A n \in GroupNames : cached[n] # Nil => cached[n] \in Group
  /\ \A n \in GroupNames : agent[n] # Nil => agent[n] \in Version /\ groups[n] # Nil
  /\ staged \in [Keys -> Items]
  /\ work \in [Requestors -> [step : LooksForGroup \cup {"stage", "sweep", "terminate"},
                              want : Wants \cup {Nil}, todo : SUBSET Indexes, items : Items]]
  /\ failures \in 0..MaxFailures
  /\ applied \in [Requestors -> SUBSET (Indexes \X Contents)]
  /\ pending \subseteq Requestors /\ torn \subseteq Requestors /\ swept \subseteq Requestors
  /\ misled \subseteq Requestors
  /\ committed \in [Requestors -> Wants \cup {Nil}]

Available(n) == groups[n] # Nil /\ groups[n].phase = "Ready" /\ groups[n].action = "Deploy" /\ ~groups[n].deleting

(* What the safety properties speak of: the requestors that share the key   *)
(* of the staging area with no other, until the cache misleads them.        *)
Alone(r) == \A s \in Requestors : GeKey(s) = GeKey(r) => s = r
Sound(r) == Alone(r) /\ r \notin misled

(* What the agent can fetch is exactly what was staged and committed in one *)
(* go, with the hashes of what the bundles contain: nothing of a staging    *)
(* that failed or was lost, nothing that a clean up has already deleted.    *)
(* TerminateDeploymentTracking deletes the bundles before the group, which  *)
(* stays Ready: from then on (committed is Nil) bundles may be missing, and *)
(* those that are not still have the content the group lists.               *)
AvailableIsCommitted ==
  \A n \in GroupNames :
    LET r == groups[n].owner
        items == groups[n].items
    IN
    Available(n) /\ Sound(r) /\ r \notin torn =>
      /\ \A i \in DOMAIN items :
           IF bundles[items[i].name] = Nil THEN committed[r] = Nil
           ELSE bundles[items[i].name].content = items[i].hash
      /\ committed[r] # Nil =>
           {<<bundles[b].index, bundles[b].content>> : b \in Names(items)} = Pairs(committed[r])

(* When GetDeploymentStatus says Provisioned of a group that is not being   *)
(* deleted, the managed cluster has what was last committed, although the   *)
(* agent reads the bundles after the group and while they are overwritten.  *)
(* An older version of a group, which the cache shows until it catches up,  *)
(* still reports on the commit it was of, and so does a group of which the  *)
(* requestor has deleted the bundles (committed is Nil).                    *)
ProvisionedIsCommitted ==
  \A n \in GroupNames :
    LET r == cached[n].owner IN
    cached[n] # Nil /\ ~cached[n].deleting /\ GetDeploymentStatus(n) = "Provisioned"
      /\ cached[n] = groups[n] /\ Sound(r) /\ committed[r] # Nil /\ r \notin torn
      => applied[r] = Pairs(committed[r])

(* No bundle is left behind by a call that went through.                   *)
NoOrphans ==
  \A r \in swept : Sound(r) /\ work[r].step = "idle" =>
    Owned(bundles, r) \subseteq UNION {Names(groups[n].items) : n \in Owned(groups, r)}

(* "This should never happen": two groups of a requestor, or two bundles of *)
(* one of its indexes.  Failures and restarts alone do not lead there, nor  *)
(* a group that is still being deleted; a cache that misled it may.         *)
DuplicatesOnlyIfMisled ==
  \A r \in Requestors \ misled :
    /\ \A n, m \in Owned(groups, r) : n = m
    /\ \A a, b \in Owned(bundles, r) : bundles[a].index = bundles[b].index => a = b

(* Of two groups of a requestor that the cache has caught up with, neither  *)
(* stays: the recovery ends, with the help of the agent, even though the    *)
(* requestor goes on.                                                       *)
DuplicatesGo == \A r \in Requestors : []<>(Cardinality(Shown(r)) <= 1)

(* A staging that went wrong does not stay: Discard gets through, although  *)
(* it returns an error while there are duplicates.                          *)
StagingEnds == \A r \in Requestors : []<>(r \notin pending)

-----------------------------------------------------------------------------
(* What a comment of the code says and it does not keep. *)

(* "All ConfigurationBundles currently not referenced by ConfigurationGroup *)
(* will be discarded": no clean up deletes one that is listed by the one    *)
(* group the requestor has, which the agent can fetch.  Discard does, whose *)
(* cache shows no group yet, or an older version of it.                     *)
DiscardKeepsReferenced ==
  [][\A r \in Requestors, n \in GroupNames :
       work[r].step = "sweep" /\ Sweep(r) /\ Owned(groups, r) = {n} /\ Available(n) =>
         \A b \in Names(groups[n].items) : bundles[b] # Nil => bundles'[b] # Nil]_vars
=============================================================================
