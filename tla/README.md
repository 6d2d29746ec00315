# Verification of libsveltos

libsveltos is the library the Sveltos controllers share. This directory holds
TLA+ models of the parts of it that keep state which several goroutines,
controllers or clusters change, TLC configurations that check the models on
small instances, and TLAPS proofs for every value of the constants.
`PROJECT.json` lists, for every definition, the lines of code it stands for.

1. [Inventory](#1-inventory)
2. [Modules and how they correspond to the code](#2-modules-and-how-they-correspond-to-the-code)
3. [Runs: what is checked, and what it shows](#3-runs-what-is-checked-and-what-it-shows)
4. [Disagreements between comments and code](#4-disagreements-between-comments-and-code)
5. [Proofs](#5-proofs)
6. [Assumptions](#6-assumptions)
7. [What is not modelled](#7-what-is-not-modelled)
8. [Plan](#8-plan)

To repeat a check: `tlc -config Deployer.cfg MCDeployer.tla`, and
`tlapm DeployerProofs.tla`.

## 1. Inventory

### Parts with the core logic

**Deployer queue** (`lib/deployer/worker.go`, `client.go`). A singleton with one
mutex over `dirty`, `inProgress`, `jobQueue` and `results`, shared by all
controllers of a process and served by `numOfWorker` goroutines. Controllers call
`Deploy`, `GetResult`, `IsInProgress` and `CleanupEntries`, with the namespace, name
and type of a cluster, an applicant and a feature (the key), and poll for the
result. Workers take a request, run its handler without the mutex, and store the
result; a key requested again during its run is put back on the queue. *Hard:*
everything that can happen to a key between `TakeRequest` and `StoreResult`,
several requests of a key, options that change, starvation. *Correct when* no
accepted request is lost or reported wrongly, every request is run, and a result
answers the last request.

**Cluster cache** (`lib/clustercache`). Five maps behind one `RWMutex`: rest
config, mapper and discovery client per cluster, the Secret of each cluster, the
clusters of each Secret. A miss is resolved under the write lock by several reads
of the API server (`lib/clusterproxy`), or by obtaining a token for the workload
identity cache, which has locks of its own. Controllers evict a cluster or a
Secret when they hear of a change, and on a 401. *Hard:* the cluster and the Secret
change between the reads of one miss; two caches evicted without a common lock;
nested locking; errors under the lock. *Correct when* the maps agree, no change is
missed for good, and every call returns.

**Workload identity** (`lib/clusterproxy/workload_identity.go`). A cache of configs
whose credentials come from a cloud provider, with the expiry of the token and a
hash of the spec; callers that miss at the same time share one *flight*
(singleflight) that reads the CA and gets a token. *Hard:* a flight against an eviction
or a change of the spec; the flight's key has no spec in it; expiry, of which the
cluster cache in front knows nothing. *Correct when* a caller gets a config of the
spec it has read, an expired one is replaced, and changes take over.

**Pull mode** (`lib/pullmode`). For clusters the management cluster cannot reach: a
requestor (a controller acting for, say, a ClusterSummary) writes
`ConfigurationBundle`s and one `ConfigurationGroup` that references them, and the
agent in the managed cluster fetches, deploys and reports. Staging spans several
calls (`Stage…`, then `Commit…` or `Discard…`), whose progress is kept in memory
(`stagedManager`). *Hard:* any API call may fail half way through, the process may
restart, the client's cache may lag, and the agent reads the group and, later, the
bundles, at any time. *Correct when* the agent can fetch only what one call
committed, a status of Provisioned means that, nothing is left behind, and
recovery ends.

**Resource ownership** (`lib/deployer/applier.go`, `utils.go`, `conflicts.go`,
`clean.go`). Annotations on each deployed resource name the profile, its tier, and
the ConfigMap or Secret (with its tier) it is deployed for. A profile reads the
resource, decides whether it may take it over, and later applies it with the
resourceVersion it read; stale resources are deleted, or stripped of their
annotations. *Hard:* others, or another run for the same profile, change the resource
between the decision and the write; tiers; recreation of a resource; resources of old releases. *Correct when*
a write never overwrites what it would not have been allowed to, and the profile
that comes first ends up as the owner.

**Selecting clusters** (`lib/predicates`, the lists of `lib/clusterproxy`). A profile
lists the clusters its selector matches, of two kinds, and acts on those that are not
paused; it runs again only when a predicate passes an event on. Whether Cluster API is
there is probed once and kept in two variables. *Hard:* a field that a list looks at
and no predicate; a change during a list; goroutines in the first probe. *Correct when* a
profile at rest has acted on the clusters that are its own, and on no others.

**Shared objects** (`lib/sharding`, `lib/roles`, `lib/sveltos_upgrade`,
`lib/deployer/drift_detection_utils.go`, `lib/licenses`). Five objects that several
controllers get, change and write back: the shards of the clusters, the kubeconfig
Secret of several RoleRequests, an agent's version, a ResourceSummary, and the
license Secret, whose type is migrated by deleting and creating it. *Hard:* two
writers; answers that are lost; a crash between delete and create; errors that are
dropped. *Correct when* nil means done, nobody's entries are lost, who changes a shard
is told, and a license survives. What a license says is a function of its
dates, its grace period, its fingerprint and the clock.

### Other parts

| Part | State | Operations | Why not modelled |
|---|---|---|---|
| CRD watcher (`lib/crd/watcher.go`) | nothing; a reflector | list, watch, notify | keeps nothing; a CRD deleted while the watch is down is never reported as deleted |
| Log settings (`lib/logsettings`) | log level | events of an informer | the last event wins |
| Patcher (`lib/patcher`) | a mutex around kustomize | patch objects | data; `filterPatchOperations` judges `remove` paths on the object before any patch, so that two patches which remove one path still fail |
| Templates, funcmap, Lua, CEL, resource diff, mgmtagent, randutils, telemetry, notifications | none that is shared | functions of their arguments, or I/O | pure, or I/O |
| `lib/crd/*.go`, `manifests`, `config`, `api` | – | generated YAML, Go types | – |
| `lib/deployer/fake`, `internal` | – | what tests use | – |

### How the parts interact

```
 events of clusters ── predicates ─▶ controllers ◀── lists of clusters, paused, ready ── cluster access
                                         │
     ┌── Deploy/GetResult ─▶ deployer queue ── handler (worker goroutine) ─┐
     │                                                                     ▼
 controllers                                            resource ownership (applier, clean)
     ├──────── Remove* ───────▶ cluster cache ── config, mapper ─▶   │ push mode: API server
     │                              │ miss                           │ of the managed cluster
     │                              ▼                                │
     │                 cluster access, workload identity             │ pull mode
     ├──────── Stage, Commit, Record, Remove ─▶ pull mode ─▶ bundles, groups ◀── agent
     └──────── register, create, store, migrate ─▶ shared objects in the API server
```

The queue knows nothing of what a handler does, and the ownership protocol goes by
the API server's resource versions, not by the queue: the queue may run a key twice
at once (section 4), and other processes write to the same clusters. That is why
these parts are modelled one by one, each with the others as an environment that
does whatever it may. The composition that matters, the cluster cache in front of the
cache for workload identity, is in both modules: `ClusterCache` has all maps and one
token that may be rejected, `WorkloadIdentity` one map and all of the other's states.

## 2. Modules and how they correspond to the code

### `WorkRequests` and `Deployer`

`WorkRequests` is what the queue promises: a set of pending keys, the number of
runs of each key, the outcome held for each key. A pending key leaves only by being
run or withdrawn, and the outcome of a run is dropped only when the key is pending
again.

`Deployer` is the implementation. `dirty`, `inProgress`, `jobQueue`, `results` and
`features` are the fields of `deployer` (the slice `inProgress` is kept as the number
of occurrences of each key); `params[w]` is what worker `w` is running. Every method
of `DeployerInterface` holds the mutex throughout and is one action; `GetResult` that
finds no result changes nothing and is the operator `GetRequestStatus`. A worker has
`TakeRequest` (the locked part of its loop), whose handler runs until `StoreResult`,
and `Stop` once the context is `Cancel`led. A key that does not split into its parts
fails without a call of the handler (`MalformedTargets`). `asked`, `overtaken`,
`outdated` and `parallel` are history: what the last `Deploy` of a key carried, which
runs and results are older than it, and which keys two workers have run at once; no
action reads them. `ImplementsLedger` is the refinement, with
`pending <- dirty \cup QueuedKeys`. The ledger's `Withdraw` leaves nothing, as the interface
promises of `CleanupEntries`; the steps in which the code leaves a request of a key queued
twice (`LeavesARequest`) are no steps of it, and are excepted by name.

### `ClusterCache`

The five maps and the lock are variables of their names. A config is what it was built
from: a version of a Secret's kubeconfig, a token, or the nil config of a cluster in
pull mode. `GetKubernetesRestConfig`, `GetMapper` and `GetCachedDiscoveryClient` are a
`call` that goes through `peek` (the first look under the read lock), `lookup` (the
second, which on a miss keeps the write lock), `resolve` (by mode), `store` and `fetch`
(the look that follows in the last two). The cluster is read in `Lookup` and again to
find the name of its Secret in `ResolveKubeconfig` and in `Store`, as in the code, and
`UpdateCluster` and `UpdateSecret` may come between any two of these reads. Any read may
find nothing or fail; the call then returns with the lock released. A change leaves an
event pending until `RemoveCluster` or `RemoveSecret`. `InvalidateOnAuthError` evicts
the cluster, and in a second step without the lock the token. `StoreRestConfig` stores a config
that its caller built before, from a Secret the cluster has or had, as that was then; `unguarded`
remembers the clusters for which it was out of date or not in the index of its Secret.

### `WorkloadIdentity`

One cluster: `wiCache` is its entry (`specHash` is the spec itself), `flight` the call
of `wiGroup` in flight, `held` and `lock` what `lib/clustercache` has for the cluster and
who holds its write lock. `left` is the time to the expiry of a token, and `Tick` lets it
pass for all configs there are, between any two steps. A caller reads the spec
(`GetCluster`), tries the entry (`Load`), begins or joins the flight (`Do`), and the
flight reads the CA (`GetCAData`), gets and stores the token (`GetToken`) and answers all
that wait (`EndFlight`). `CachedCallers` come through the cluster cache, which keeps the
lock meanwhile and stores what it gets (`Store`), or nothing if the cluster cannot be read once
more. `Use` is a request. If the token has expired it is answered 401, and then
`InvalidateOnAuthError` evicts both caches, one after the other; but with a spec or a CA that are
not the current ones there may be no HTTP answer at all, for the handshake or the dial fails, and then
nothing is evicted. Users edit, delete and recreate the cluster, which is pending in `changed` until
`HandleChange`, whose second step, for a deleted cluster (`leaving`), evicts the token without the
lock; they rotate the CA, of which nobody hears. `joined` is history: the
config came from the flight of another.

### `PullMode`

`bundles` and `groups` are the objects in the API server. The client reads from a cache, and
writes with the version it has read: a bundle has a flag `seen` when the cache shows it, and
`cached` is the groups as the cache shows them, which may be an older version of them, or none yet,
until `Sync`. An update of an older version meets a conflict (`Refused`); deletes go through.
`staged` is the `stagedManager`. A call of a requestor is a
record `work[r]` that goes through the steps of the function it models, one action per
call to the API server: `mark`, `stage` for each index, `staged`, then on commit the
group and `sweep` (`deleteStaleConfigurationBundles`, one deletion per step); `group`
for `RecordResourcesForDeployment`; `terminate`, `delete`. `Fail` ends a call at any
step, `Restart` ends all and forgets `staged`. When two groups, or two bundles of an
index, are seen, the code deletes them all and returns an error: `RecoverGroups`,
`RecoverBundles`. The answer to a commit may be lost. `GetDeploymentStatus` reads the cache, too. The agent (external; modelled from the fields and statuses the library
reads) takes a version of a group that is Ready (`AgentFetch`) and reads its bundles and
reports later (`AgentProcess`); a report counts for the group only if the version it
processed is still current (`observedGeneration`).

Of the history, `misled` has the requestors that once went by a cache that did not show what they
looked for: that they have a group (`GroupShown`), what their group lists (`ItemsShown`), their
bundle of an index (`BundleShown`), or the bundles to sweep (`StaleShown`). A cache that lags on other
objects, that has caught up by the time it is read, or on a version with which the write only meets a
conflict, misleads no one. The safety properties are of requestors that are `Sound`: not misled, and with a
key of the staging area that no other shares (`Alone`). `committed` is Nil once
`TerminateDeploymentTracking` or `RemoveDeployedResources` has begun.

### `ResourceOwnership`

One resource and its annotations: `owner`, `tier`, `ref` and `refTier`, and `ownerRef`,
which objects of releases before the annotations have instead. A *claim* is a reference
of a profile to a ConfigMap or Secret that contains the resource. `CanDeployResource`
judges the conflict (`ValidateObjectForUpdate`, `HasHigherOwnershipPriority`) and
records the resourceVersion in the call; `UpdateResource` applies later. Calls belong to
*runs*, and any number of runs may act for one profile: its features and its clean up are
different keys of the queue, and the queue may also handle one key twice at a time (section 4). A
resourceVersion is abstracted to what the API server does with it: none, that of the
object there now, or an older one, which any change (`Change`, `Outdated`) makes of it. For a CRD
the version is read again (`UpdateCRD`). A rejected write may recreate the resource
(`RecreateResource`, `WaitUntilGone`, then the `patch` step). `UndeployStaleResource` and
`HandleResourceDelete` withdraw it. `Reference`, `Touch` and `Finalize` are the users and
other controllers. `Apply` is the write of the object; `applySubresources`
(`applier.go:706-713`), a second forced apply, to the subresources and without a resourceVersion, is part
of that step: the API server takes no annotations from it, and ownership goes by these. What it writes
to a subresource may so overwrite that of a profile that took the object over in between, of which the
properties do not speak.

### `ClusterSelection`

`clusters` is the informer's cache: each cluster of either kind has the fields that the
lists and predicates look at, and `UpdateCluster` changes one of them. `Passes` is the
predicates, field by field as in `lib/predicates`; an event that passes puts all profiles
into `queued`. A reconcile is a list in steps (the probe of Cluster API, the CAPI
clusters, the SveltosClusters) and then `Act`, which deploys to those of its `selected`
clusters that are not paused. `LoadChecked`, `GetCRD`, `StorePresent` and `LoadPresent` are
the atomic operations of `isCAPIPresent`. `Restart` is a crash, or the restart when Cluster
API is installed; `Pollers` are callers of `GetListOfClusters`. `misled` (who was told that
Cluster API is absent while it is watched) and `overlooked` (clusters that came, or came
out of the pause, with `paused` unset) are history.

### `License` and `SharedObjects`

`License` is the verdict as an operator: `VerifyLicenseSecret(get, now, nsRead)`, of what the
read of the Secret answers (a license with one or both of its keys, or `Nil` for NotFound and any other
error), of its dates, grace period, signature (one bit) and fingerprint, and of whether the namespace that
identifies the cluster can be read; beside `ExpectedVerdict`, what the fields are documented to mean.

`SharedObjects` has one object, of the five kinds `part` tells apart, as a partial
function of its entries; an operation writes some entries and removes some. What
the components do differently is in the operators: whether they compare before they write
(`Compares`), what they do with an object that is missing (`StepIfMissing`) or cannot be
read (`StepIfFailed`), what they create (`Initial`), and what follows (`StepAfterCreate`,
`StepAfterDelete`). `Read`, `Create`, `Update` and `Delete` are one request each, which may
fail, or be carried out with its answer lost; a process may `Crash` at any of them.
`current` says whose copy has the resourceVersion of the object, which `Update` compares
and `Delete` does not. `InstallLicense`, `RenewLicense` and `RemoveLicense` are the users.
`RegisterClusterShard` answers what it found with its error, too. After `CalmDown` there are no more
requests and failures. `done`, `installed` and `mishap` are history. A license is read as it is in the API server
(`LicenseRead`), or through the addon-controller's cache, which has Secrets of one type only
(`ScopedRead`).

### MC modules and proof modules

`MCDeployer`, `MCClusterCache`, `MCWorkloadIdentity`, `MCPullMode`, `MCResourceOwnership`,
`MCClusterSelection` and `MCSharedObjects` extend these and define the constants that a
`.cfg` cannot write; each module `X` with theorems has them in `XProofs`.

## 3. Runs: what is checked, and what it shows

Each property has a mutant, a plausible slip in the code of a definition, that the
run catches (`PROJECT.json`, `mutants`).

| Run | Module | States | Time |
|---|---|---|---|
| `deployer` | `MCDeployer` | 152,345 | 90 s |
| `cluster_cache` | `MCClusterCache` | 396,648 | 1 min |
| `workload_identity` | `MCWorkloadIdentity` | 412,168 | 2 min |
| `pull_mode` | `MCPullMode` | 963,175 | 2 min |
| `pull_mode_lag` | `MCPullMode` | 613,757 | 3 min |
| `resource_ownership` | `MCResourceOwnership` | 491,411 | 3 min |
| `cluster_selection` | `MCClusterSelection` | 683,710 | 40 s |
| `shared_objects` | `MCSharedObjects` | 774,702 | 2 min |

Those that end in a counterexample are in section 4.

### Queue

`deployer` (two workers; one target and one feature, which give two keys, its deployment
and its clean up; two parameters; `MaxQueue` 2). The `inProgress` slice always counts
exactly the running workers (`InProgressIsRunners`); a request that waits is queued,
unless its key runs, with the parameters last asked for (`DirtyIdleIsQueuedAsAsked`); it
is reported as in progress, never as finished or unknown (`DirtyIsReportedInProgress`);
what is in progress becomes unavailable only if the caller cleans up (`NeverForgotten`); a
result is never that of a run older than the last `Deploy`, but for keys that two workers
have run at once (`ResultIsCurrent`); and the ledger is implemented (`ImplementsLedger`), but for the
clean up of a key queued twice (`deployer_cleanup`, section 4).
Two workers and two keys are enough for a key to run twice, to be requested in its run and
to be queued twice, with another key before and behind it. `MaxQueue` stops `Deploy`, not
the requeue, so the queue gets longer than that. No target is malformed here: such a key is one
whose handler only fails. Every request is taken up and no key stays dirty
(`EveryRequestIsRun`). Fairness is weak and on workers only: a worker polls every
second and handlers return, while nothing makes a controller call or the process stop. A
controller that calls `Deploy` or `CleanupEntries` for ever may not starve another.

### Cluster cache

`cluster_cache` (one SveltosCluster that may change among three modes and two Secrets, two
versions of each, one caller, one token). `MapsAgree`: a cluster with a mapper has the other
entries, and its Secret leads back to it. `OutOfDateOnlyUntilEvent`: a config that does
not correspond to the cluster and its Secret any more has the event that evicts it
pending, unless it is one `StoreRestConfig` filed out of date or
outside the index of its Secret (section 4). `CallsReturn`: no path keeps the lock, nor waits for itself. Clusters do not share
entries except in `secrets`, and misses exclude one another, so that one caller against
the environment has the interleavings of a miss; the theorems hold for any number.
Fairness: a goroutine that can run does, and one that waits for the lock gets it in the
end (`SF` on the steps that take it), as `sync.RWMutex` promises.

### Workload identity

`workload_identity` (two specs, two CAs, two callers of which one comes
through the cluster cache; a token lives two ticks, and is usable from the cache before the first; the
tick may come before anyone has used it).
`OldSpecOnlyWhenJoined`: a caller gets a config of the spec it read, unless it joined a
flight. `HeldIsOfTheSpec`: once the last change of a cluster is handled, the cluster cache holds
nothing of an earlier spec, again unless a caller joined. `CallsReturn`: no error path keeps
the lock of the cluster cache or a caller of the flight. `ExpiredIsReplaced`: a config
whose token has expired, which the cluster cache does not notice, goes by way of a 401, as
long as it is used and its spec and CA are current, so that there is an answer. `ChangesTakeOver`: when
specs and CAs stop changing, everyone who does not come through the cluster cache ends up
with the current ones, though the CA is rotated without an event and an old spec may come back
from a flight: the expiry of the tokens is what ends it. For the cluster cache that cannot be said: a config
with the CA of before a rotation is never answered 401 and stays (a hazard without a property), and one
of an earlier spec may, by way of a joined flight (section 4). Callers beyond two would
join the same flight; what is left of a token matters only by being above the threshold, at it, or nothing.
Fairness is weak: time passes, the flight (calls of cloud providers) answers or fails,
goroutines run, and the controller handles events. Nobody has to call.

### Pull mode

`pull_mode` (two indexes, two contents, staged and committed, one failure or restart, a cache
that may not show one bundle, or shows an older version of the groups). `AvailableIsCommitted`: a group the
agent may fetch lists exactly what one call committed, and bundles with these contents; once
`TerminateDeploymentTracking`, which deletes the bundles before the group, has begun, some may be missing
and the others have the contents listed. `ProvisionedIsCommitted`: if `GetDeploymentStatus` says
Provisioned of a group that is neither being deleted nor withdrawn, in the version the API server has, the
managed cluster has what was committed last. An older version, which the cache may show just after a
commit, still speaks of the commit before. `NoOrphans`: a call that went through leaves no bundle
that no group lists. The constraint `Followed` keeps TLC from
going on once a requestor is misled, unless nothing has failed and the agent has not come yet, which is
enough for it to meet the duplicates: the properties say no more of it, and what it leaves behind
would use up the names. `OneLag`: the cache lags in its bundles or in its groups, and in both only while a
call ends; the proofs have neither bound. Bundle names are random strings the code checks
for collisions, so they are symmetric, and one that is not referred to any more can be taken
for a new one; four serve two bundles of a commit and two of its successor. One failure is
enough to stop a call at any step and go on with any other; the failure, not their number,
is what leads to a new state. One requestor, since requestors share nothing but the
staging area, and that only in the case of section 4; the theorems are for any number.
`DuplicatesOnlyIfMisled`: a second group, or a second bundle of an index, "should
never happen" (`utils.go:543`), and a requestor that was not misled does not get one: a group the agent
still cleans up after, for instance, is not taken for gone. The requestor of this run stages; that
`RecordResourcesForDeployment`, whose group is `torn` while it runs, keeps these properties is
proved, and its steps run in `pull_mode_lag`.

`pull_mode_lag` (one index, staged and recorded; the cache may show the groups as they were, and does not
hide bundles). The lag makes the code
create a second group. `DuplicatesGo`: of two groups that are seen, neither stays.
`StagingEnds`: a staging is committed or discarded in the end, though `Discard` returns an
error while there are duplicates. Fairness: a requestor goes on with a call (`WF`) and, as the
controllers requeue on errors, tries `Discard` and the status again and again (`SF`); the agent
and the cache go on. No failures here: a call that fails for ever shows nothing.

### Ownership

`resource_ownership` (three profiles, three claims of two tiers, and all kinds of objects to
start with, two changes by others). `DecisionsHold`: a write by a claim that was judged on
an object overwrites one only if the claim beats it, and who loses it is the one the caller
was told to requeue. `LeavesOnlyItsOwn`: `LeavePolicies` takes off only the caller's
annotations. `FirstOwns`: while the object stays, the profile of the lowest tier, if it
wants the object, ends up as the owner and remains it. Three profiles: one that wins, one
that loses, with two references of different tiers and two runs, which may deploy both, or
withdraw while the other deploys, and one whose object is there from the start. Two changes
let a reference be withdrawn and made again, or the object be touched. Fairness: as long as a
profile has something to deploy, one of its runs tries again (`SF`), a call returns (`WF`), and a write
that is possible again and again succeeds once (`SF`; a controller that changed the object in
every window between read and write would prevent it for ever). `CHECK_DEADLOCK FALSE`: a system
with everything deployed and no changes left stops.

### Selecting clusters

`cluster_selection` (a profile and a poller; one cluster at a time, of either kind; all
values of its fields). `NoClusterMissed`: a profile that is neither queued nor running has
acted on every cluster that matches it, is ready and not paused, with two exceptions: a CAPI
cluster that came with `paused` unset, or went from true to unset, for the predicates
want an explicit false; and CAPI clusters of a profile that was misled about Cluster API.
`OnlyUnreadyOrDeletedLinger`: conversely, what it holds on to matches, but for a CAPI
cluster that is no longer ready and a cluster whose deletion has begun.
`MisledOnlyByFirstCheck`: `isCAPIPresent` is wrong only for who comes between the two stores
of another's first check. Clusters do not depend on one another, nor profiles, so that one
of each is enough (`MaxClusters` counts those that are gone but still held as well), and the poller is the second goroutine in `isCAPIPresent`.

### Shared objects

`shared_objects` (two processes; each of five objects, with two names and two values for
what they contain). `OkMeansDone`: a call that returned nil has seen,
or made, the object as it was asked; excepted are `UnregisterClusterShard` and `DeleteSecret`, which
drop the error of a read. `OnlyOwnPart`: no write takes away or restores what another process
has written since it read, but for a `Delete` of an object changed since; the kubeconfig counts as the
last owner's. `ChangeIsTold`: a call whose write replaced a shard answers true, with nil or, when the
answer to the write was lost, with the error; and (true, nil) is answered by no other, so that of several
callers that bring one change, one is told without an error. It does not say that a change is told to somebody
who got nil: that is not so (section 4). `Settles`: once requests and
failures end (`calm`), retries succeed, conflicts among them notwithstanding. Fairness is weak, on
the steps of a call and its retry. `CHECK_DEADLOCK FALSE`: when calm, all calls end.
Two processes: one whose copy is current, one whose copy is not.

Of the license Secret (two processes that migrate it, users, five licenses around the boundaries of the
dates, of this cluster, of another and of any, one forged and one without a signature; the migration
creates at most twice, where the code has five attempts):
`LicenseSurvives`: when nobody works, the license users installed is there, unless a migration
crashed or gave up between its delete and its create, lost the answer to its delete, or deleted a
license renewed since. `VerdictAsDated`: with the same exceptions, whoever reads the Secret while no
migration is between its delete and its create judges the license that users installed last by what it
says and by the time. The exceptions to that: the instant of expiration and the grace period of licenses of
other clusters, who reads through the scoped cache before the migration, and an error to read the
namespace, when the license names a cluster.

## 4. Disagreements between comments and code

Of four, which take several actors and steps, a run has TLC find the counterexample.

| Run | The comment | What the code does |
|---|---|---|
| `deployer_parallel` | worker.go:46-48: a request is "never process more than once in parallel" | `storeResult` requeues a key and removes it from `dirty`; the next `Deploy` queues it again, and two workers run it |
| `deployer_cleanup` | request_interface.go:117-118: `CleanupEntries` "removes any entry (from any internal data structure)" | of a key that is queued twice, one request stays, and is run |
| `pull_mode_discard` | apis.go:263-264: bundles "currently not referenced by ConfigurationGroup will be discarded" | `Discard` goes by the group its cache shows; after a commit that it does not show yet, it deletes the bundles that were just committed |
| `resource_ownership_crd` | applier.go:169-170: an object modified since the decision makes the update fail | `updateCRD` reads the resourceVersion again, so a CRD is overwritten whoever has taken it over |

The others are exceptions that the properties name, as what holds is the property but for them, or
follow from reading a line or two. They have no run of their own:

- `lib/deployer/client.go:118`, "Update JobQueue has options might have changed": the options of a
  `Deploy` made during a run find no queued request, and the one that `storeResult` puts back has the
  old ones. `DirtyIdleIsQueuedAsAsked` speaks of keys that are not running.
- `lib/clustercache/cluster_cache.go:125`, evicts all data "plus the underlying workload-identity cache
  entry": a miss between the two evictions caches the rejected token again. The next 401 evicts it
  (`ExpiredIsReplaced`).
- `lib/clustercache/cluster_cache.go:106`, `RemoveSecret` "removes any in-memory data related to secret":
  it goes by the index, in which `StoreRestConfig` (330) does not enter the config it stores, and which
  may be of whatever the caller built earlier. `OutOfDateOnlyUntilEvent` leaves these configs out
  (`unguarded`), until they are evicted.
- `lib/clusterproxy/workload_identity.go:93`, the hash detects a changed spec "so a stale cached
  rest.Config is not reused": the flight (138) goes by the cluster alone. Who has read the new spec joins that
  of the old one, and the cluster cache keeps what it gets (`joined`).
- `lib/clusterproxy/cluster_utils.go:601`, "returns whether clusterAPI CRDs are present. This is checked
  only once": `checkedCAPIPresence` is stored before `capiPresent`; who calls in between is told that they are
  absent, and leaves all CAPI clusters out. `MisledOnlyByFirstCheck` says that it is only then.
- `lib/sharding/utils.go:76`, returns "whether the cluster:shard pair has changed": when the update is
  carried out and its answer lost, the call answers (true, err), as it does when nothing was written, and the
  retry (false, nil). `ChangeIsTold` is about the first answer.
- `lib/sharding/utils.go:110`, "so stale entries do not accumulate": an error to read the ConfigMap other
  than NotFound is dropped (148); nil is returned, and the entry stays. `OkMeansDone` excepts it (`blind`).
- `lib/roles/roles.go:110`, "If no more OwnerReferences are left, deletes secret": the Delete has no
  precondition, and an owner that came since the Secret was listed loses it. `OnlyOwnPart` excepts a
  Delete from an outdated copy.
- `lib/licenses/license.go:168`, in grace is "expired but within grace period": `verifyExpirationDate`
  (359, 365) asks Before and After, so that at the very instant of expiration a license is enforced
  (`AtExpiration`).
- `lib/clustercache/cluster_cache.go:190`, "Either all internal structures are updated or none
  is": `StoreRestConfig` (line 338) caches a config alone, and `GetMapper` then fails until the
  cluster is evicted.
- `lib/pullmode/apis.go:216`: kind, name and feature identify the requestor, but the key of the
  staging area (`manager.go:50`) leaves the kind out: a commit of one requestor publishes bundles
  of another. The properties speak of requestors with a key of their own (`Alone`).
- `lib/predicates/clusters.go:90`: a CAPI cluster leaves the pause unnoticed if `paused` becomes
  nil, which `isCAPIClusterPaused` takes for not paused.
- `lib/licenses/license.go:391`: the fingerprint is compared only while a license is valid, so
  that of another cluster is enforced, then, when it expires, in grace.
- `lib/licenses/license.go:280`, "Nothing changed yet … safe to retry": not if the delete was
  carried out and its answer lost.
- `lib/roles/roles.go:119`: `DeleteSecret` drops the error of its list, and returns nil with nothing done.
- `lib/roles`: the labels that find a Secret again do not have the type of the cluster.

## 5. Proofs

All are checked by `tlapm` to the last leaf, for any finite or infinite sets of keys,
clusters, callers, profiles and so on (the queue: any finite pool of workers) and any
bound. They rest on the named assumptions of the modules (`DeployerAssumption`,
`ClusterCacheAssumption`, `WorkloadIdentityAssumption`, `PullModeAssumption`,
`ResourceOwnershipAssumption`, `ClusterSelectionAssumption`, `LicenseAssumption`,
`SharedObjectsAssumption`, `NilAssumption`), which TLC evaluates in each run: types of the
constants, finiteness of `Workers`, that entries of different kinds have different names, and
that `None` or `Nil` is none of the values it stands for the absence of.

### `DeployerProofs`

`IInv` is the conjunction of `TypeOK`, `InProgressIsRunners`,
`DirtyIdleIsQueuedAsAsked` and `NoResultIfDirty` (a dirty key has no result).
`DirtyIsReportedInProgress` is not inductive: with a dirty key in the queue, it holds only if no
result is kept for it, which is what `NoResultIfDirty` adds, and `storeResult` preserves
that only since it drops the outcome of a key found dirty. `InProgressIsRunners` is
needed for `StoreResult`, whose removal from `inProgress` must find an entry. The lemmas
say what each helper makes of a queue; `CleanedQueue` and `TakenQueue`, that a request
of another key is still in it. `TypesCorrect`, `RunnersCounted`, `RequestsNotLost`,
`DirtyReported` and `DeployerNeverForgets` follow. `DeployerImplementsLedger` is the refinement:
initial states map to initial states, and each step to a step of the ledger, a stutter, or the
named exception.
`ResultsCurrent` has an invariant of its own: an overtaken run has its key in `dirty`, so that
`StoreResult` drops its outcome, unless another worker has taken that key since, and then
the key is in `parallel`. With one worker `parallel` stays empty.

### `ClusterCacheProofs`

`IInv` has the types and the lock (`LockOK`: the lock is held exactly by the call in
`resolve` or `store`), `MapsAgree`, `EntriesFit` and `CallsFit`. `EntriesFit` is
`OutOfDateOnlyUntilEvent` made precise: as long as no event of the cluster is pending, a config that
is not `unguarded` (one that `StoreRestConfig` filed out of date, or under a Secret that does not list the
cluster; no event need evict it) has the mode and the Secret of its spec, the version of the Secret unless
an event of that is pending, and the cluster in the index of the Secret. `CallsFit` says the same of what a call has read so far
and not stored yet. It is inductive because of the lock: a change between two reads of a
miss leaves its event pending until the miss is over, since `RemoveCluster` and
`RemoveSecret` wait for the lock, so that the entry stored is either right or evicted
later. `RemoveSecret` keeps its own entry in `secrets`, so `MapsAgree`
says that a cluster with an entry is in that of its Secret, not the reverse. `OneWriter`,
`TypeCorrect`, `MapsAlwaysAgree` and `NoChangeIsMissed` follow.

### `WorkloadIdentityProofs`

The invariant follows a config on its way: `CacheFits` (the entry's config is of the spec
whose hash it has), `FlightFits` (the flight's, of the spec it began with), `CallFits` (a caller
that waits has joined, or waits for a flight of its own spec) and `LockFits`: who resolves a miss of
`lib/clustercache` holds its lock and, unless a change is pending, has read the current spec.
`LockFits` is why `HeldIsOfTheSpec` is inductive: no change is handled between a caller's read of
the spec and its store, since the handler waits for the lock. `TypeCorrect`, `AnswersItsSpec` and
`HeldOfTheSpec` follow.

### `PullModeProofs`

`Finalized` (what the agent processes has its finalizer, so the group stays) makes the types of
`TypeCorrect` inductive. `CommittedInOneGo` (`AvailableIsCommitted`), `StatusIsOfTheCommitted`
(`ProvisionedIsCommitted`) and `NothingLeftBehind` (`NoOrphans`) hold whichever bundles the cache hides,
whatever earlier version of the groups it shows, and however keys are shared, of the requestors that are
`Sound`, and whatever those that are not do beside them. The first also speaks of a requestor that
terminates, as far as it goes: bundles may be missing by then, but none has other contents than its group lists.
The second is about the current version of a group; nothing is proved of the status of an older one.
The invariant is `RInv(r)` for each sound requestor, about what belongs to it: at most one group and one
bundle for each index (`OneEach`), lists that name only its own bundles (`Mine`), what has been
staged or recorded so far is exactly what was asked, less what is left to do (`StagingFits`,
`RecordFits`), a sweep spares what the group lists (`SweepFits`, `EndFits`), a group that is Ready
lists what was committed (`GroupFits`), and a report that counts is about that (`ReportFits`).
`StagingFits` also says that the group is Preparing while bundles are staged, which is what lets
the bundles be overwritten at all. `CacheFits` is about the cache: a group it shows belongs to the
requestor of the group that has the name now (`SameGroup`), and of a sound requestor it shows one
(`OneShown`). So a decision on an older version is about the same group, and its write, which
carries that version, conflicts.

Two things carry the proof. `StepOf(r)` is what a step of one requestor, or of the agent for it, may
change: its own bundles and group, names that nothing refers to, its call and the staging area of its
key. `StepAside`, `StepOnBundles`, `StepOnGroups` and `StepOfAgent` show that every step is one, also of
a requestor that is misled, and `Others` that such a step keeps the invariant of every sound requestor
but `r`. So each action has one requestor to be proved for (the lemmas `Kept…`, joined by `Stepped`).
And `r \notin misled'` gives each of these what it needs: the decision was made on all there is.

`NoDuplicates` (`DuplicatesOnlyIfMisled`) needs nothing of this, nor a key of one's own: `Moves` says that a step
makes at most one bundle and one group appear, and only where its requestor saw none.

### `ResourceOwnershipProofs`

`IInv` has the types and `Sound` of every call: a version that is current is that of the
object the decision was made on, so the claim beats the object that is there now and
its owner is the one that was told; one that withdraws owns it; and a call that saw an
object has a version, so that its write is checked. Any change by another call makes
a current version an old one (`OutdatedSound`, `ChangeSound`), which is why `Sound` is
inductive for any number of profiles and of runs for each: nothing here needs the queue. `OptimisticLock` (`DecisionsHold`), `MarksOfOthersStay`
(`LeavesOnlyItsOwn`) and `TypeCorrect` follow.

### `ClusterSelectionProofs`

The invariant says, for a profile that no event has queued, how much of its list is right at
each step of its reconcile: `ListFits`, `SelectionFits`, `DeploymentFits`. It is kept because an
event that no predicate passes on changes nothing that matters, but for what the properties
name: that is the lemmas `Unheard…`, which go through the fields of both kinds of clusters, and
are where the predicates meet the lists. `WorldFits` (without Cluster API there are no
clusters of its kind) and `PresenceFits` (the two variables, once both stores are done, agree with
what is watched) give `WrongOnlyBetweenStores`. `NothingMissed` and `LingersOnlyAsKnown` follow, for any
number of clusters and profiles.

### `SharedObjectsProofs`

`IInv` has the types (`Typed`: an object has only entries of its kind) and of each call
`CallSelf` (its copy is typed; `done` is set if the object is as asked) and `CurrentIsObject`: a
process with the current version that is about to write has the object itself as its copy.
Every change of the object makes all copies outdated, so this is inductive for any number of
processes, and gives `WritesOwnPartOnly`, `ChangeAnswersTrue` and `OkIsDone`. `LicenseKept` needs
`LicenseInv` in addition: without a mishap, the installed license is in the object, or
a migration that will create it is under way. `JudgedAsDated` rests on both and on the lemma
`VerdictOf`, which goes through the checks of `License` for a license that is there: by the invariant, the
Secret that is read, and of the type that the cache shows, is the license that was installed last.

### Only model-checked

Liveness (`EveryRequestIsRun`, both `CallsReturn`, `ExpiredIsReplaced`,
`ChangesTakeOver`, `DuplicatesGo`, `StagingEnds`, `FirstOwns`, `Settles`), which the prover does not
reach under fairness. Every invariant and every action property of a passing run is proved. Conversely,
what is proved of `Record` (`AvailableIsCommitted`, `ProvisionedIsCommitted`, `NoOrphans`) no run checks.

## 6. Assumptions

- Controllers call `RemoveCluster` and `RemoveSecret` for every change they hear of,
  and hear of it in the end. Calls for an admin bypass the cache and are left out.
- Clients of the queue other than the controllers of the process do not exist; the queue
  is not persisted, and after a restart the controllers ask again.
- A 401 is the answer to an expired token if the endpoint and the CA of the config are current; with
  others there is no answer. Who gets a 401 calls `InvalidateOnAuthError`.
- A requestor follows the protocol its comments give: several `Stage…`, then `Commit…`
  or, after an error, `Discard…` until it succeeds, then the next staging. One
  process at a time acts for a requestor.
- `AvailableIsCommitted`, `ProvisionedIsCommitted` and `NoOrphans` say nothing of a requestor from the
  moment it was misled, nor of one that shares its key. A requestor is misled when it deletes
  bundles by an older version of its group (`pull_mode_discard` shows what comes of that), makes a bundle
  or a group while the cache hides one, or ends a clean up without having seen all there is.
- The groups the cache shows are those of one moment, not one old and another new. `cached` is
  what any read of them sees, that of `GetDeploymentStatus` included.
- `RecordResourcesForDeployment` overwrites bundles in place. While it does, and after it
  has failed, its group is `torn`, and these two properties say nothing of it.
- The agent takes Ready groups, reads the bundles later, and reports the generation it
  has processed; it sets a finalizer on what it takes.
- The API server compares resourceVersions, and may take as long as it likes over
  finalizers. Other controllers do not change the same object in every window.
- A resource that did not exist when it was judged has no version to compare, so
  what is created meanwhile is overwritten by the forced apply; `DecisionsHold` is about
  objects that were seen.
- Profiles requeue on errors, list all clusters of their selector and read the same informer's
  cache that the events come from. When Cluster API is installed, the components are restarted,
  as the comment of `isCAPIPresent` says.
- A read of `SharedObjects` is of the object as it is in the API server. The clients read most kinds
  from a cache; a stale copy is then like one that another process has overtaken, whose write
  conflicts, but an operation that stops after its read, since there seems nothing to do, may be wrong
  (a hazard without a property).
- The objects of `SharedObjects` do not depend on one another. A license Secret has the same
  name in both types.

## 7. What is not modelled

The parts of the second table in section 1. Within the modelled parts: splitting and hashing of YAML,
drift exclusions, dry run and reports, the namespace that is created first (`lib/deployer`); the
options that fill fields of a group (`lib/pullmode/setters.go`) and getters that only read; selection
by CEL, trust bundles and versions of clusters, clients beyond their config (`lib/clusterproxy`);
`IsShardAMatch` and the checks of versions, which compare one string; metrics and logging.

The models stand for some 3,750 of the 25,500 lines, and there is not much more to gain. More
than 10,700 lines are generated: the YAML in `lib/crd` and the copies in `api`. The other large ones
are Go types, and pure functions of strings and documents (templates, Lua, CEL, resource diff, names
of keys, parsing of kubeconfigs), which keep no state that others change; tables of cases test
them well, and a model of them would be a transcript. The code in which the order of steps
matters is in the modules above.

Hazards met while reading that no property covers, besides those of `PROJECT.json`:

- `lib/sharding/utils.go:100`: a caller that stops before it has acted on a change of shard is not
  told of it again.
- `lib/pullmode/apis.go:331`: `RemoveDeployedResources` does not clear the staging area, so that a commit
  without a discard first publishes names of bundles it deleted; the model discards first.
- `lib/clustercache/cluster_cache.go:285`: a mapper cached for a cluster in pull mode is nil, and `Reset`
  on it panics (the model records it, `panicked`, and forbids nothing).
- `lib/deployer/clean.go:142`: the delete of a stale resource has no precondition, so it removes an object
  that another profile has taken over since it was listed.
- `lib/deployer/client.go:64`: `GetClient` publishes the singleton before
  `startWorkloadWorkers` has made its maps, and others check it without the lock.
- `lib/mgmtagent/utils.go:49`: entries are recognised by a prefix, which may be that of
  another name.
- `lib/deployer/worker.go:251`: `jobQueue` has no bound; a key requested in each run is
  queued again by each.
- `lib/pullmode/apis.go:259`: after `Discard` the group stays Preparing, so the agent does
  not fetch it until the next commit.

## 8. Plan

Done, in this order, the most important behaviour first: `WorkRequests`, `Deployer` with its
refinement and proofs; `ClusterCache` with its proofs; `PullMode`; `ResourceOwnership` with its
proofs; `WorkloadIdentity`, `ClusterSelection`, `License` and `SharedObjects`, each with its proofs;
`PullModeProofs`. To come:

| What | States | Rests on |
|---|---|---|
| the ledger for pull mode | an abstract module of what a requestor wants, what is available and what is applied, which `PullMode` implements with `committed` and `applied` | `CommittedInOneGo`, `StatusIsOfTheCommitted` |
