---------------------------- MODULE ClusterCache ----------------------------
(***************************************************************************)
(* lib/clustercache: the cache of rest.Config, REST mapper and discovery   *)
(* client of every managed cluster, shared by the goroutines of a          *)
(* controller.  A miss is resolved under the write lock from the           *)
(* SveltosCluster (or CAPI Cluster), the Secret with its kubeconfig or the *)
(* workload identity cache, which change meanwhile.  The controller that   *)
(* owns the cache hears of such changes later, as events, and then calls   *)
(* RemoveCluster or RemoveSecret.  Calls for an admin bypass the cache.    *)
(***************************************************************************)
EXTENDS Naturals, FiniteSets

CONSTANTS Clusters,    \* object references of clusters
          Secrets,     \* Secrets with a kubeconfig
          CapiSecret,  \* Secret of each CAPI cluster, named after it
          Specs,       \* specs a SveltosCluster may have: [mode, secret]
          Callers,     \* goroutines that use the cache
          MaxVersion,  \* bound on the versions of a Secret
          MaxTokens,   \* bound on the identity tokens obtained
          None

Modes == {"kubeconfig", "pull", "identity"}

ASSUME ClusterCacheAssumption ==
  /\ DOMAIN CapiSecret \subseteq Clusters
  /\ CapiSecret \in [DOMAIN CapiSecret -> Secrets]
  /\ Specs \subseteq [mode : Modes, secret : Secrets]
  /\ MaxVersion \in Nat \ {0} /\ MaxTokens \in Nat
  /\ None \notin Secrets /\ None \notin Specs /\ None \notin Callers

CapiClusters == DOMAIN CapiSecret
CapiSpec(c) == [mode |-> "kubeconfig", secret |-> CapiSecret[c]]
SpecsOf(c) == IF c \in CapiClusters THEN {CapiSpec(c)} ELSE Specs

(* What a rest.Config was built from: a version of a Secret, a token, or,  *)
(* for a cluster in pull mode, nothing (the config is nil).                *)
Config == [kind : {"kubeconfig"}, secret : Secrets, version : 1..MaxVersion]
          \cup [kind : {"token"}, secret : {None}, version : 1..MaxTokens]
          \cup [kind : {"pull"}, secret : {None}, version : {0}]
Kubeconfig(s, v) == [kind |-> "kubeconfig", secret |-> s, version |-> v]
Token(t) == [kind |-> "token", secret |-> None, version |-> t]
NilConfig == [kind |-> "pull", secret |-> None, version |-> 0]
NotCached == [kind |-> "none", secret |-> None, version |-> 0]

Idle == [step |-> "idle", want |-> "config", cluster |-> None, mode |-> None, config |-> NotCached]

VARIABLES
  \* The management cluster
  spec,          \* spec of each cluster, None once it is deleted
  version,       \* version of each Secret's kubeconfig
  wiCache,       \* token in the workload identity cache of each cluster, 0 if none
  minted,        \* number of tokens obtained from the cloud provider
  clusterEvents, \* clusters whose last change the controller has not handled
  secretEvents,  \* Secrets whose last change the controller has not handled
  \* clusterCache
  rwMux,         \* the caller that holds the write lock, or None
  configs, mappers, cachedDiscoveryClient, \* per cluster, NotCached if no entry
  clusters,      \* Secret recorded for each cluster, None if no entry
  secrets,       \* clusters recorded for each Secret, {} if no entry
  \* Clusters whose config a caller stored when it was out of date already, or
  \* for which the Secret it was built from has no record of the cluster
  unguarded,
  \* The goroutines
  call,          \* what each caller is doing
  panicked       \* a nil mapper or discovery client was dereferenced

apiVars == <<spec, version, wiCache, minted, clusterEvents, secretEvents>>
cacheVars == <<configs, mappers, cachedDiscoveryClient, clusters, secrets, unguarded>>
vars == <<apiVars, rwMux, cacheVars, call, panicked>>

Init == /\ spec \in [Clusters -> UNION {SpecsOf(c) : c \in Clusters}]
        /\ \A c \in Clusters : spec[c] \in SpecsOf(c)
        /\ version = [s \in Secrets |-> 1]
        /\ wiCache = [c \in Clusters |-> 0]
        /\ minted = 0
        /\ clusterEvents = {} /\ secretEvents = {}
        /\ rwMux = None
        /\ configs = [c \in Clusters |-> NotCached]
        /\ mappers = [c \in Clusters |-> NotCached]
        /\ cachedDiscoveryClient = [c \in Clusters |-> NotCached]
        /\ clusters = [c \in Clusters |-> None]
        /\ secrets = [s \in Secrets |-> {}]
        /\ unguarded = {}
        /\ call = [p \in Callers |-> Idle]
        /\ panicked = FALSE

Cached(m, c) == m[c] # NotCached

-----------------------------------------------------------------------------
(* The management cluster changes; the controller will hear of it. *)

UpdateCluster(c, sp) ==
  /\ spec[c] # sp
  /\ spec' = [spec EXCEPT ![c] = sp]
  /\ clusterEvents' = clusterEvents \cup {c}
  /\ UNCHANGED <<version, wiCache, minted, secretEvents, rwMux, cacheVars, call, panicked>>

UpdateSecret(s) ==
  /\ version[s] < MaxVersion
  /\ version' = [version EXCEPT ![s] = @ + 1]
  /\ secretEvents' = secretEvents \cup {s}
  /\ UNCHANGED <<spec, wiCache, minted, clusterEvents, rwMux, cacheVars, call, panicked>>

-----------------------------------------------------------------------------
(* Eviction.  Each of these holds the write lock for one step. *)

Without(m, cs) == [c \in Clusters |-> IF c \in cs THEN NotCached ELSE m[c]]
OnlyConfigWithout(m, cs) == m

Evict(cs) ==
  /\ configs' = Without(configs, cs)
  /\ mappers' = Without(mappers, cs)
  /\ cachedDiscoveryClient' = Without(cachedDiscoveryClient, cs)
  /\ clusters' = [c \in Clusters |-> IF c \in cs THEN None ELSE clusters[c]]
  /\ unguarded' = unguarded \ cs

(* updateSecretMap: the Secret recorded for the cluster forgets it. *)
UpdateSecretMap(c) == [s \in Secrets |-> IF s = clusters[c] THEN secrets[s] \ {c} ELSE secrets[s]]

RemoveCluster(c) ==
  /\ rwMux = None
  /\ Evict({c})
  /\ secrets' = UpdateSecretMap(c)
  /\ clusterEvents' = clusterEvents \ {c}
  /\ UNCHANGED <<spec, version, wiCache, minted, secretEvents, rwMux, call, panicked>>

NoClusterOf(s) == {}
ClustersOf(s) == secrets[s]

(* The entry of the Secret itself stays. *)
RemoveSecret(s) ==
  /\ rwMux = None
  /\ Evict(ClustersOf(s))
  /\ secretEvents' = secretEvents \ {s}
  /\ UNCHANGED <<spec, version, wiCache, minted, clusterEvents, rwMux, secrets, call, panicked>>

(* The API server of c rejected the credentials of p, which evicts c and    *)
(* then, without the lock, its token in the workload identity cache.        *)
InvalidateOnAuthError(p, c) ==
  /\ call[p] = Idle /\ rwMux = None
  /\ Evict({c})
  /\ secrets' = UpdateSecretMap(c)
  /\ call' = [call EXCEPT ![p].step = "evict", ![p].cluster = c]
  /\ UNCHANGED <<apiVars, rwMux, panicked>>

EvictWorkloadIdentityCache(p) ==
  /\ call[p].step = "evict"
  /\ wiCache' = [wiCache EXCEPT ![call[p].cluster] = 0]
  /\ call' = [call EXCEPT ![p] = Idle]
  /\ UNCHANGED <<spec, version, minted, clusterEvents, secretEvents, rwMux, cacheVars, panicked>>

(* The config corresponds to the cluster and its Secret. *)
UpToDate(config, c) ==
  /\ spec[c] # None
  /\ CASE config.kind = "kubeconfig" -> /\ spec[c].mode = "kubeconfig"
                                        /\ config = Kubeconfig(spec[c].secret, version[spec[c].secret])
       [] config.kind = "token" -> spec[c].mode = "identity"
       [] OTHER -> spec[c].mode = "pull"

(* A caller replaces the cached config, and that alone, with one it built   *)
(* from a Secret the cluster has or had, as the Secret is or was.           *)
StoreRestConfig(c) ==
  /\ rwMux = None
  /\ \E sp \in SpecsOf(c) : \E v \in 1..version[sp.secret] :
       LET config == Kubeconfig(sp.secret, v) IN
       /\ sp.mode = "kubeconfig"
       /\ configs' = [configs EXCEPT ![c] = config]
       /\ unguarded' = IF UpToDate(config, c) /\ c \in secrets[sp.secret]
                         THEN unguarded \ {c} ELSE unguarded \cup {c}
  /\ UNCHANGED <<apiVars, rwMux, mappers, cachedDiscoveryClient, clusters, secrets, call, panicked>>

(* Reset and Invalidate only drop what the mapper and the discovery client  *)
(* have learnt, but those of a cluster in pull mode are nil.                *)
ResetMapper(c) ==
  /\ rwMux = None
  /\ mappers[c] = NilConfig
  /\ panicked' = TRUE
  /\ UNCHANGED <<apiVars, rwMux, cacheVars, call>>

InvalidateDiscoveryClient(c) ==
  /\ rwMux = None
  /\ cachedDiscoveryClient[c] = NilConfig
  /\ panicked' = TRUE
  /\ UNCHANGED <<apiVars, rwMux, cacheVars, call>>

-----------------------------------------------------------------------------
(* GetKubernetesRestConfig, and GetMapper and GetCachedDiscoveryClient that *)
(* look for their object first, get the config if it is missing, and look   *)
(* again.                                                                   *)

Goto(p, step) == call' = [call EXCEPT ![p].step = step]
Return(p) == call' = [call EXCEPT ![p] = Idle]
AfterConfig(p) == IF call[p].want = "config" THEN Return(p) ELSE Goto(p, "fetch")
Holding(p, config) == call' = [call EXCEPT ![p].step = "store", ![p].config = config]

Start(p, c, want) ==
  /\ call[p] = Idle
  /\ call' = [call EXCEPT ![p] = [step |-> IF want = "config" THEN "lookup" ELSE "peek",
                                  want |-> want, cluster |-> c, mode |-> None, config |-> NotCached]]
  /\ UNCHANGED <<apiVars, rwMux, cacheVars, panicked>>

Wanted(p) == IF call[p].want = "mapper" THEN mappers ELSE cachedDiscoveryClient

Peek(p) ==
  /\ call[p].step = "peek" /\ rwMux = None
  /\ \/ Cached(Wanted(p), call[p].cluster) /\ Return(p)
     \/ ~Cached(Wanted(p), call[p].cluster) /\ Goto(p, "lookup")
  /\ UNCHANGED <<apiVars, rwMux, cacheVars, panicked>>

(* A miss keeps the lock and reads the cluster, which may be gone; so may   *)
(* what any later read asks for, or the API server may fail.                *)
Lookup(p) ==
  LET c == call[p].cluster IN
  /\ call[p].step = "lookup" /\ rwMux = None
  /\ \/ /\ Cached(configs, c)
        /\ AfterConfig(p)
        /\ UNCHANGED rwMux
     \/ /\ ~Cached(configs, c)
        /\ Return(p)
        /\ UNCHANGED rwMux
     \/ /\ ~Cached(configs, c) /\ spec[c] # None
        /\ rwMux' = p
        /\ call' = [call EXCEPT ![p].step = "resolve", ![p].mode = spec[c].mode]
  /\ UNCHANGED <<apiVars, cacheVars, panicked>>

LockKept(p) == p
Unlocked(p) == None

(* The name of the Secret: a SveltosCluster is read once more to find it.  *)
HasSecret(c) == c \in CapiClusters \/ spec[c] # None
SecretOf(c) == IF c \in CapiClusters THEN CapiSecret[c] ELSE spec[c].secret

ResolveKubeconfig(p) ==
  LET c == call[p].cluster IN
  /\ call[p].step = "resolve" /\ call[p].mode = "kubeconfig"
  /\ \/ /\ HasSecret(c)
        /\ Holding(p, Kubeconfig(SecretOf(c), version[SecretOf(c)]))
        /\ UNCHANGED rwMux
     \/ /\ Return(p)
        /\ rwMux' = Unlocked(p)
  /\ UNCHANGED <<apiVars, cacheVars, panicked>>

ResolvePullMode(p) ==
  /\ call[p].step = "resolve" /\ call[p].mode = "pull"
  /\ Holding(p, NilConfig)
  /\ UNCHANGED <<apiVars, rwMux, cacheVars, panicked>>

(* The token is the one in the workload identity cache, or a new one; the  *)
(* cloud provider may refuse.                                              *)
ResolveIdentity(p) ==
  LET c == call[p].cluster IN
  /\ call[p].step = "resolve" /\ call[p].mode = "identity"
  /\ \/ /\ wiCache[c] # 0
        /\ Holding(p, Token(wiCache[c]))
        /\ UNCHANGED <<wiCache, minted, rwMux>>
     \/ /\ minted < MaxTokens
        /\ minted' = minted + 1
        /\ wiCache' = [wiCache EXCEPT ![c] = minted']
        /\ Holding(p, Token(minted'))
        /\ UNCHANGED rwMux
     \/ /\ Return(p)
        /\ rwMux' = Unlocked(p)
        /\ UNCHANGED <<wiCache, minted>>
  /\ UNCHANGED <<spec, version, clusterEvents, secretEvents, cacheVars, panicked>>

NotIndexed(c, s) == secrets
IndexSwapped(c, s) == [secrets EXCEPT ![s] = @ \cup {s}]
IndexUnder(c, s) == [secrets EXCEPT ![s] = @ \cup {c}]

(* The Secret to record is looked up a last time; without one, the config   *)
(* is returned but not cached.                                              *)
Store(p) ==
  LET c == call[p].cluster
      config == call[p].config
  IN
  /\ call[p].step = "store"
  /\ \/ /\ HasSecret(c)
        /\ configs' = [configs EXCEPT ![c] = config]
        /\ mappers' = [mappers EXCEPT ![c] = config]
        /\ cachedDiscoveryClient' = [cachedDiscoveryClient EXCEPT ![c] = config]
        /\ clusters' = [clusters EXCEPT ![c] = SecretOf(c)]
        /\ secrets' = IndexUnder(c, SecretOf(c))
        /\ unguarded' = unguarded \ {c}
     \/ c \notin CapiClusters /\ UNCHANGED cacheVars
  /\ AfterConfig(p)
  /\ rwMux' = Unlocked(p)
  /\ UNCHANGED <<apiVars, panicked>>

(* GetMapper and GetCachedDiscoveryClient fail if nothing is there.        *)
Fetch(p) ==
  /\ call[p].step = "fetch" /\ rwMux = None
  /\ Return(p)
  /\ UNCHANGED <<apiVars, rwMux, cacheVars, panicked>>

TakesLock(p) == Peek(p) \/ Lookup(p) \/ Fetch(p)
HoldsLock(p) == ResolveKubeconfig(p) \/ ResolvePullMode(p) \/ ResolveIdentity(p) \/ Store(p)

Next == \/ \E c \in Clusters : \/ \E sp \in SpecsOf(c) \cup {None} : UpdateCluster(c, sp)
                               \/ RemoveCluster(c)
                               \/ StoreRestConfig(c)
                               \/ ResetMapper(c)
                               \/ InvalidateDiscoveryClient(c)
        \/ \E s \in Secrets : UpdateSecret(s) \/ RemoveSecret(s)
        \/ \E p \in Callers : \/ \E c \in Clusters, want \in {"config", "mapper", "discovery"} :
                                   Start(p, c, want)
                              \/ \E c \in Clusters : InvalidateOnAuthError(p, c)
                              \/ EvictWorkloadIdentityCache(p)
                              \/ TakesLock(p)
                              \/ HoldsLock(p)

(* A goroutine that is not blocked goes on, and sync.RWMutex lets one that *)
(* waits for the lock have it in the end.                                  *)
Fairness == \A p \in Callers : /\ WF_vars(HoldsLock(p))
                               /\ WF_vars(EvictWorkloadIdentityCache(p))
                               /\ SF_vars(TakesLock(p))

Spec == Init /\ [][Next]_vars
FairSpec == Spec /\ Fairness

-----------------------------------------------------------------------------
TypeOK ==
  /\ \A c \in Clusters : spec[c] \in SpecsOf(c) \cup {None}
  /\ version \in [Secrets -> 1..MaxVersion]
  /\ wiCache \in [Clusters -> 0..MaxTokens]
  /\ minted \in 0..MaxTokens
  /\ clusterEvents \subseteq Clusters /\ secretEvents \subseteq Secrets
  /\ rwMux \in Callers \cup {None}
  /\ configs \in [Clusters -> Config \cup {NotCached}]
  /\ mappers \in [Clusters -> Config \cup {NotCached}]
  /\ cachedDiscoveryClient \in [Clusters -> Config \cup {NotCached}]
  /\ clusters \in [Clusters -> Secrets \cup {None}]
  /\ secrets \in [Secrets -> SUBSET Clusters]
  /\ unguarded \subseteq Clusters
  /\ call \in [Callers -> [step : {"idle", "peek", "lookup", "resolve", "store", "fetch", "evict"},
                           want : {"config", "mapper", "discovery"},
                           cluster : Clusters \cup {None},
                           mode : Modes \cup {None},
                           config : Config \cup {NotCached}]]
  /\ panicked \in BOOLEAN

(* A cluster with a mapper has a discovery client, a config and a recorded  *)
(* Secret that leads back to the cluster, so that whatever evicts it evicts *)
(* all of it, in any order of calls.                                        *)
MapsAgree ==
  \A c \in Clusters :
    /\ mappers[c] = cachedDiscoveryClient[c]
    /\ Cached(mappers, c) <=> clusters[c] # None
    /\ Cached(mappers, c) => Cached(configs, c) /\ c \in secrets[clusters[c]]

(* A cached config no longer corresponds to the cluster and its Secret only *)
(* while the event that will evict it is pending: a change of mode, of      *)
(* Secret name or of kubeconfig that falls between two reads of a miss is   *)
(* not missed, and the index of the Secrets leads to every config built     *)
(* from one.  StoreRestConfig may break this: what it stores out of date, or *)
(* for a cluster that is not in the index of its Secret, no event need      *)
(* evict (unguarded); such configs are left out until they are evicted.     *)
OutOfDateOnlyUntilEvent ==
  \A c \in Clusters \ unguarded :
    Cached(configs, c) =>
      UpToDate(configs[c], c) \/ c \in clusterEvents \/ configs[c].secret \in secretEvents

(* Every call returns: no error path keeps the lock, and GetMapper does not *)
(* wait for itself.                                                         *)
CallsReturn == \A p \in Callers : []<>(call[p].step = "idle")

=============================================================================
