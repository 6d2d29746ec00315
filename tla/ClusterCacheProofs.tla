-------------------------- MODULE ClusterCacheProofs --------------------------
(***************************************************************************)
(* Theorems about ClusterCache, for any clusters, Secrets, specs, any      *)
(* number of callers and any bounds.                                       *)
(***************************************************************************)
EXTENDS ClusterCache, TLAPS

USE ClusterCacheAssumption

-----------------------------------------------------------------------------
AnySpec == Specs \cup {CapiSpec(c) : c \in CapiClusters}

Call == [step : {"idle", "peek", "lookup", "resolve", "store", "fetch", "evict"},
         want : {"config", "mapper", "discovery"},
         cluster : Clusters \cup {None},
         mode : Modes \cup {None},
         config : Config \cup {NotCached}]

(* What a call knows at each step. *)
CallOK(w) == /\ w \in Call
             /\ w.step # "idle" => w.cluster \in Clusters
             /\ w.step = "store" => w.config \in Config

ApiOK ==
  /\ spec \in [Clusters -> AnySpec \cup {None}]
  /\ \A c \in Clusters : spec[c] \in SpecsOf(c) \cup {None}
  /\ version \in [Secrets -> 1..MaxVersion]
  /\ wiCache \in [Clusters -> 0..MaxTokens]
  /\ minted \in 0..MaxTokens
  /\ clusterEvents \subseteq Clusters /\ secretEvents \subseteq Secrets

CacheOK ==
  /\ configs \in [Clusters -> Config \cup {NotCached}]
  /\ mappers \in [Clusters -> Config \cup {NotCached}]
  /\ cachedDiscoveryClient \in [Clusters -> Config \cup {NotCached}]
  /\ clusters \in [Clusters -> Secrets \cup {None}]
  /\ secrets \in [Secrets -> SUBSET Clusters]
  /\ unguarded \subseteq Clusters

(* The write lock is held from the read of the cluster to the update of the *)
(* maps, by one call at a time.                                             *)
LockOK ==
  /\ rwMux \in Callers \cup {None}
  /\ \A p \in Callers : rwMux = p <=> call[p].step \in {"resolve", "store"}

CallsOK == call \in [Callers -> Call] /\ \A p \in Callers : CallOK(call[p])

TInv == ApiOK /\ CacheOK /\ LockOK /\ CallsOK /\ panicked \in BOOLEAN

(* A config that corresponds to the spec of c, and to the version of the   *)
(* Secret unless an event for the Secret is pending.                        *)
Fits(config, c) ==
  /\ spec[c] # None
  /\ config.kind = "pull" => spec[c].mode = "pull"
  /\ config.kind = "token" => spec[c].mode = "identity"
  /\ config.kind = "kubeconfig" =>
       /\ spec[c].mode = "kubeconfig" /\ config.secret = spec[c].secret
       /\ config.version = version[config.secret] \/ config.secret \in secretEvents

EntriesFit ==
  \A c \in Clusters \ unguarded : configs[c] # NotCached /\ c \notin clusterEvents =>
    /\ Fits(configs[c], c)
    /\ configs[c].kind = "kubeconfig" => c \in secrets[configs[c].secret]

(* The lock keeps events from being handled between the reads of a miss.   *)
CallFits(w) ==
  /\ w.step = "resolve" /\ w.cluster \notin clusterEvents =>
       spec[w.cluster] # None /\ w.mode = spec[w.cluster].mode
  /\ w.step = "store" /\ w.cluster \notin clusterEvents => Fits(w.config, w.cluster)
CallsFit == \A p \in Callers : CallFits(call[p])

IInv == TInv /\ MapsAgree /\ EntriesFit /\ CallsFit

-----------------------------------------------------------------------------
LEMMA SpecFacts ==
  ASSUME ApiOK, NEW c \in Clusters
  PROVE  /\ SpecsOf(c) \subseteq AnySpec
         /\ spec[c] # None => /\ spec[c].mode \in Modes /\ spec[c].secret \in Secrets
                              /\ HasSecret(c) /\ SecretOf(c) = spec[c].secret
         /\ HasSecret(c) => SecretOf(c) \in Secrets
<1>1. SpecsOf(c) \subseteq AnySpec
  BY DEF SpecsOf, AnySpec
<1>2. CASE c \in CapiClusters
  <2>1. CapiSecret[c] \in Secrets
    BY <1>2 DEF CapiClusters
  <2>2. spec[c] \in {CapiSpec(c), None}
    BY <1>2 DEF ApiOK, SpecsOf
  <2> QED BY <1>1, <1>2, <2>1, <2>2 DEF CapiSpec, HasSecret, SecretOf, Modes
<1>3. CASE c \notin CapiClusters
  <2>1. spec[c] \in Specs \cup {None}
    BY <1>3 DEF ApiOK, SpecsOf
  <2> QED BY <1>1, <1>3, <2>1 DEF HasSecret, SecretOf
<1> QED BY <1>2, <1>3

LEMMA ConfigFacts ==
  /\ \A s \in Secrets, v \in 1..MaxVersion : Kubeconfig(s, v) \in Config
  /\ \A t \in 1..MaxTokens : Token(t) \in Config
  /\ NilConfig \in Config
  /\ NotCached \notin Config
  BY DEF Config, Kubeconfig, Token, NilConfig, NotCached

-----------------------------------------------------------------------------
(* Types, and who holds the lock. *)

LEMMA InitTypes == Init => TInv
<1> SUFFICES ASSUME Init PROVE TInv
  OBVIOUS
<1>1. Idle \in Call /\ CallOK(Idle)
  BY DEF Idle, Call, CallOK
<1>2. CallsOK /\ LockOK /\ CacheOK /\ panicked \in BOOLEAN
  BY <1>1 DEF Init, CallsOK, LockOK, CacheOK, Idle
<1>3. spec \in [Clusters -> AnySpec \cup {None}]
  <2>1. \A c \in Clusters : SpecsOf(c) \subseteq AnySpec
    BY DEF SpecsOf, AnySpec
  <2> QED BY <2>1 DEF Init
<1>4. ApiOK
  BY <1>3 DEF Init, ApiOK
<1> QED BY <1>2, <1>4 DEF TInv

(* A caller's step: the call becomes w, which leaves the lock as it was,   *)
(* takes it when it is free or gives it back.                               *)
LEMMA CallStep ==
  ASSUME CallsOK, LockOK, NEW p \in Callers, NEW w, CallOK(w), call' = [call EXCEPT ![p] = w],
         \/ /\ rwMux' = rwMux
            /\ call[p].step \in {"resolve", "store"} <=> w.step \in {"resolve", "store"}
         \/ rwMux = None /\ rwMux' = p /\ w.step \in {"resolve", "store"}
         \/ rwMux = p /\ rwMux' = None /\ w.step \notin {"resolve", "store"}
  PROVE  CallsOK' /\ LockOK'
<1>1. call' \in [Callers -> Call] /\ w \in Call
  BY DEF CallsOK, CallOK
<1>2. \A q \in Callers : call'[q] = IF q = p THEN w ELSE call[q]
  BY DEF CallsOK
<1>3. CallsOK'
  BY <1>1, <1>2 DEF CallsOK
<1>4. LockOK'
  BY <1>2 DEF LockOK
<1> QED BY <1>3, <1>4

LEMMA EvictTypes ==
  ASSUME CacheOK, NEW cs \in SUBSET Clusters, Evict(cs), secrets' \in [Secrets -> SUBSET Clusters]
  PROVE  CacheOK'
  BY DEF CacheOK, Evict, Without

LEMMA SecretMapTypes ==
  ASSUME CacheOK, NEW c \in Clusters
  PROVE  UpdateSecretMap(c) \in [Secrets -> SUBSET Clusters]
  BY DEF CacheOK, UpdateSecretMap

LEMMA ApiTypes ==
  ASSUME TInv,
         \/ \E c \in Clusters : \E sp \in SpecsOf(c) \cup {None} : UpdateCluster(c, sp)
         \/ \E s \in Secrets : UpdateSecret(s)
  PROVE  TInv'
<1>1. ASSUME NEW c \in Clusters, NEW sp \in SpecsOf(c) \cup {None}, UpdateCluster(c, sp)
      PROVE  TInv'
  <2>1. SpecsOf(c) \subseteq AnySpec
    BY SpecFacts DEF TInv
  <2>2. spec' \in [Clusters -> AnySpec \cup {None}]
    BY <1>1, <2>1 DEF UpdateCluster, TInv, ApiOK
  <2>3. \A d \in Clusters : spec'[d] \in SpecsOf(d) \cup {None}
    BY <1>1 DEF UpdateCluster, TInv, ApiOK
  <2>4. ApiOK'
    BY <1>1, <2>2, <2>3 DEF UpdateCluster, TInv, ApiOK
  <2> QED BY <1>1, <2>4 DEF UpdateCluster, TInv, cacheVars, CacheOK, LockOK, CallsOK
<1>2. ASSUME NEW s \in Secrets, UpdateSecret(s) PROVE TInv'
  <2>1. ApiOK'
    BY <1>2 DEF UpdateSecret, TInv, ApiOK
  <2> QED BY <1>2, <2>1 DEF UpdateSecret, TInv, cacheVars, CacheOK, LockOK, CallsOK
<1> QED BY <1>1, <1>2

(* What StoreRestConfig stores, and whether it is guarded. *)
LEMMA StoredConfig ==
  ASSUME ApiOK, NEW c \in Clusters, StoreRestConfig(c)
  PROVE  \E s \in Secrets, v \in 1..MaxVersion :
           /\ configs' = [configs EXCEPT ![c] = Kubeconfig(s, v)]
           /\ unguarded' \in {unguarded \ {c}, unguarded \cup {c}}
           /\ c \notin unguarded' => UpToDate(Kubeconfig(s, v), c) /\ c \in secrets[s]
           /\ \A d \in Clusters \ {c} : d \in unguarded' <=> d \in unguarded
<1>1. PICK sp \in SpecsOf(c) : \E v \in 1..version[sp.secret] :
        /\ configs' = [configs EXCEPT ![c] = Kubeconfig(sp.secret, v)]
        /\ unguarded' = IF UpToDate(Kubeconfig(sp.secret, v), c) /\ c \in secrets[sp.secret]
                          THEN unguarded \ {c} ELSE unguarded \cup {c}
  BY DEF StoreRestConfig
<1>2. sp.secret \in Secrets
  BY DEF SpecsOf, CapiSpec, CapiClusters
<1>3. version[sp.secret] \in 1..MaxVersion
  BY <1>2 DEF ApiOK
<1>4. PICK v \in 1..version[sp.secret] :
        /\ configs' = [configs EXCEPT ![c] = Kubeconfig(sp.secret, v)]
        /\ unguarded' = IF UpToDate(Kubeconfig(sp.secret, v), c) /\ c \in secrets[sp.secret]
                          THEN unguarded \ {c} ELSE unguarded \cup {c}
  BY <1>1
<1>5. v \in 1..MaxVersion
  BY <1>3
<1> QED BY <1>2, <1>4, <1>5

LEMMA CacheTypes ==
  ASSUME TInv,
         \/ \E c \in Clusters : \/ RemoveCluster(c) \/ StoreRestConfig(c)
                                \/ ResetMapper(c) \/ InvalidateDiscoveryClient(c)
         \/ \E s \in Secrets : RemoveSecret(s)
  PROVE  TInv'
<1>1. ASSUME NEW c \in Clusters, RemoveCluster(c) PROVE TInv'
  <2>1. CacheOK'
    BY <1>1, EvictTypes, SecretMapTypes DEF RemoveCluster, TInv
  <2> QED BY <1>1, <2>1 DEF RemoveCluster, TInv, ApiOK, LockOK, CallsOK
<1>2. ASSUME NEW c \in Clusters, StoreRestConfig(c) PROVE TInv'
  <2>1. PICK s \in Secrets, v \in 1..MaxVersion :
          /\ configs' = [configs EXCEPT ![c] = Kubeconfig(s, v)]
          /\ unguarded' \in {unguarded \ {c}, unguarded \cup {c}}
    BY <1>2, StoredConfig DEF TInv
  <2>2. Kubeconfig(s, v) \in Config
    BY ConfigFacts
  <2>3. CacheOK'
    BY <1>2, <2>1, <2>2 DEF StoreRestConfig, TInv, CacheOK
  <2> QED BY <1>2, <2>3 DEF StoreRestConfig, TInv, apiVars, ApiOK, LockOK, CallsOK
<1>3. ASSUME NEW c \in Clusters, ResetMapper(c) \/ InvalidateDiscoveryClient(c) PROVE TInv'
  BY <1>3 DEF ResetMapper, InvalidateDiscoveryClient, TInv, apiVars, cacheVars, ApiOK, CacheOK, LockOK, CallsOK
<1>4. ASSUME NEW s \in Secrets, RemoveSecret(s) PROVE TInv'
  <2>1. ClustersOf(s) \in SUBSET Clusters /\ secrets' \in [Secrets -> SUBSET Clusters]
    BY <1>4 DEF RemoveSecret, ClustersOf, TInv, CacheOK
  <2>2. CacheOK'
    BY <1>4, <2>1, EvictTypes DEF RemoveSecret, TInv
  <2> QED BY <1>4, <2>2 DEF RemoveSecret, TInv, ApiOK, LockOK, CallsOK
<1> QED BY <1>1, <1>2, <1>3, <1>4

(* The steps of the calls. *)
LEMMA CallTypes ==
  ASSUME TInv, NEW p \in Callers,
         \/ \E c \in Clusters, want \in {"config", "mapper", "discovery"} : Start(p, c, want)
         \/ \E c \in Clusters : InvalidateOnAuthError(p, c)
         \/ EvictWorkloadIdentityCache(p) \/ TakesLock(p) \/ HoldsLock(p)
  PROVE  TInv'
<1> DEFINE w == call[p]
           c == w.cluster
<1>0. /\ CallOK(w) /\ w \in Call /\ CallsOK /\ LockOK /\ CacheOK /\ ApiOK /\ panicked \in BOOLEAN
      /\ rwMux = p <=> w.step \in {"resolve", "store"}
  BY DEF TInv, CallsOK, LockOK
<1>I. CallOK(Idle) /\ Idle.step = "idle"
  BY DEF Idle, Call, CallOK
<1>G. ASSUME NEW step \in {"lookup", "fetch"}, w.step # "idle"
      PROVE  CallOK([w EXCEPT !.step = step]) /\ [w EXCEPT !.step = step].step = step
  BY <1>0, <1>G DEF Call, CallOK
<1>A. ASSUME UNCHANGED apiVars PROVE ApiOK'
  BY <1>0, <1>A DEF apiVars, ApiOK
<1>C. ASSUME UNCHANGED cacheVars PROVE CacheOK'
  BY <1>0, <1>C DEF cacheVars, CacheOK
<1>1. ASSUME NEW d \in Clusters, NEW want \in {"config", "mapper", "discovery"}, Start(p, d, want)
      PROVE  TInv'
  <2> DEFINE n == [step |-> IF want = "config" THEN "lookup" ELSE "peek",
                   want |-> want, cluster |-> d, mode |-> None, config |-> NotCached]
  <2>1. CallOK(n) /\ n.step \notin {"resolve", "store"}
    BY DEF Call, CallOK
  <2>2. w.step = "idle"
    BY <1>1 DEF Start, Idle
  <2>3. CallsOK' /\ LockOK'
    BY <1>0, <1>1, <2>1, <2>2, CallStep DEF Start
  <2> QED BY <1>0, <1>1, <1>A, <1>C, <2>3 DEF Start, TInv
<1>2. ASSUME NEW d \in Clusters, InvalidateOnAuthError(p, d) PROVE TInv'
  <2> DEFINE n == [w EXCEPT !.step = "evict", !.cluster = d]
  <2>1. CallOK(n) /\ n.step = "evict" /\ call' = [call EXCEPT ![p] = n]
    BY <1>0, <1>2 DEF InvalidateOnAuthError, Call, CallOK, CallsOK
  <2>2. w.step = "idle"
    BY <1>2 DEF InvalidateOnAuthError, Idle
  <2>3. CallsOK' /\ LockOK'
    <3> HIDE DEF n
    <3> QED BY <1>0, <1>2, <2>1, <2>2, CallStep DEF InvalidateOnAuthError
  <2>4. CacheOK'
    BY <1>0, <1>2, EvictTypes, SecretMapTypes DEF InvalidateOnAuthError
  <2> QED BY <1>0, <1>2, <1>A, <2>3, <2>4 DEF InvalidateOnAuthError, TInv
<1>3. CASE EvictWorkloadIdentityCache(p)
  <2>1. CallsOK' /\ LockOK'
    BY <1>0, <1>3, <1>I, CallStep DEF EvictWorkloadIdentityCache
  <2>2. wiCache' \in [Clusters -> 0..MaxTokens]
    <3>1. 0 \in 0..MaxTokens
      OBVIOUS
    <3>2. wiCache \in [Clusters -> 0..MaxTokens] /\ wiCache' = [wiCache EXCEPT ![call[p].cluster] = 0]
      BY <1>3 DEF EvictWorkloadIdentityCache, TInv, ApiOK
    <3> HIDE DEF w, c
    <3> QED BY <3>1, <3>2
  <2>3. ApiOK'
    BY <1>0, <1>3, <2>2 DEF EvictWorkloadIdentityCache, ApiOK
  <2> QED BY <1>0, <1>3, <1>C, <2>1, <2>3 DEF EvictWorkloadIdentityCache, TInv
<1>R. ASSUME Return(p), \/ UNCHANGED rwMux /\ w.step \notin {"resolve", "store"}
                        \/ rwMux' = None /\ w.step \in {"resolve", "store"}
      PROVE  CallsOK' /\ LockOK'
  BY <1>0, <1>I, <1>R, CallStep DEF Return
<1>S. ASSUME NEW step \in {"lookup", "fetch"}, Goto(p, step),
             \/ UNCHANGED rwMux /\ w.step \notin {"idle", "resolve", "store"}
             \/ rwMux' = None /\ w.step \in {"resolve", "store"}
      PROVE  CallsOK' /\ LockOK'
  <2> DEFINE n == [w EXCEPT !.step = step]
  <2>1. CallOK(n) /\ n.step = step
    BY <1>G, <1>S
  <2>2. call' = [call EXCEPT ![p] = n]
    BY <1>0, <1>S DEF Goto, CallsOK
  <2> HIDE DEF n
  <2> QED BY <1>0, <1>S, <2>1, <2>2, CallStep
<1>4. CASE Peek(p)
  <2>1. CallsOK' /\ LockOK'
    BY <1>4, <1>R, <1>S DEF Peek
  <2> QED BY <1>0, <1>4, <1>A, <1>C, <2>1 DEF Peek, TInv
<1>5. CASE Lookup(p)
  <2>1. CASE (AfterConfig(p) \/ Return(p)) /\ UNCHANGED rwMux
    <3>1. CallsOK' /\ LockOK'
      BY <1>5, <1>R, <1>S, <2>1 DEF Lookup, AfterConfig
    <3> QED BY <1>0, <1>5, <1>A, <1>C, <3>1 DEF Lookup, TInv
  <2>2. CASE spec[c] # None /\ rwMux' = p
             /\ call' = [call EXCEPT ![p].step = "resolve", ![p].mode = spec[c].mode]
    <3> DEFINE n == [w EXCEPT !.step = "resolve", !.mode = spec[c].mode]
    <3>0. w.step = "lookup" /\ rwMux = None
      BY <1>5 DEF Lookup
    <3>1. c \in Clusters /\ spec[c].mode \in Modes
      BY <1>0, <2>2, <3>0, SpecFacts DEF CallOK
    <3>2. CallOK(n) /\ n.step = "resolve" /\ call' = [call EXCEPT ![p] = n]
      BY <1>0, <2>2, <3>0, <3>1 DEF Call, CallOK, CallsOK
    <3>3. CallsOK' /\ LockOK'
      <4> HIDE DEF n
      <4> QED BY <1>0, <2>2, <3>0, <3>2, CallStep
    <3> QED BY <1>0, <1>5, <1>A, <1>C, <3>3 DEF Lookup, TInv
  <2> QED BY <1>5, <2>1, <2>2 DEF Lookup
<1>H. ASSUME NEW config \in Config, Holding(p, config), UNCHANGED rwMux, w.step = "resolve"
      PROVE  CallsOK' /\ LockOK'
  <2> DEFINE n == [w EXCEPT !.step = "store", !.config = config]
  <2>1. CallOK(n) /\ n.step = "store" /\ call' = [call EXCEPT ![p] = n]
    BY <1>0, <1>H DEF Holding, Call, CallOK, CallsOK
  <2> HIDE DEF n
  <2> QED BY <1>0, <1>H, <2>1, CallStep
<1>6. CASE ResolveKubeconfig(p)
  <2>1. c \in Clusters /\ w.step = "resolve"
    BY <1>0, <1>6 DEF ResolveKubeconfig, CallOK
  <2>2. CASE HasSecret(c) /\ Holding(p, Kubeconfig(SecretOf(c), version[SecretOf(c)])) /\ UNCHANGED rwMux
    <3>1. Kubeconfig(SecretOf(c), version[SecretOf(c)]) \in Config
      BY <1>0, <2>1, <2>2, SpecFacts, ConfigFacts DEF ApiOK
    <3>2. CallsOK' /\ LockOK'
      BY <1>H, <2>1, <2>2, <3>1
    <3> QED BY <1>0, <1>6, <1>A, <1>C, <3>2 DEF ResolveKubeconfig, TInv
  <2>3. CASE Return(p) /\ rwMux' = Unlocked(p)
    <3>1. CallsOK' /\ LockOK'
      BY <1>R, <2>1, <2>3 DEF Unlocked
    <3> QED BY <1>0, <1>6, <1>A, <1>C, <3>1 DEF ResolveKubeconfig, TInv
  <2> QED BY <1>6, <2>2, <2>3 DEF ResolveKubeconfig
<1>7. CASE ResolvePullMode(p)
  <2>1. CallsOK' /\ LockOK'
    BY <1>7, <1>H, ConfigFacts DEF ResolvePullMode
  <2> QED BY <1>0, <1>7, <1>A, <1>C, <2>1 DEF ResolvePullMode, TInv
<1>8. CASE ResolveIdentity(p)
  <2>1. c \in Clusters /\ w.step = "resolve"
    BY <1>0, <1>8 DEF ResolveIdentity, CallOK
  <2>2. ApiOK'
    BY <1>0, <1>8, <2>1 DEF ResolveIdentity, ApiOK
  <2>3. wiCache[c] \in 0..MaxTokens /\ minted \in 0..MaxTokens
    BY <1>0, <2>1 DEF ApiOK
  <2>4. CASE wiCache[c] # 0 /\ Holding(p, Token(wiCache[c])) /\ UNCHANGED rwMux
    <3>1. Token(wiCache[c]) \in Config
      BY <2>3, <2>4, ConfigFacts
    <3> QED BY <1>0, <1>8, <1>C, <1>H, <2>1, <2>2, <2>4, <3>1 DEF ResolveIdentity, TInv
  <2>5. CASE minted < MaxTokens /\ minted' = minted + 1 /\ Holding(p, Token(minted')) /\ UNCHANGED rwMux
    <3>1. minted' \in 1..MaxTokens
      BY <2>3, <2>5
    <3>2. Token(minted') \in Config
      BY <3>1, ConfigFacts
    <3> QED BY <1>0, <1>8, <1>C, <1>H, <2>1, <2>2, <2>5, <3>2 DEF ResolveIdentity, TInv
  <2>6. CASE Return(p) /\ rwMux' = Unlocked(p)
    BY <1>0, <1>8, <1>C, <1>R, <2>1, <2>2, <2>6 DEF ResolveIdentity, TInv, Unlocked
  <2> QED BY <1>8, <2>4, <2>5, <2>6 DEF ResolveIdentity
<1>9. CASE Store(p)
  <2>1. c \in Clusters /\ w.config \in Config /\ w.step = "store"
    BY <1>0, <1>9 DEF Store, CallOK
  <2>2. CallsOK' /\ LockOK'
    BY <1>9, <1>R, <1>S, <2>1 DEF Store, AfterConfig, Unlocked
  <2>3. CacheOK'
    <3>1. HasSecret(c) => SecretOf(c) \in Secrets
      BY <1>0, <2>1, SpecFacts
    <3>2. CASE UNCHANGED cacheVars
      BY <1>C, <3>2
    <3>3. CASE HasSecret(c) /\ ~UNCHANGED cacheVars
      BY <1>0, <1>9, <2>1, <3>1, <3>3 DEF Store, IndexUnder, CacheOK
    <3> QED BY <1>9, <3>2, <3>3 DEF Store
  <2> QED BY <1>0, <1>9, <1>A, <2>2, <2>3 DEF Store, TInv
<1>10. CASE Fetch(p)
  <2>1. CallsOK' /\ LockOK'
    BY <1>10, <1>R DEF Fetch
  <2> QED BY <1>0, <1>10, <1>A, <1>C, <2>1 DEF Fetch, TInv
<1> QED
  BY <1>1, <1>2, <1>3, <1>4, <1>5, <1>6, <1>7, <1>8, <1>9, <1>10 DEF TakesLock, HoldsLock

LEMMA StepTypes == TInv /\ [Next]_vars => TInv'
<1> SUFFICES ASSUME TInv, [Next]_vars PROVE TInv'
  OBVIOUS
<1>1. CASE Next
  BY <1>1, ApiTypes, CacheTypes, CallTypes DEF Next
<1>2. CASE UNCHANGED vars
  BY <1>2 DEF vars, apiVars, cacheVars, TInv, ApiOK, CacheOK, LockOK, CallsOK
<1> QED BY <1>1, <1>2

-----------------------------------------------------------------------------
(* The maps. *)

LEMMA EvictAgrees ==
  ASSUME CacheOK, MapsAgree, NEW cs \in SUBSET Clusters, Evict(cs),
         \A c \in Clusters \ cs : clusters[c] # None /\ c \in secrets[clusters[c]]
                                    => c \in secrets'[clusters[c]]
  PROVE  MapsAgree'
<1> SUFFICES ASSUME NEW c \in Clusters
             PROVE  /\ mappers'[c] = cachedDiscoveryClient'[c]
                    /\ mappers'[c] # NotCached <=> clusters'[c] # None
                    /\ mappers'[c] # NotCached =>
                         configs'[c] # NotCached /\ c \in secrets'[clusters'[c]]
  BY DEF MapsAgree, Cached
<1>1. CASE c \in cs
  BY <1>1 DEF Evict, Without
<1>2. CASE c \notin cs
  <2>1. /\ configs'[c] = configs[c] /\ mappers'[c] = mappers[c]
        /\ cachedDiscoveryClient'[c] = cachedDiscoveryClient[c] /\ clusters'[c] = clusters[c]
    BY <1>2 DEF Evict, Without
  <2> QED BY <1>2, <2>1 DEF MapsAgree, Cached
<1> QED BY <1>1, <1>2

LEMMA OtherClustersStay ==
  ASSUME CacheOK, NEW c \in Clusters, secrets' = UpdateSecretMap(c)
  PROVE  \A d \in Clusters \ {c} : clusters[d] # None /\ d \in secrets[clusters[d]]
                                     => d \in secrets'[clusters[d]]
  BY DEF CacheOK, UpdateSecretMap

LEMMA StepMaps == TInv /\ MapsAgree /\ [Next]_vars => MapsAgree'
<1> SUFFICES ASSUME TInv, MapsAgree, [Next]_vars PROVE MapsAgree'
  OBVIOUS
<1>0. CacheOK /\ ApiOK
  BY DEF TInv
<1>1. CASE UNCHANGED cacheVars
  BY <1>1 DEF cacheVars, MapsAgree, Cached
<1>2. ASSUME NEW c \in Clusters, RemoveCluster(c) PROVE MapsAgree'
  BY <1>0, <1>2, EvictAgrees, OtherClustersStay DEF RemoveCluster
<1>3. ASSUME NEW c \in Clusters, NEW p \in Callers, InvalidateOnAuthError(p, c) PROVE MapsAgree'
  BY <1>0, <1>3, EvictAgrees, OtherClustersStay DEF InvalidateOnAuthError
<1>4. ASSUME NEW s \in Secrets, RemoveSecret(s) PROVE MapsAgree'
  <2>1. ClustersOf(s) \in SUBSET Clusters
    BY <1>0 DEF ClustersOf, CacheOK
  <2> QED BY <1>0, <1>4, <2>1, EvictAgrees DEF RemoveSecret
<1>5. ASSUME NEW c \in Clusters, StoreRestConfig(c) PROVE MapsAgree'
  <2>1. PICK s \in Secrets, v \in 1..MaxVersion : configs' = [configs EXCEPT ![c] = Kubeconfig(s, v)]
    BY <1>0, <1>5, StoredConfig
  <2>2. \A d \in Clusters : configs[d] # NotCached => configs'[d] # NotCached
    BY <1>0, <2>1 DEF CacheOK, Kubeconfig, NotCached
  <2> QED BY <1>5, <2>2 DEF StoreRestConfig, MapsAgree, Cached
<1>6. ASSUME NEW p \in Callers, Store(p), ~UNCHANGED cacheVars PROVE MapsAgree'
  <2> DEFINE c == call[p].cluster
             config == call[p].config
  <2>1. c \in Clusters /\ config # NotCached
    BY <1>6, ConfigFacts DEF Store, TInv, CallsOK, CallOK
  <2>2. /\ configs' = [configs EXCEPT ![c] = config]
        /\ mappers' = [mappers EXCEPT ![c] = config]
        /\ cachedDiscoveryClient' = [cachedDiscoveryClient EXCEPT ![c] = config]
        /\ clusters' = [clusters EXCEPT ![c] = SecretOf(c)]
        /\ secrets' = [secrets EXCEPT ![SecretOf(c)] = @ \cup {c}]
        /\ SecretOf(c) \in Secrets
    BY <1>0, <1>6, <2>1, SpecFacts DEF Store, IndexUnder
  <2> HIDE DEF c, config
  <2> SUFFICES ASSUME NEW d \in Clusters
               PROVE  /\ mappers'[d] = cachedDiscoveryClient'[d]
                      /\ mappers'[d] # NotCached <=> clusters'[d] # None
                      /\ mappers'[d] # NotCached =>
                           configs'[d] # NotCached /\ d \in secrets'[clusters'[d]]
    BY DEF MapsAgree, Cached
  <2>3. CASE d = c
    BY <1>0, <2>1, <2>2, <2>3 DEF CacheOK
  <2>4. CASE d # c
    BY <1>0, <2>1, <2>2, <2>4 DEF CacheOK, MapsAgree, Cached
  <2> QED BY <2>3, <2>4
<1>7. ASSUME NEW p \in Callers, TakesLock(p) \/ HoldsLock(p), ~UNCHANGED cacheVars PROVE MapsAgree'
  BY <1>6, <1>7 DEF TakesLock, HoldsLock, Peek, Lookup, Fetch, ResolveKubeconfig, ResolvePullMode, ResolveIdentity
<1>8. ASSUME NEW c \in Clusters, NEW sp \in SpecsOf(c) \cup {None}, UpdateCluster(c, sp)
      PROVE  UNCHANGED cacheVars
  BY <1>8 DEF UpdateCluster
<1>9. ASSUME NEW s \in Secrets, UpdateSecret(s) PROVE UNCHANGED cacheVars
  BY <1>9 DEF UpdateSecret
<1>10. ASSUME NEW c \in Clusters, ResetMapper(c) \/ InvalidateDiscoveryClient(c) PROVE UNCHANGED cacheVars
  BY <1>10 DEF ResetMapper, InvalidateDiscoveryClient
<1>11. ASSUME NEW p \in Callers, NEW c \in Clusters, NEW want \in {"config", "mapper", "discovery"},
              Start(p, c, want)
       PROVE  UNCHANGED cacheVars
  BY <1>11 DEF Start
<1>12. ASSUME NEW p \in Callers, EvictWorkloadIdentityCache(p) PROVE UNCHANGED cacheVars
  BY <1>12 DEF EvictWorkloadIdentityCache
<1>13. CASE UNCHANGED vars
  BY <1>1, <1>13 DEF vars
<1> QED
  BY <1>1, <1>2, <1>3, <1>4, <1>5, <1>7, <1>8, <1>9, <1>10, <1>11, <1>12, <1>13 DEF Next

-----------------------------------------------------------------------------
(* Configs correspond to the clusters and their Secrets. *)

(* What Fits depends on. *)
World == <<spec, version, clusterEvents, secretEvents>>

LEMMA SameWorld ==
  ASSUME UNCHANGED World
  PROVE  /\ \A x, d : Fits(x, d) => Fits(x, d)'
         /\ \A w : CallFits(w) => CallFits(w)'
  BY DEF World, Fits, CallFits

LEMMA CallStepFits ==
  ASSUME TInv, CallsFit, UNCHANGED World, NEW p \in Callers, NEW w, CallFits(w),
         call' = [call EXCEPT ![p] = w]
  PROVE  CallsFit'
<1>1. ASSUME NEW q \in Callers PROVE CallFits(call[q])'
  <2>1. call'[q] = IF q = p THEN w ELSE call[q]
    BY DEF TInv, CallsOK
  <2>2. CallFits(call'[q])
    BY <2>1 DEF CallsFit
  <2> QED BY <2>2 DEF World, CallFits, Fits
<1> QED BY <1>1 DEF CallsFit

LEMMA IdleFits ==
  ASSUME NEW w, w.step \notin {"resolve", "store"}
  PROVE  CallFits(w)
  BY DEF CallFits

LEMMA SameEntriesFit ==
  ASSUME EntriesFit, UNCHANGED World, UNCHANGED <<configs, secrets, unguarded>>
  PROVE  EntriesFit'
  BY SameWorld DEF EntriesFit, World

LEMMA EvictFits ==
  ASSUME TInv, EntriesFit, NEW cs \in SUBSET Clusters, Evict(cs), UNCHANGED World,
         \A d \in Clusters \ cs, s \in Secrets : d \in secrets[s] => d \in secrets'[s]
  PROVE  EntriesFit'
<1>1. ASSUME NEW d \in Clusters \ unguarded', configs'[d] # NotCached, d \notin clusterEvents'
      PROVE  /\ Fits(configs[d], d)'
             /\ configs'[d].kind = "kubeconfig" => d \in secrets'[configs'[d].secret]
  <2>1. d \notin cs /\ d \notin unguarded /\ configs'[d] = configs[d]
    BY <1>1 DEF Evict, Without
  <2>2. Fits(configs[d], d) /\ (configs[d].kind = "kubeconfig" => d \in secrets[configs[d].secret])
    BY <1>1, <2>1 DEF EntriesFit, World
  <2>3. configs[d].kind = "kubeconfig" => configs[d].secret \in Secrets
    BY <1>1, <2>1 DEF TInv, CacheOK, Config
  <2> QED BY <2>1, <2>2, <2>3 DEF World, Fits
<1> QED BY <1>1 DEF EntriesFit

LEMMA SecretMapKeeps ==
  ASSUME CacheOK, NEW c \in Clusters, secrets' = UpdateSecretMap(c)
  PROVE  \A d \in Clusters \ {c}, s \in Secrets : d \in secrets[s] => d \in secrets'[s]
  BY DEF CacheOK, UpdateSecretMap

LEMMA NobodyHoldsLock ==
  ASSUME TInv, rwMux = None, UNCHANGED call
  PROVE  CallsFit'
  BY DEF TInv, LockOK, CallsFit, CallFits

LEMMA EventFits ==
  ASSUME IInv,
         \/ \E c \in Clusters : \E sp \in SpecsOf(c) \cup {None} : UpdateCluster(c, sp)
         \/ \E s \in Secrets : UpdateSecret(s)
  PROVE  EntriesFit' /\ CallsFit'
<1>1. ASSUME NEW c \in Clusters, NEW sp \in SpecsOf(c) \cup {None}, UpdateCluster(c, sp)
      PROVE  EntriesFit' /\ CallsFit'
  <2>1. /\ UNCHANGED <<version, secretEvents, configs, secrets, unguarded, call>>
        /\ clusterEvents' = clusterEvents \cup {c}
        /\ \A d : d # c => spec'[d] = spec[d]
    BY <1>1 DEF UpdateCluster, cacheVars, IInv, TInv, ApiOK
  <2>2. \A x, d : d # c /\ Fits(x, d) => Fits(x, d)'
    BY <2>1 DEF Fits
  <2>3. EntriesFit'
    BY <2>1, <2>2 DEF IInv, EntriesFit, Fits
  <2>4. ASSUME NEW p \in Callers PROVE CallFits(call[p])'
    BY <2>1, <2>4 DEF IInv, CallsFit, CallFits, Fits
  <2> QED BY <2>3, <2>4 DEF CallsFit
<1>2. ASSUME NEW s \in Secrets, UpdateSecret(s) PROVE EntriesFit' /\ CallsFit'
  <2>1. /\ UNCHANGED <<spec, clusterEvents, configs, secrets, unguarded, call>>
        /\ secretEvents' = secretEvents \cup {s}
        /\ \A t \in Secrets : t # s => version'[t] = version[t]
    BY <1>2 DEF UpdateSecret, cacheVars, IInv, TInv, ApiOK
  <2>2. ASSUME NEW x, NEW d \in Clusters, Fits(x, d) PROVE Fits(x, d)'
    <3>1. spec[d] # None /\ spec[d].secret \in Secrets
      BY <2>2, SpecFacts DEF IInv, TInv, Fits
    <3> QED BY <2>1, <2>2, <3>1 DEF Fits
  <2>4. EntriesFit'
    BY <2>1, <2>2 DEF IInv, EntriesFit
  <2>5. ASSUME NEW p \in Callers PROVE CallFits(call[p])'
    <3>1. CallFits(call[p]) /\ (call[p].step = "store" => call[p].cluster \in Clusters)
      BY DEF IInv, CallsFit, TInv, CallsOK, CallOK
    <3>2. call[p].step = "store" /\ call[p].cluster \notin clusterEvents =>
            Fits(call[p].config, call[p].cluster) /\ spec[call[p].cluster].secret \in Secrets
      BY <3>1, SpecFacts DEF CallFits, IInv, TInv, Fits
    <3> QED BY <2>1, <3>1, <3>2 DEF CallFits, Fits
  <2> QED BY <2>4, <2>5 DEF CallsFit
<1> QED BY <1>1, <1>2

LEMMA CacheFits ==
  ASSUME IInv,
         \/ \E c \in Clusters : \/ RemoveCluster(c) \/ StoreRestConfig(c)
                                \/ ResetMapper(c) \/ InvalidateDiscoveryClient(c)
         \/ \E s \in Secrets : RemoveSecret(s)
  PROVE  EntriesFit' /\ CallsFit'
<1>0. TInv /\ ApiOK /\ CacheOK
  BY DEF IInv, TInv
<1>1. rwMux = None /\ UNCHANGED call
  BY DEF RemoveCluster, StoreRestConfig, ResetMapper, InvalidateDiscoveryClient, RemoveSecret
<1>2. CallsFit'
  BY <1>0, <1>1, NobodyHoldsLock
<1>3. ASSUME NEW c \in Clusters, RemoveCluster(c) PROVE EntriesFit'
  <2>1. /\ UNCHANGED <<spec, version, secretEvents>>
        /\ clusterEvents' = clusterEvents \ {c} /\ configs'[c] = NotCached
        /\ \A d \in Clusters \ {c} : configs'[d] = configs[d] /\ (d \in unguarded' <=> d \in unguarded)
    BY <1>0, <1>3 DEF RemoveCluster, Evict, Without
  <2>2. \A d \in Clusters \ {c}, s \in Secrets : d \in secrets[s] => d \in secrets'[s]
    BY <1>0, <1>3, SecretMapKeeps DEF RemoveCluster
  <2>3. ASSUME NEW d \in Clusters \ unguarded', configs'[d] # NotCached, d \notin clusterEvents'
        PROVE  /\ Fits(configs[d], d)'
               /\ configs'[d].kind = "kubeconfig" => d \in secrets'[configs'[d].secret]
    <3>1. d # c /\ d \notin unguarded /\ configs'[d] = configs[d] /\ d \notin clusterEvents
      BY <2>1, <2>3
    <3>2. Fits(configs[d], d) /\ (configs[d].kind = "kubeconfig" => d \in secrets[configs[d].secret])
      BY <2>3, <3>1 DEF IInv, EntriesFit
    <3>3. configs[d].kind = "kubeconfig" => configs[d].secret \in Secrets
      BY <1>0, <2>3, <3>1 DEF CacheOK, Config
    <3> QED BY <2>1, <2>2, <3>1, <3>2, <3>3 DEF Fits
  <2> QED BY <2>3 DEF EntriesFit
<1>4. ASSUME NEW c \in Clusters, StoreRestConfig(c) PROVE EntriesFit'
  <2>1. UNCHANGED <<World, secrets>>
    BY <1>4 DEF StoreRestConfig, World, apiVars
  <2>2. PICK s \in Secrets, v \in 1..MaxVersion :
          /\ configs' = [configs EXCEPT ![c] = Kubeconfig(s, v)]
          /\ c \notin unguarded' => UpToDate(Kubeconfig(s, v), c) /\ c \in secrets[s]
          /\ \A d \in Clusters \ {c} : d \in unguarded' <=> d \in unguarded
    BY <1>0, <1>4, StoredConfig
  <2> DEFINE config == Kubeconfig(s, v)
  <2>3. c \notin unguarded' => Fits(config, c) /\ config.secret = s
    BY <2>2 DEF UpToDate, Fits, Kubeconfig
  <2> HIDE DEF config
  <2>4. \A d \in Clusters : configs'[d] = IF d = c THEN config ELSE configs[d]
    BY <1>0, <2>2 DEF CacheOK, config
  <2> QED BY <2>1, <2>2, <2>3, <2>4 DEF IInv, EntriesFit, World, Fits
<1>5. ASSUME NEW c \in Clusters, ResetMapper(c) \/ InvalidateDiscoveryClient(c) PROVE EntriesFit'
  BY <1>5, SameEntriesFit DEF ResetMapper, InvalidateDiscoveryClient, IInv, apiVars, cacheVars, World
<1>6. ASSUME NEW s \in Secrets, RemoveSecret(s) PROVE EntriesFit'
  <2>1. UNCHANGED <<spec, version, clusterEvents, secrets>> /\ secretEvents' = secretEvents \ {s}
    BY <1>6 DEF RemoveSecret
  <2>2. ASSUME NEW d \in Clusters \ unguarded', configs'[d] # NotCached, d \notin clusterEvents
        PROVE  /\ Fits(configs[d], d)'
               /\ configs'[d].kind = "kubeconfig" => d \in secrets'[configs'[d].secret]
    <3>1. d \notin secrets[s] /\ d \notin unguarded /\ configs'[d] = configs[d]
      BY <1>6, <2>2 DEF RemoveSecret, ClustersOf, Evict, Without
    <3>2. Fits(configs[d], d) /\ (configs[d].kind = "kubeconfig" => d \in secrets[configs[d].secret])
      BY <2>2, <3>1 DEF IInv, EntriesFit
    <3>3. configs[d].kind = "kubeconfig" => configs[d].secret # s
      BY <3>1, <3>2
    <3> QED BY <2>1, <3>1, <3>2, <3>3 DEF Fits
  <2> QED BY <2>1, <2>2 DEF EntriesFit
<1> QED BY <1>2, <1>3, <1>4, <1>5, <1>6

LEMMA CallerFits ==
  ASSUME IInv, NEW p \in Callers,
         \/ \E c \in Clusters, want \in {"config", "mapper", "discovery"} : Start(p, c, want)
         \/ \E c \in Clusters : InvalidateOnAuthError(p, c)
         \/ EvictWorkloadIdentityCache(p) \/ TakesLock(p) \/ HoldsLock(p)
  PROVE  EntriesFit' /\ CallsFit'
<1> DEFINE w == call[p]
           c == w.cluster
<1>0. /\ TInv /\ ApiOK /\ CacheOK /\ CallFits(w) /\ CallOK(w) /\ w \in Call
      /\ CallsFit /\ EntriesFit /\ call \in [Callers -> Call]
  BY DEF IInv, TInv, CallsFit, CallsOK
<1>1. UNCHANGED World
  BY DEF World, apiVars, Start, InvalidateOnAuthError, EvictWorkloadIdentityCache, TakesLock, HoldsLock,
         Peek, Lookup, Fetch, ResolveKubeconfig, ResolvePullMode, ResolveIdentity, Store
<1>2. ASSUME NEW n, call' = [call EXCEPT ![p] = n], n.step \notin {"resolve", "store"}
      PROVE  CallsFit'
  BY <1>0, <1>1, <1>2, IdleFits, CallStepFits
<1>R. ASSUME Return(p) PROVE CallsFit'
  <2>1. Idle.step \notin {"resolve", "store"}
    BY DEF Idle
  <2> QED BY <1>2, <1>R, <2>1 DEF Return
<1>S. ASSUME NEW step \in {"lookup", "fetch"}, Goto(p, step) PROVE CallsFit'
  <2> DEFINE n == [w EXCEPT !.step = step]
  <2>1. call' = [call EXCEPT ![p] = n] /\ n.step = step
    BY <1>0, <1>S DEF Goto, Call
  <2> HIDE DEF n
  <2> QED BY <1>2, <2>1
<1>H. ASSUME NEW config, Holding(p, config), c \notin clusterEvents => Fits(config, c)
      PROVE  CallsFit'
  <2> DEFINE n == [w EXCEPT !.step = "store", !.config = config]
  <2>1. /\ call' = [call EXCEPT ![p] = n]
        /\ n.step = "store" /\ n.config = config /\ n.cluster = c
    BY <1>0, <1>H DEF Holding, Call
  <2>2. CallFits(n)
    <3> HIDE DEF n, c
    <3> QED BY <1>H, <2>1 DEF CallFits
  <2> HIDE DEF n
  <2> QED BY <1>0, <1>1, <2>1, <2>2, CallStepFits
<1>E. ASSUME UNCHANGED cacheVars PROVE EntriesFit'
  BY <1>0, <1>1, <1>E, SameEntriesFit DEF cacheVars
<1>3. ASSUME NEW d \in Clusters, NEW want \in {"config", "mapper", "discovery"}, Start(p, d, want)
      PROVE  EntriesFit' /\ CallsFit'
  <2> DEFINE n == [step |-> IF want = "config" THEN "lookup" ELSE "peek",
                   want |-> want, cluster |-> d, mode |-> None, config |-> NotCached]
  <2>1. call' = [call EXCEPT ![p] = n] /\ UNCHANGED cacheVars
    BY <1>3 DEF Start
  <2>2. n.step \notin {"resolve", "store"}
    OBVIOUS
  <2> HIDE DEF n
  <2> QED BY <1>2, <1>E, <2>1, <2>2
<1>4. ASSUME NEW d \in Clusters, InvalidateOnAuthError(p, d) PROVE EntriesFit' /\ CallsFit'
  <2> DEFINE n == [w EXCEPT !.step = "evict", !.cluster = d]
  <2>1. call' = [call EXCEPT ![p] = n] /\ n.step = "evict"
    BY <1>0, <1>4 DEF InvalidateOnAuthError, Call
  <2>2. EntriesFit'
    BY <1>0, <1>1, <1>4, EvictFits, SecretMapKeeps DEF InvalidateOnAuthError
  <2> HIDE DEF n
  <2> QED BY <1>2, <2>1, <2>2
<1>5. CASE EvictWorkloadIdentityCache(p)
  <2>1. Return(p) /\ UNCHANGED cacheVars
    BY <1>5 DEF EvictWorkloadIdentityCache, Return
  <2> QED BY <2>1, <1>R, <1>E
<1>6. CASE Peek(p)
  BY <1>6, <1>R, <1>S, <1>E DEF Peek
<1>7. CASE Lookup(p)
  <2>1. CASE AfterConfig(p) \/ Return(p)
    BY <1>7, <2>1, <1>R, <1>S, <1>E DEF Lookup, AfterConfig
  <2>2. CASE spec[c] # None /\ call' = [call EXCEPT ![p].step = "resolve", ![p].mode = spec[c].mode]
    <3> DEFINE n == [w EXCEPT !.step = "resolve", !.mode = spec[c].mode]
    <3>1. /\ call' = [call EXCEPT ![p] = n]
          /\ n.step = "resolve" /\ n.mode = spec[c].mode /\ n.cluster = c
      BY <1>0, <2>2 DEF Call
    <3>2. CallFits(n)
      <4> HIDE DEF n, c
      <4> QED BY <2>2, <3>1 DEF CallFits
    <3> HIDE DEF n
    <3>3. CallsFit'
      BY <1>0, <1>1, <3>1, <3>2, CallStepFits
    <3> QED BY <1>7, <1>E, <3>3 DEF Lookup
  <2> QED BY <1>7, <2>1, <2>2 DEF Lookup
<1>8. ASSUME w.step = "resolve"
      PROVE  /\ c \in Clusters
             /\ c \notin clusterEvents =>
                  spec[c] # None /\ w.mode = spec[c].mode /\ SecretOf(c) = spec[c].secret
  <2>1. c \in Clusters
    BY <1>0, <1>8 DEF CallOK
  <2> QED BY <1>0, <1>8, <2>1, SpecFacts DEF CallFits
<1>9. CASE ResolveKubeconfig(p)
  <2>1. w.step = "resolve" /\ w.mode = "kubeconfig" /\ UNCHANGED cacheVars
    BY <1>9 DEF ResolveKubeconfig
  <2>2. c \notin clusterEvents => Fits(Kubeconfig(SecretOf(c), version[SecretOf(c)]), c)
    BY <1>8, <2>1 DEF Fits, Kubeconfig
  <2> QED BY <1>9, <1>R, <1>H, <1>E, <2>1, <2>2 DEF ResolveKubeconfig
<1>10. CASE ResolvePullMode(p)
  <2>1. w.step = "resolve" /\ w.mode = "pull" /\ UNCHANGED cacheVars
    BY <1>10 DEF ResolvePullMode
  <2>2. c \notin clusterEvents => Fits(NilConfig, c)
    BY <1>8, <2>1 DEF Fits, NilConfig
  <2> QED BY <1>10, <1>H, <1>E, <2>1, <2>2 DEF ResolvePullMode
<1>11. CASE ResolveIdentity(p)
  <2>1. w.step = "resolve" /\ w.mode = "identity" /\ UNCHANGED cacheVars
    BY <1>11 DEF ResolveIdentity
  <2>2. \A t : c \notin clusterEvents => Fits(Token(t), c)
    BY <1>8, <2>1 DEF Fits, Token
  <2>3. CallsFit'
    BY <1>11, <1>R, <1>H, <2>2 DEF ResolveIdentity
  <2> QED BY <1>E, <2>1, <2>3
<1>12. CASE Store(p)
  <2>1. CallsFit'
    BY <1>12, <1>R, <1>S DEF Store, AfterConfig
  <2>2. CASE UNCHANGED cacheVars
    BY <1>E, <2>1, <2>2
  <2>3. CASE ~UNCHANGED cacheVars
    <3>1. /\ c \in Clusters
          /\ configs' = [configs EXCEPT ![c] = w.config]
          /\ secrets' = [secrets EXCEPT ![SecretOf(c)] = @ \cup {c}]
          /\ unguarded' = unguarded \ {c}
      BY <1>0, <1>12, <2>3 DEF Store, IndexUnder, CallOK
    <3>2. c \notin clusterEvents =>
            Fits(w.config, c) /\ SecretOf(c) = spec[c].secret /\ SecretOf(c) \in Secrets
      BY <1>0, <1>12, <3>1, SpecFacts DEF Store, CallFits, Fits
    <3>3. \A d \in Clusters : configs'[d] = IF d = c THEN w.config ELSE configs[d]
      BY <1>0, <3>1 DEF CacheOK
    <3>4. \A d \in Clusters, s \in Secrets : d \in secrets[s] => d \in secrets'[s]
      BY <1>0, <3>1 DEF CacheOK
    <3>5. c \notin clusterEvents /\ w.config.kind = "kubeconfig" => c \in secrets'[w.config.secret]
      BY <1>0, <3>1, <3>2 DEF CacheOK, Fits
    <3>6. ASSUME NEW d \in Clusters \ unguarded', configs'[d] # NotCached, d \notin clusterEvents
          PROVE  /\ Fits(configs'[d], d)
                 /\ configs'[d].kind = "kubeconfig" => d \in secrets'[configs'[d].secret]
      <4>1. CASE d = c
        <5> HIDE DEF w, c
        <5> QED BY <3>2, <3>3, <3>5, <3>6, <4>1
      <4>2. CASE d # c
        <5>1. d \notin unguarded /\ configs'[d] = configs[d]
          BY <3>1, <3>3, <3>6, <4>2
        <5>2. Fits(configs[d], d) /\ (configs[d].kind = "kubeconfig" => d \in secrets[configs[d].secret])
          BY <1>0, <3>6, <5>1 DEF EntriesFit
        <5>3. configs[d].kind = "kubeconfig" => configs[d].secret \in Secrets
          BY <1>0, <3>6, <5>1 DEF CacheOK, Config
        <5> HIDE DEF w, c
        <5> QED BY <3>4, <5>1, <5>2, <5>3
      <4> QED BY <4>1, <4>2
    <3>7. EntriesFit'
      <4> HIDE DEF w, c
      <4> QED BY <1>1, <3>6 DEF EntriesFit, Fits, World
    <3> QED BY <2>1, <3>7
  <2> QED BY <2>2, <2>3
<1>13. CASE Fetch(p)
  BY <1>13, <1>R, <1>E DEF Fetch
<1> QED
  BY <1>3, <1>4, <1>5, <1>6, <1>7, <1>9, <1>10, <1>11, <1>12, <1>13 DEF TakesLock, HoldsLock

LEMMA InitInv == Init => IInv
<1> SUFFICES ASSUME Init PROVE IInv
  OBVIOUS
<1>1. MapsAgree
  BY DEF Init, MapsAgree, Cached
<1>2. EntriesFit /\ CallsFit
  BY DEF Init, EntriesFit, CallsFit, CallFits, Idle, Cached
<1> QED BY <1>1, <1>2, InitTypes DEF IInv

LEMMA StepInv == IInv /\ [Next]_vars => IInv'
<1> SUFFICES ASSUME IInv, [Next]_vars PROVE IInv'
  OBVIOUS
<1>1. TInv' /\ MapsAgree'
  BY StepTypes, StepMaps DEF IInv
<1>2. EntriesFit' /\ CallsFit'
  <2>1. CASE Next
    BY <2>1, EventFits, CacheFits, CallerFits DEF Next
  <2>2. CASE UNCHANGED vars
    <3>1. UNCHANGED World /\ UNCHANGED <<configs, secrets, unguarded, call>>
      BY <2>2 DEF vars, apiVars, cacheVars, World
    <3> QED BY <3>1 DEF World, IInv, EntriesFit, CallsFit, CallFits, Fits
  <2> QED BY <2>1, <2>2
<1> QED BY <1>1, <1>2 DEF IInv

LEMMA Invariance == Spec => []IInv
  BY InitInv, StepInv, PTL DEF Spec

-----------------------------------------------------------------------------
(* Every variable keeps its type. *)
THEOREM TypeCorrect == Spec => []TypeOK
<1>1. IInv => TypeOK
  BY DEF IInv, TInv, ApiOK, CacheOK, LockOK, CallsOK, Call, TypeOK
<1> QED BY <1>1, Invariance, PTL

(* The write lock has at most one holder, and only calls that read the     *)
(* cluster and have not stored the result yet hold it.                      *)
THEOREM OneWriter ==
  Spec => [](\A p, q \in Callers : call[p].step \in {"resolve", "store"}
                                   /\ call[q].step \in {"resolve", "store"} => p = q)
<1>1. IInv => \A p, q \in Callers : call[p].step \in {"resolve", "store"}
                                    /\ call[q].step \in {"resolve", "store"} => p = q
  BY DEF IInv, TInv, LockOK
<1> QED BY <1>1, Invariance, PTL

(* The five maps of the cache agree about every cluster, whatever evicts   *)
(* it or StoreRestConfig replaces.                                          *)
THEOREM MapsAlwaysAgree == Spec => []MapsAgree
<1>1. IInv => MapsAgree
  BY DEF IInv
<1> QED BY <1>1, Invariance, PTL

(* A config that GetKubernetesRestConfig cached, or that StoreRestConfig    *)
(* stored up to date under a Secret that lists the cluster, is out of date  *)
(* only while an event that will evict it is pending.                       *)
THEOREM NoChangeIsMissed == Spec => []OutOfDateOnlyUntilEvent
<1>1. IInv => OutOfDateOnlyUntilEvent
  <2> SUFFICES ASSUME IInv, NEW c \in Clusters \ unguarded, Cached(configs, c),
                      c \notin clusterEvents, configs[c].secret \notin secretEvents
               PROVE  UpToDate(configs[c], c)
    BY DEF OutOfDateOnlyUntilEvent
  <2>1. Fits(configs[c], c)
    BY DEF IInv, EntriesFit, Cached
  <2>2. configs[c] \in Config
    BY DEF IInv, TInv, CacheOK, Cached
  <2>3. CASE configs[c].kind = "kubeconfig"
    <3>1. configs[c] = Kubeconfig(configs[c].secret, configs[c].version)
      BY <2>2, <2>3 DEF Config, Kubeconfig
    <3> QED BY <2>1, <2>3, <3>1 DEF Fits, UpToDate
  <2>4. CASE configs[c].kind # "kubeconfig"
    <3>1. configs[c].kind \in {"token", "pull"}
      BY <2>2, <2>4 DEF Config
    <3> QED BY <2>1, <3>1 DEF Fits, UpToDate
  <2> QED BY <2>3, <2>4
<1> QED BY <1>1, Invariance, PTL
=============================================================================
