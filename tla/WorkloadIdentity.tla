-------------------------- MODULE WorkloadIdentity --------------------------
(***************************************************************************)
(* lib/clusterproxy/workload_identity.go: the rest.Config of one           *)
(* SveltosCluster whose credentials come from a cloud provider.  wiCache   *)
(* keeps the last config with the expiry of its token and a hash of the    *)
(* spec it was built from; a caller that cannot use the entry fetches a    *)
(* new one, and callers that do so at the same time share one flight       *)
(* (singleflight).  Some callers come through lib/clustercache, which      *)
(* keeps what it got, whatever its expiry, until the cluster changes or a  *)
(* caller reports that it was rejected.  Time passes between all steps.    *)
(* Entries of different clusters do not interact, so there is one cluster. *)
(***************************************************************************)
EXTENDS Naturals

CONSTANTS Specs,         \* values of spec.workloadIdentity; the hash identifies them
          CAs,           \* contents of the CA Secret the spec refers to
          Callers,       \* goroutines
          CachedCallers, \* those that come through lib/clustercache
          Lifetimes,     \* how long a new token may live
          Threshold,     \* wiRefreshThreshold
          None

(* left is the time until expiresAt.  joined is history: the caller that   *)
(* was handed this config shared a flight another caller had begun.        *)
Config == [spec : Specs, ca : CAs, left : Nat, joined : BOOLEAN]
Entry == [specHash : Specs, config : Config]
Steps == {"idle", "get", "load", "do", "waiting", "got", "using", "evict", "evictWI"}
Call == [step : Steps, wi : Specs \cup {None}, joined : BOOLEAN, config : Config \cup {None}]
Idle == [step |-> "idle", wi |-> None, joined |-> FALSE, config |-> None]

Flight == [step : {"ca", "token", "end"}, wi : Specs, ca : CAs \cup {None},
           config : Config \cup {None}]

ASSUME WorkloadIdentityAssumption ==
  /\ CachedCallers \subseteq Callers
  /\ Lifetimes \subseteq Nat
  /\ Threshold \in Nat
  /\ None \notin Specs \cup CAs \cup Callers \cup Config \cup Flight

VARIABLES
  spec,    \* spec.workloadIdentity of the cluster, None while it does not exist
  ca,      \* content of the CA Secret
  changed, \* the controller has not handled the last change of the cluster
  leaving, \* it has still to evict the entry of a deleted cluster
  wiCache, \* the entry of the cluster, or None
  flight,  \* the call of wiGroup in flight, or None
  held,    \* what lib/clustercache holds for the cluster, or None
  lock,    \* the caller that holds lib/clustercache's write lock, or None
  call     \* what each caller is doing

clusterVars == <<spec, ca, changed, leaving>>
vars == <<clusterVars, wiCache, flight, held, lock, call>>

Init == /\ spec \in Specs
        /\ ca \in CAs
        /\ changed = FALSE /\ leaving = FALSE
        /\ wiCache = None
        /\ flight = None
        /\ held = None
        /\ lock = None
        /\ call = [p \in Callers |-> Idle]

-----------------------------------------------------------------------------
(* The world: users edit, delete and recreate the cluster and rotate the   *)
(* CA; the controller of SveltosCluster hears of the former alone.         *)

UpdateCluster(sp) ==
  /\ sp # spec
  /\ spec' = sp
  /\ changed' = TRUE
  /\ UNCHANGED <<ca, leaving, wiCache, flight, held, lock, call>>

(* That the Secret is missing shows as a GetCAData that fails. *)
RotateCA(x) ==
  /\ x # ca
  /\ ca' = x
  /\ UNCHANGED <<spec, changed, leaving, wiCache, flight, held, lock, call>>

Older(config) == IF config = None \/ config.left = 0 THEN config
                                                     ELSE [config EXCEPT !.left = @ - 1]

Configs == {held} \cup {call[p].config : p \in Callers}
           \cup (IF wiCache = None THEN {} ELSE {wiCache.config})
           \cup (IF flight = None THEN {} ELSE {flight.config})

Tick ==
  /\ \E config \in Configs : Older(config) # config
  /\ wiCache' = IF wiCache = None THEN None ELSE [wiCache EXCEPT !.config = Older(@)]
  /\ flight' = IF flight = None THEN None ELSE [flight EXCEPT !.config = Older(@)]
  /\ held' = Older(held)
  /\ call' = [p \in Callers |-> [call[p] EXCEPT !.config = Older(@)]]
  /\ UNCHANGED <<clusterVars, lock>>

(* RemoveCluster takes the write lock.  The handler of a deleted cluster   *)
(* then calls EvictWorkloadIdentityCache, which does not.                  *)
MayEvictAnyTime == TRUE
MayEvict == lock = None

EvictWorkloadIdentityCache == wiCache' = None

HandleChange ==
  \/ /\ changed /\ MayEvict
     /\ changed' = FALSE
     /\ held' = None
     /\ leaving' = (leaving \/ spec = None)
     /\ UNCHANGED <<spec, ca, wiCache, flight, lock, call>>
  \/ /\ leaving
     /\ leaving' = FALSE
     /\ EvictWorkloadIdentityCache
     /\ UNCHANGED <<spec, ca, changed, flight, held, lock, call>>

-----------------------------------------------------------------------------
(* One call of lib/clustercache or of lib/clusterproxy *)

Goto(p, step) == call' = [call EXCEPT ![p].step = step]

LockKept(ps) == lock
Unlocked(ps) == IF lock \in ps THEN None ELSE lock

Fail(p) == /\ lock' = Unlocked({p})
           /\ call' = [call EXCEPT ![p] = Idle]
           /\ UNCHANGED <<clusterVars, wiCache, flight, held>>

(* GetKubernetesRestConfig: a hit is returned as it is; a miss is resolved *)
(* under the write lock.                                                   *)
Start(p) ==
  /\ call[p].step = "idle"
  /\ \/ /\ p \in CachedCallers /\ lock = None /\ held # None
        /\ call' = [call EXCEPT ![p] = [Idle EXCEPT !.step = "using", !.config = held]]
        /\ UNCHANGED lock
     \/ /\ p \in CachedCallers /\ lock = None /\ held = None
        /\ lock' = p
        /\ Goto(p, "get")
     \/ /\ p \notin CachedCallers
        /\ Goto(p, "get")
        /\ UNCHANGED lock
  /\ UNCHANGED <<clusterVars, wiCache, flight, held>>

GetCluster(p) ==
  /\ call[p].step = "get"
  /\ \/ Fail(p)
     \/ /\ spec # None
        /\ call' = [call EXCEPT ![p].step = "load", ![p].wi = spec]
        /\ UNCHANGED <<clusterVars, wiCache, flight, held, lock>>

(* The fast path, and what it would be without one of its two checks. *)
UsableIfAlive(wi) == wiCache # None /\ wiCache.config.left > Threshold
UsableIfSameSpec(wi) == wiCache # None /\ wiCache.specHash = wi
Usable(wi) == /\ wiCache # None
              /\ wiCache.specHash = wi
              /\ wiCache.config.left > Threshold

Load(p) ==
  /\ call[p].step = "load"
  /\ \/ /\ Usable(call[p].wi)
        /\ call' = [call EXCEPT ![p].step = "got", ![p].config = wiCache.config]
     \/ /\ ~Usable(call[p].wi)
        /\ Goto(p, "do")
  /\ UNCHANGED <<clusterVars, wiCache, flight, held, lock>>

(* wiGroup.Do: the key is the cluster, so a flight begun for another spec  *)
(* of it is joined as well.                                                *)
Do(p) ==
  /\ call[p].step = "do"
  /\ \/ /\ flight = None
        /\ flight' = [step |-> "ca", wi |-> call[p].wi, ca |-> None, config |-> None]
        /\ Goto(p, "waiting")
     \/ /\ flight # None
        /\ call' = [call EXCEPT ![p].step = "waiting", ![p].joined = TRUE]
        /\ UNCHANGED flight
  /\ UNCHANGED <<clusterVars, wiCache, held, lock>>

-----------------------------------------------------------------------------
(* The flight *)

FlightFails == flight' = [flight EXCEPT !.step = "end", !.ca = None]

GetCAData ==
  /\ flight # None /\ flight.step = "ca"
  /\ \/ FlightFails
     \/ flight' = [flight EXCEPT !.step = "token", !.ca = ca]
  /\ UNCHANGED <<clusterVars, wiCache, held, lock, call>>

BuildWithoutCA(l) == [spec |-> flight.wi, ca |-> None, left |-> l, joined |-> FALSE]
BuildRestConfig(l) == [spec |-> flight.wi, ca |-> flight.ca, left |-> l, joined |-> FALSE]

GetToken ==
  /\ flight # None /\ flight.step = "token"
  /\ \/ FlightFails /\ UNCHANGED wiCache
     \/ \E l \in Lifetimes :
          /\ wiCache' = [specHash |-> flight.wi, config |-> BuildRestConfig(l)]
          /\ flight' = [flight EXCEPT !.step = "end", !.ca = None, !.config = BuildRestConfig(l)]
  /\ UNCHANGED <<clusterVars, held, lock, call>>

Waiting == {p \in Callers : call[p].step = "waiting"}

(* Everyone who waits gets the result, or the error, of the flight. *)
Answer(p) == IF flight.config = None THEN Idle
             ELSE [call[p] EXCEPT !.step = "got",
                                  !.config = [flight.config EXCEPT !.joined = call[p].joined]]

EndFlight ==
  /\ flight # None /\ flight.step = "end"
  /\ flight' = None
  /\ call' = [p \in Callers |-> IF p \in Waiting THEN Answer(p) ELSE call[p]]
  /\ lock' = IF flight.config = None THEN Unlocked(Waiting) ELSE lock
  /\ UNCHANGED <<clusterVars, wiCache, held>>

-----------------------------------------------------------------------------
(* What the caller does with the config *)

(* A config is also returned, and not kept, when the cluster, read once    *)
(* more, has meanwhile no Secret or cannot be read.                        *)
Store(p) ==
  /\ call[p].step = "got"
  /\ \/ /\ p \in CachedCallers
        /\ held' \in {call[p].config, held}
        /\ call' = [call EXCEPT ![p] = [Idle EXCEPT !.step = "using", !.config = call[p].config]]
     \/ /\ p \notin CachedCallers
        /\ call' = [call EXCEPT ![p] = Idle]
        /\ UNCHANGED held
  /\ lock' = Unlocked({p})
  /\ UNCHANGED <<clusterVars, wiCache, flight>>

(* A request with an expired token is answered 401, and the caller, who    *)
(* uses the cluster cache, then calls InvalidateOnAuthError.  With a CA or *)
(* a spec, and so maybe an endpoint, of before a change there may be no    *)
(* answer at all: the handshake fails, and nothing is reported.            *)
Current(config) == config.spec = spec /\ config.ca = ca

Use(p) ==
  /\ call[p].step = "using"
  /\ \/ /\ call[p].config.left = 0
        /\ call' = [call EXCEPT ![p] = [Idle EXCEPT !.step = "evict"]]
     \/ /\ call[p].config.left > 0 \/ ~Current(call[p].config)
        /\ call' = [call EXCEPT ![p] = Idle]
  /\ UNCHANGED <<clusterVars, wiCache, flight, held, lock>>

HeldKept == held
HeldEvicted == None

InvalidateOnAuthError(p) ==
  \/ /\ call[p].step = "evict" /\ MayEvict
     /\ held' = HeldEvicted
     /\ Goto(p, "evictWI")
     /\ UNCHANGED <<clusterVars, wiCache, flight, lock>>
  \/ /\ call[p].step = "evictWI"
     /\ EvictWorkloadIdentityCache
     /\ call' = [call EXCEPT ![p] = Idle]
     /\ UNCHANGED <<clusterVars, flight, held, lock>>

InFlight == GetCAData \/ GetToken \/ EndFlight
Continue(p) == \/ GetCluster(p) \/ Load(p) \/ Do(p)
               \/ Store(p) \/ Use(p) \/ InvalidateOnAuthError(p)

Next == \/ \E sp \in Specs \cup {None} : UpdateCluster(sp)
        \/ \E x \in CAs : RotateCA(x)
        \/ Tick
        \/ HandleChange
        \/ InFlight
        \/ \E p \in Callers : Start(p) \/ Continue(p)

(* Goroutines run, the cloud provider answers, events are handled and time *)
(* passes; nobody has to call, or to change the cluster.                   *)
Fairness == /\ WF_vars(Tick)
            /\ WF_vars(HandleChange)
            /\ WF_vars(InFlight)
            /\ \A p \in Callers : WF_vars(Continue(p))

Spec == Init /\ [][Next]_vars
FairSpec == Spec /\ Fairness

-----------------------------------------------------------------------------
TypeOK ==
  /\ spec \in Specs \cup {None}
  /\ ca \in CAs
  /\ changed \in BOOLEAN /\ leaving \in BOOLEAN
  /\ wiCache \in Entry \cup {None}
  /\ flight \in Flight \cup {None}
  /\ held \in Config \cup {None}
  /\ lock \in CachedCallers \cup {None}
  /\ call \in [Callers -> Call]

(* getWorkloadIdentityRestConfig answers for the spec it was given, unless *)
(* it joined a flight of another caller: not the fast path, nor a refresh  *)
(* of its own, ever returns a config of an earlier spec.                   *)
OldSpecOnlyWhenJoined ==
  \A p \in Callers :
    call[p].step = "got" /\ ~call[p].config.joined => call[p].config.spec = call[p].wi

(* Once the controller has handled the last change of the cluster,         *)
(* lib/clustercache holds no config of an earlier spec, or of a deleted    *)
(* cluster, again unless a caller joined the flight of another.            *)
HeldIsOfTheSpec ==
  held # None /\ ~held.joined /\ ~changed => held.spec = spec

(* Every call returns: no error path keeps the write lock or a waiter.     *)
CallsReturn == \A p \in Callers : []<>(call[p].step = "idle")

(* An expired config does not stay in lib/clustercache, which looks at no  *)
(* expiry, as long as somebody uses it and its cluster answers: the 401    *)
(* takes it out.  One with the CA of before a rotation may stay.           *)
ExpiredIsReplaced ==
  \A p \in CachedCallers :
    []<>(call[p].step = "using") =>
      ((held # None /\ held.left = 0 /\ Current(held))
         ~> (held = None \/ held.left > 0 \/ ~Current(held)))

(* A CA Secret is rotated without any event, and a spec may come back from *)
(* the flight of a caller that still had the old one; but neither survives *)
(* the tokens: in the end everyone who does not come through               *)
(* lib/clustercache gets the current spec and CA.                          *)
ChangesTakeOver ==
  <>[][FALSE]_<<spec, ca>> =>
    <>[](\A p \in Callers \ CachedCallers :
           call[p].step = "got" => call[p].config.spec = spec /\ call[p].config.ca = ca)
=============================================================================
