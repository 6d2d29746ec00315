----------------------- MODULE WorkloadIdentityProofs -----------------------
(***************************************************************************)
(* Theorems about WorkloadIdentity, for any specs, callers and lifetimes.  *)
(* The invariant follows a config from the flight, or the cache, to the    *)
(* caller and from there into lib/clustercache: each of them knows which   *)
(* spec its config was built from, and a caller that resolves a miss       *)
(* of lib/clustercache holds its lock, so that no change of the cluster is *)
(* handled between its read of the spec and its store.                     *)
(***************************************************************************)
EXTENDS WorkloadIdentity, TLAPS

(* The entry, and the flight, were built from the spec they name.          *)
CacheFits == wiCache # None =>
               wiCache.config.spec = wiCache.specHash /\ ~wiCache.config.joined
FlightFits == flight # None =>
                /\ flight.config # None => flight.config.spec = flight.wi
                /\ flight.step = "token" => flight.ca \in CAs

(* What a caller knows, step by step.                                      *)
CallFits(p) ==
  /\ call[p].step \in {"load", "do", "waiting", "got"} => call[p].wi \in Specs
  /\ call[p].step \in {"got", "using"} => call[p].config \in Config
  /\ call[p].step \in {"idle", "get", "load", "do"} => ~call[p].joined
  /\ call[p].step = "waiting" => flight # None /\ (call[p].joined \/ flight.wi = call[p].wi)
  /\ call[p].step = "got" /\ ~call[p].config.joined => call[p].config.spec = call[p].wi

(* Who resolves a miss of lib/clustercache holds its lock, and has read    *)
(* the spec since the last change that was handled.                        *)
LockFits(p) ==
  p \in CachedCallers =>
    /\ call[p].step \in {"get", "load", "do", "waiting", "got"} => lock = p
    /\ call[p].step \in {"load", "do", "waiting", "got"} /\ ~changed => call[p].wi = spec

IInv == /\ TypeOK
        /\ CacheFits /\ FlightFits
        /\ \A p \in Callers : CallFits(p) /\ LockFits(p)
        /\ HeldIsOfTheSpec

-----------------------------------------------------------------------------
(* A config that gets older stays what it is.                              *)
LEMMA OlderConfig ==
  ASSUME NEW c, c \in Config \cup {None}
  PROVE  /\ Older(c) \in Config \cup {None}
         /\ Older(c) = None <=> c = None
         /\ c # None => Older(c).spec = c.spec /\ Older(c).joined = c.joined
<1>1. CASE c = None BY <1>1 DEF Older
<1>2. CASE c \in Config
  <2>1. c # None BY <1>2, WorkloadIdentityAssumption
  <2>2. CASE c.left = 0 BY <1>2, <2>1, <2>2 DEF Older
  <2>3. CASE c.left # 0
    <3>1. Older(c) = [c EXCEPT !.left = @ - 1] BY <2>1, <2>3 DEF Older
    <3>2. c.left - 1 \in Nat BY <1>2, <2>3 DEF Config
    <3>3. /\ [c EXCEPT !.left = @ - 1] \in Config
          /\ [c EXCEPT !.left = @ - 1].spec = c.spec
          /\ [c EXCEPT !.left = @ - 1].joined = c.joined
      BY <1>2, <3>2 DEF Config
    <3> QED BY <2>1, <3>1, <3>3, WorkloadIdentityAssumption
  <2> QED BY <2>2, <2>3
<1> QED BY <1>1, <1>2

LEMMA InitHolds == Init => IInv
<1> SUFFICES ASSUME Init PROVE IInv OBVIOUS
<1>1. Idle \in Call BY DEF Idle, Call, Steps
<1>2. TypeOK BY <1>1 DEF Init, TypeOK
<1>3. CacheFits /\ FlightFits /\ HeldIsOfTheSpec
  BY DEF Init, CacheFits, FlightFits, HeldIsOfTheSpec
<1>4. ASSUME NEW p \in Callers PROVE CallFits(p) /\ LockFits(p)
  <2>1. call[p].step = "idle" /\ ~call[p].joined BY DEF Init, Idle
  <2> QED BY <2>1 DEF CallFits, LockFits
<1> QED BY <1>2, <1>3, <1>4 DEF IInv

LEMMA UpdateStep ==
  ASSUME IInv, NEW sp \in Specs \cup {None}, UpdateCluster(sp)
  PROVE  IInv'
BY DEF IInv, TypeOK, CacheFits, FlightFits, CallFits, LockFits, HeldIsOfTheSpec, UpdateCluster

LEMMA RotateStep ==
  ASSUME IInv, NEW x \in CAs, RotateCA(x)
  PROVE  IInv'
BY DEF IInv, TypeOK, CacheFits, FlightFits, CallFits, LockFits, HeldIsOfTheSpec, RotateCA

LEMMA HandleStep ==
  ASSUME IInv, HandleChange
  PROVE  IInv'
<1>1. \A p \in Callers : LockFits(p)'
  BY WorkloadIdentityAssumption DEF IInv, TypeOK, LockFits, HandleChange, MayEvict
<1>2. TypeOK' /\ CacheFits' /\ FlightFits' /\ HeldIsOfTheSpec'
  BY DEF IInv, TypeOK, CacheFits, FlightFits, HeldIsOfTheSpec, HandleChange, EvictWorkloadIdentityCache
<1>3. \A p \in Callers : CallFits(p)' BY DEF IInv, CallFits, HandleChange
<1> QED BY <1>1, <1>2, <1>3 DEF IInv

(* A step of the caller p alone, which leaves everyone else as they were.  *)
LEMMA Own ==
  ASSUME IInv, NEW p \in Callers, NEW r \in Call,
         call' = [call EXCEPT ![p] = r],
         UNCHANGED <<spec, ca, changed, leaving, flight>>,
         NEW q \in Callers \ {p}, lock = lock' \/ lock \in {p, None}
  PROVE  CallFits(q)' /\ LockFits(q)'
<1>1. call'[q] = call[q] BY DEF IInv, TypeOK
<1>2. CallFits(q)' BY <1>1 DEF IInv, CallFits
<1>3. q # None BY WorkloadIdentityAssumption
<1>4. LockFits(q)' BY <1>1, <1>3 DEF IInv, LockFits
<1> QED BY <1>2, <1>4

LEMMA IdleCall == Idle \in Call /\ Idle.step = "idle" /\ ~Idle.joined
BY DEF Idle, Call, Steps

LEMMA FailStep ==
  ASSUME IInv, NEW p \in Callers, Fail(p)
  PROVE  IInv'
<1> DEFINE r == Idle
<1>1. r \in Call /\ r.step = "idle" /\ ~r.joined BY IdleCall
<1>2. /\ call' = [call EXCEPT ![p] = r]
      /\ UNCHANGED <<spec, ca, changed, leaving, wiCache, flight, held>>
      /\ lock' = lock \/ (lock = p /\ lock' = None)
  BY DEF Fail, Unlocked, clusterVars
<1> HIDE DEF r
<1>3. call'[p] = r BY <1>2 DEF IInv, TypeOK
<1>4. CallFits(p)' /\ LockFits(p)' BY <1>1, <1>3 DEF CallFits, LockFits
<1>5. \A q \in Callers \ {p} : CallFits(q)' /\ LockFits(q)' BY <1>1, <1>2, Own
<1>6. TypeOK' BY <1>1, <1>2 DEF IInv, TypeOK
<1>7. CacheFits' /\ FlightFits' /\ HeldIsOfTheSpec'
  BY <1>2 DEF IInv, CacheFits, FlightFits, HeldIsOfTheSpec
<1> QED BY <1>4, <1>5, <1>6, <1>7 DEF IInv

LEMMA StartStep ==
  ASSUME IInv, NEW p \in Callers, Start(p)
  PROVE  IInv'
<1>1. call[p] \in Call /\ call[p].step = "idle" /\ ~call[p].joined
  BY DEF IInv, TypeOK, CallFits, Start
<1>2. PICK r \in Call :
        /\ call' = [call EXCEPT ![p] = r]
        /\ \/ r.step = "using" /\ r.config \in Config /\ lock' = lock
           \/ /\ r.step = "get" /\ ~r.joined
              /\ lock' = lock \/ (lock = None /\ lock' = p /\ p \in CachedCallers)
              /\ p \in CachedCallers => lock' = p
  <2>1. CASE /\ p \in CachedCallers /\ lock = None /\ held # None
             /\ call' = [call EXCEPT ![p] = [Idle EXCEPT !.step = "using", !.config = held]]
             /\ UNCHANGED lock
    <3> DEFINE r == [Idle EXCEPT !.step = "using", !.config = held]
    <3>1. held \in Config BY <2>1 DEF IInv, TypeOK
    <3>2. r \in Call /\ r.step = "using" /\ r.config = held
      BY <3>1 DEF Idle, Call, Steps
    <3> HIDE DEF r
    <3>3. call' = [call EXCEPT ![p] = r] BY <2>1 DEF r
    <3> QED BY <2>1, <3>1, <3>2, <3>3
  <2>2. CASE Goto(p, "get") /\ p \in CachedCallers /\ lock = None /\ lock' = p
    <3> DEFINE r == [call[p] EXCEPT !.step = "get"]
    <3>1. r \in Call /\ r.step = "get" /\ ~r.joined BY <1>1 DEF Call, Steps
    <3>2. call' = [call EXCEPT ![p] = r] BY <2>2 DEF Goto
    <3> HIDE DEF r
    <3> QED BY <2>2, <3>1, <3>2
  <2>3. CASE Goto(p, "get") /\ p \notin CachedCallers /\ lock' = lock
    <3> DEFINE r == [call[p] EXCEPT !.step = "get"]
    <3>1. r \in Call /\ r.step = "get" /\ ~r.joined BY <1>1 DEF Call, Steps
    <3>2. call' = [call EXCEPT ![p] = r] BY <2>3 DEF Goto
    <3> HIDE DEF r
    <3> QED BY <2>3, <3>1, <3>2
  <2> QED BY <2>1, <2>2, <2>3 DEF Start
<1>3. UNCHANGED <<spec, ca, changed, leaving, wiCache, flight, held>> BY DEF Start, clusterVars
<1>4. call'[p] = r BY <1>2 DEF IInv, TypeOK
<1>5. CallFits(p)' /\ LockFits(p)' BY <1>2, <1>4 DEF CallFits, LockFits
<1>6. \A q \in Callers \ {p} : CallFits(q)' /\ LockFits(q)' BY <1>2, <1>3, Own
<1>7. TypeOK' BY <1>2, <1>3 DEF IInv, TypeOK
<1>8. CacheFits' /\ FlightFits' /\ HeldIsOfTheSpec'
  BY <1>3 DEF IInv, CacheFits, FlightFits, HeldIsOfTheSpec
<1> QED BY <1>5, <1>6, <1>7, <1>8 DEF IInv

LEMMA GetClusterStep ==
  ASSUME IInv, NEW p \in Callers, GetCluster(p)
  PROVE  IInv'
<1>1. CASE Fail(p) BY <1>1, FailStep
<1>2. CASE /\ spec # None
           /\ call' = [call EXCEPT ![p].step = "load", ![p].wi = spec]
           /\ UNCHANGED <<clusterVars, wiCache, flight, held, lock>>
  <2> DEFINE r == [call[p] EXCEPT !.step = "load", !.wi = spec]
  <2>1. call[p] \in Call /\ call[p].step = "get" /\ ~call[p].joined
    BY DEF IInv, TypeOK, CallFits, GetCluster
  <2>2. spec \in Specs BY <1>2 DEF IInv, TypeOK
  <2>3. r \in Call /\ r.step = "load" /\ r.wi = spec /\ ~r.joined
    BY <2>1, <2>2 DEF Call, Steps
  <2>4. call' = [call EXCEPT ![p] = r] BY <1>2
  <2> HIDE DEF r
  <2>5. UNCHANGED <<spec, ca, changed, leaving, wiCache, flight, held, lock>> BY <1>2 DEF clusterVars
  <2>6. call'[p] = r BY <2>4 DEF IInv, TypeOK
  <2>7. CallFits(p)' BY <2>2, <2>3, <2>6 DEF CallFits
  <2>8. LockFits(p)' BY <2>1, <2>3, <2>5, <2>6 DEF IInv, LockFits
  <2>9. \A q \in Callers \ {p} : CallFits(q)' /\ LockFits(q)' BY <2>3, <2>4, <2>5, Own
  <2>10. TypeOK' BY <2>3, <2>4, <2>5 DEF IInv, TypeOK
  <2>11. CacheFits' /\ FlightFits' /\ HeldIsOfTheSpec'
    BY <2>5 DEF IInv, CacheFits, FlightFits, HeldIsOfTheSpec
  <2> QED BY <2>7, <2>8, <2>9, <2>10, <2>11 DEF IInv
<1> QED BY <1>1, <1>2 DEF GetCluster

LEMMA LoadStep ==
  ASSUME IInv, NEW p \in Callers, Load(p)
  PROVE  IInv'
<1>1. /\ call[p] \in Call /\ call[p].step = "load" /\ ~call[p].joined /\ call[p].wi \in Specs
      /\ UNCHANGED <<spec, ca, changed, leaving, wiCache, flight, held, lock>>
  BY DEF IInv, TypeOK, CallFits, Load, clusterVars
<1>2. PICK r \in Call :
        /\ call' = [call EXCEPT ![p] = r] /\ r.wi = call[p].wi
        /\ \/ r.step = "do" /\ ~r.joined
           \/ r.step = "got" /\ r.config \in Config /\ r.config.spec = r.wi
  <2>1. CASE /\ Usable(call[p].wi)
             /\ call' = [call EXCEPT ![p].step = "got", ![p].config = wiCache.config]
    <3> DEFINE r == [call[p] EXCEPT !.step = "got", !.config = wiCache.config]
    <3>1. wiCache \in Entry BY <2>1 DEF IInv, TypeOK, Usable
    <3>2. wiCache.config \in Config /\ wiCache.config.spec = call[p].wi
      BY <2>1, <3>1 DEF IInv, CacheFits, Usable, Entry
    <3>3. r \in Call /\ r.step = "got" /\ r.wi = call[p].wi /\ r.config = wiCache.config
      BY <1>1, <3>2 DEF Call, Steps
    <3>4. call' = [call EXCEPT ![p] = r] BY <2>1
    <3> HIDE DEF r
    <3> QED BY <3>2, <3>3, <3>4
  <2>2. CASE Goto(p, "do")
    <3> DEFINE r == [call[p] EXCEPT !.step = "do"]
    <3>1. r \in Call /\ r.step = "do" /\ r.wi = call[p].wi /\ ~r.joined
      BY <1>1 DEF Call, Steps
    <3>2. call' = [call EXCEPT ![p] = r] BY <2>2 DEF Goto
    <3> HIDE DEF r
    <3> QED BY <3>1, <3>2
  <2> QED BY <2>1, <2>2 DEF Load
<1>3. call'[p] = r BY <1>2 DEF IInv, TypeOK
<1>4. CallFits(p)' BY <1>1, <1>2, <1>3 DEF CallFits
<1>5. LockFits(p)' BY <1>1, <1>2, <1>3 DEF IInv, LockFits
<1>6. \A q \in Callers \ {p} : CallFits(q)' /\ LockFits(q)' BY <1>1, <1>2, Own
<1>7. TypeOK' BY <1>1, <1>2 DEF IInv, TypeOK
<1>8. CacheFits' /\ FlightFits' /\ HeldIsOfTheSpec'
  BY <1>1 DEF IInv, CacheFits, FlightFits, HeldIsOfTheSpec
<1> QED BY <1>4, <1>5, <1>6, <1>7, <1>8 DEF IInv

(* A flight begins only when there is none, so nobody waits for it yet.    *)
LEMMA DoStep ==
  ASSUME IInv, NEW p \in Callers, Do(p)
  PROVE  IInv'
<1>1. /\ call[p] \in Call /\ call[p].step = "do" /\ ~call[p].joined /\ call[p].wi \in Specs
      /\ UNCHANGED <<spec, ca, changed, leaving, wiCache, held, lock>>
  BY DEF IInv, TypeOK, CallFits, Do, clusterVars
<1>2. PICK r \in Call :
        /\ call' = [call EXCEPT ![p] = r] /\ r.wi = call[p].wi /\ r.step = "waiting"
        /\ \/ flight' = flight /\ flight # None /\ r.joined
           \/ /\ flight = None /\ flight' \in Flight /\ flight'.wi = call[p].wi
              /\ flight'.config = None /\ flight'.step = "ca"
  <2>1. CASE /\ flight = None
             /\ flight' = [step |-> "ca", wi |-> call[p].wi, ca |-> None, config |-> None]
             /\ Goto(p, "waiting")
    <3> DEFINE r == [call[p] EXCEPT !.step = "waiting"]
    <3>1. r \in Call /\ r.step = "waiting" /\ r.wi = call[p].wi
      BY <1>1 DEF Call, Steps
    <3>2. call' = [call EXCEPT ![p] = r] BY <2>1 DEF Goto
    <3>3. flight' \in Flight BY <1>1, <2>1 DEF Flight
    <3> HIDE DEF r
    <3> QED BY <2>1, <3>1, <3>2, <3>3
  <2>2. CASE /\ flight # None
             /\ call' = [call EXCEPT ![p].step = "waiting", ![p].joined = TRUE]
             /\ UNCHANGED flight
    <3> DEFINE r == [call[p] EXCEPT !.step = "waiting", !.joined = TRUE]
    <3>1. r \in Call /\ r.step = "waiting" /\ r.wi = call[p].wi /\ r.joined
      BY <1>1 DEF Call, Steps
    <3>2. call' = [call EXCEPT ![p] = r] BY <2>2
    <3> HIDE DEF r
    <3> QED BY <2>2, <3>1, <3>2
  <2> QED BY <2>1, <2>2 DEF Do
<1>3. call'[p] = r BY <1>2 DEF IInv, TypeOK
<1>4. flight' # None BY <1>2, WorkloadIdentityAssumption
<1>5. CallFits(p)' BY <1>1, <1>2, <1>3, <1>4 DEF CallFits
<1>6. LockFits(p)' BY <1>1, <1>2, <1>3 DEF IInv, LockFits
<1>7. ASSUME NEW q \in Callers \ {p} PROVE CallFits(q)' /\ LockFits(q)'
  <2>1. call'[q] = call[q] BY <1>2 DEF IInv, TypeOK
  <2>2. CallFits(q) /\ LockFits(q) BY DEF IInv
  <2>3. CallFits(q)' BY <1>2, <2>1, <2>2 DEF CallFits
  <2>4. LockFits(q)' BY <1>1, <2>1, <2>2 DEF LockFits
  <2> QED BY <2>3, <2>4
<1>8. TypeOK' BY <1>1, <1>2 DEF IInv, TypeOK
<1>9. CacheFits' /\ HeldIsOfTheSpec' BY <1>1 DEF IInv, CacheFits, HeldIsOfTheSpec
<1>10. FlightFits' BY <1>2 DEF IInv, FlightFits
<1> QED BY <1>5, <1>6, <1>7, <1>8, <1>9, <1>10 DEF IInv

-----------------------------------------------------------------------------
(* The flight                                                              *)

(* Nothing but the flight, and the entry, changes.                         *)
LEMMA FlightStep ==
  ASSUME IInv, flight # None, NEW f \in Flight, flight' = f, f.wi = flight.wi,
         f.config # None => f.config.spec = f.wi,
         f.step = "token" => f.ca \in CAs,
         wiCache' \in Entry \cup {None}, CacheFits',
         UNCHANGED <<spec, ca, changed, leaving, held, lock, call>>
  PROVE  IInv'
<1>1. f # None BY WorkloadIdentityAssumption
<1>2. ASSUME NEW q \in Callers PROVE CallFits(q)' /\ LockFits(q)'
  <2>1. CallFits(q)' BY <1>1 DEF IInv, CallFits
  <2>2. LockFits(q)' BY DEF IInv, LockFits
  <2> QED BY <2>1, <2>2
<1>3. TypeOK' BY DEF IInv, TypeOK
<1>4. FlightFits' BY DEF FlightFits
<1>5. HeldIsOfTheSpec' BY DEF IInv, HeldIsOfTheSpec
<1> QED BY <1>2, <1>3, <1>4, <1>5 DEF IInv

LEMMA FailedFlight ==
  ASSUME IInv, flight # None, FlightFails
  PROVE  /\ flight' \in Flight /\ flight'.wi = flight.wi /\ flight'.step = "end"
         /\ flight'.config = flight.config
         /\ flight.config # None => flight.config.spec = flight.wi
BY DEF IInv, TypeOK, FlightFits, FlightFails, Flight

LEMMA GetCADataStep ==
  ASSUME IInv, GetCAData
  PROVE  IInv'
<1>1. /\ flight \in Flight /\ flight # None /\ ca \in CAs
      /\ flight.config # None => flight.config.spec = flight.wi
      /\ wiCache' = wiCache /\ wiCache \in Entry \cup {None}
      /\ UNCHANGED <<spec, ca, changed, leaving, held, lock, call>>
  BY DEF IInv, TypeOK, FlightFits, GetCAData, clusterVars
<1>2. CacheFits' BY <1>1 DEF IInv, CacheFits
<1>3. CASE FlightFails BY <1>1, <1>2, <1>3, FailedFlight, FlightStep
<1>4. CASE flight' = [flight EXCEPT !.step = "token", !.ca = ca]
  <2>1. /\ flight' \in Flight /\ flight'.wi = flight.wi /\ flight'.config = flight.config
        /\ flight'.ca \in CAs
    BY <1>1, <1>4 DEF Flight
  <2> QED BY <1>1, <1>2, <2>1, FlightStep
<1> QED BY <1>3, <1>4 DEF GetCAData

LEMMA GetTokenStep ==
  ASSUME IInv, GetToken
  PROVE  IInv'
<1>1. /\ flight \in Flight /\ flight # None /\ flight.ca \in CAs
      /\ wiCache \in Entry \cup {None}
      /\ UNCHANGED <<spec, ca, changed, leaving, held, lock, call>>
  <2>1. /\ flight # None /\ flight.step = "token"
        /\ UNCHANGED <<spec, ca, changed, leaving, held, lock, call>>
    BY DEF GetToken, clusterVars
  <2>2. TypeOK /\ FlightFits BY DEF IInv
  <2> QED BY <2>1, <2>2 DEF TypeOK, FlightFits
<1>2. CASE FlightFails /\ UNCHANGED wiCache
  <2>1. CacheFits' BY <1>2 DEF IInv, CacheFits
  <2> QED BY <1>1, <1>2, <2>1, FailedFlight, FlightStep
<1>3. ASSUME NEW l \in Lifetimes,
             wiCache' = [specHash |-> flight.wi, config |-> BuildRestConfig(l)],
             flight' = [flight EXCEPT !.step = "end", !.ca = None, !.config = BuildRestConfig(l)]
      PROVE  IInv'
  <2> DEFINE c == BuildRestConfig(l)
  <2>1. c \in Config /\ c.spec = flight.wi /\ ~c.joined
    BY <1>1, WorkloadIdentityAssumption DEF BuildRestConfig, Config, Flight
  <2>2. wiCache' = [specHash |-> flight.wi, config |-> c] BY <1>3
  <2>3. flight' = [flight EXCEPT !.step = "end", !.ca = None, !.config = c] BY <1>3
  <2> HIDE DEF c
  <2>4. wiCache' \in Entry /\ CacheFits' BY <1>1, <2>1, <2>2 DEF Entry, Flight, CacheFits
  <2>5. /\ flight' \in Flight /\ flight'.wi = flight.wi /\ flight'.config = c
        /\ flight'.step = "end"
    BY <1>1, <2>1, <2>3 DEF Flight
  <2> QED BY <1>1, <2>1, <2>4, <2>5, FlightStep
<1>4. \/ FlightFails /\ UNCHANGED wiCache
      \/ \E l \in Lifetimes :
           /\ wiCache' = [specHash |-> flight.wi, config |-> BuildRestConfig(l)]
           /\ flight' = [flight EXCEPT !.step = "end", !.ca = None, !.config = BuildRestConfig(l)]
  BY Zenon DEF GetToken
<1> QED BY <1>2, <1>3, <1>4

(* Whoever began the flight gets a config of the spec it read; who joined  *)
(* it gets one that says so.                                               *)
LEMMA AnswerFits ==
  ASSUME IInv, flight # None, NEW p \in Waiting
  PROVE  /\ Answer(p) \in Call
         /\ flight.config = None => Answer(p).step = "idle" /\ ~Answer(p).joined
         /\ flight.config # None =>
              /\ Answer(p).step = "got" /\ Answer(p).wi = call[p].wi
              /\ Answer(p).config \in Config
              /\ ~Answer(p).config.joined => Answer(p).config.spec = Answer(p).wi
<1>1. CASE flight.config = None BY <1>1, IdleCall DEF Answer
<1>2. CASE flight.config # None
  <2> DEFINE c == [flight.config EXCEPT !.joined = call[p].joined]
  <2>1. /\ call[p] \in Call /\ (call[p].joined \/ flight.wi = call[p].wi)
        /\ flight.config.spec = flight.wi /\ flight.config \in Config
    BY <1>2 DEF IInv, TypeOK, CallFits, FlightFits, Waiting, Flight
  <2>2. c \in Config /\ c.joined = call[p].joined /\ c.spec = flight.wi
    BY <2>1 DEF Config, Call
  <2>3. Answer(p) = [call[p] EXCEPT !.step = "got", !.config = c] BY <1>2 DEF Answer
  <2> HIDE DEF c
  <2>4. /\ Answer(p) \in Call /\ Answer(p).step = "got" /\ Answer(p).wi = call[p].wi
        /\ Answer(p).config = c
    BY <2>1, <2>2, <2>3 DEF Call, Steps
  <2> QED BY <1>2, <2>1, <2>2, <2>4
<1> QED BY <1>1, <1>2

LEMMA EndFlightStep ==
  ASSUME IInv, EndFlight
  PROVE  IInv'
<1>1. /\ flight # None /\ flight' = None
      /\ call' = [p \in Callers |-> IF p \in Waiting THEN Answer(p) ELSE call[p]]
      /\ lock' = IF flight.config = None THEN Unlocked(Waiting) ELSE lock
      /\ UNCHANGED <<spec, ca, changed, leaving, wiCache, held>>
  BY DEF EndFlight, clusterVars
<1>2. ASSUME NEW q \in Callers PROVE call'[q] \in Call /\ CallFits(q)' /\ LockFits(q)'
  <2>1. CASE q \in Waiting
    <3>1. call'[q] = Answer(q) BY <1>1, <2>1
    <3>2. call'[q] \in Call BY <1>1, <2>1, <3>1, AnswerFits
    <3>3. call[q].step = "waiting" BY <2>1 DEF Waiting
    <3>4. call[q].wi \in Specs BY <3>3 DEF IInv, CallFits
    <3>5. CallFits(q)'
      <4>1. CASE flight.config = None BY <1>1, <2>1, <3>1, <4>1, AnswerFits DEF CallFits
      <4>2. CASE flight.config # None BY <1>1, <2>1, <3>1, <3>4, <4>2, AnswerFits DEF CallFits
      <4> QED BY <4>1, <4>2
    <3>6. LockFits(q)'
      <4>1. CASE flight.config = None BY <1>1, <2>1, <3>1, <4>1, AnswerFits DEF LockFits
      <4>2. CASE flight.config # None
        BY <1>1, <2>1, <3>1, <3>3, <4>2, AnswerFits DEF LockFits, IInv
      <4> QED BY <4>1, <4>2
    <3> QED BY <3>2, <3>5, <3>6
  <2>2. CASE q \notin Waiting
    <3>1. call'[q] = call[q] /\ call[q].step # "waiting" BY <1>1, <2>2 DEF Waiting
    <3>2. call'[q] \in Call BY <3>1 DEF IInv, TypeOK
    <3>3. CallFits(q)' BY <3>1 DEF IInv, CallFits
    <3>4. lock = q => lock' = q BY <1>1, <2>2 DEF Unlocked
    <3>5. LockFits(q)' BY <1>1, <3>1, <3>4 DEF IInv, LockFits
    <3> QED BY <3>2, <3>3, <3>5
  <2> QED BY <2>1, <2>2
<1>3. call' \in [Callers -> Call] BY <1>1, <1>2
<1>4. lock' \in CachedCallers \cup {None} BY <1>1 DEF IInv, TypeOK, Unlocked
<1>5. TypeOK' BY <1>1, <1>3, <1>4 DEF IInv, TypeOK
<1>6. CacheFits' /\ FlightFits' /\ HeldIsOfTheSpec'
  BY <1>1 DEF IInv, CacheFits, FlightFits, HeldIsOfTheSpec
<1> QED BY <1>2, <1>5, <1>6 DEF IInv

-----------------------------------------------------------------------------
(* Time, and what callers do with a config                                 *)

LEMMA TickStep ==
  ASSUME IInv, Tick
  PROVE  IInv'
<1>1. /\ wiCache' = IF wiCache = None THEN None ELSE [wiCache EXCEPT !.config = Older(@)]
      /\ flight' = IF flight = None THEN None ELSE [flight EXCEPT !.config = Older(@)]
      /\ held' = Older(held)
      /\ call' = [p \in Callers |-> [call[p] EXCEPT !.config = Older(@)]]
      /\ UNCHANGED <<spec, ca, changed, leaving, lock>>
  BY DEF Tick, clusterVars
<1>2. wiCache' \in Entry \cup {None} /\ CacheFits'
  <2>1. CASE wiCache = None BY <1>1, <2>1 DEF CacheFits
  <2>2. CASE wiCache # None
    <3>1. wiCache \in Entry /\ wiCache.config \in Config /\ wiCache.config # None
          /\ wiCache.config.spec = wiCache.specHash /\ ~wiCache.config.joined
      BY <2>2, WorkloadIdentityAssumption DEF IInv, TypeOK, CacheFits, Entry
    <3> DEFINE c == Older(wiCache.config)
    <3>2. c \in Config /\ c.spec = wiCache.specHash /\ ~c.joined BY <3>1, OlderConfig
    <3>3. wiCache' = [wiCache EXCEPT !.config = c] BY <1>1, <2>2
    <3> HIDE DEF c
    <3> QED BY <3>1, <3>2, <3>3 DEF Entry, CacheFits
  <2> QED BY <2>1, <2>2
<1>3. /\ flight' \in Flight \cup {None} /\ FlightFits'
      /\ flight # None => flight' # None /\ flight'.wi = flight.wi
  <2>1. CASE flight = None BY <1>1, <2>1 DEF FlightFits
  <2>2. CASE flight # None
    <3>1. /\ flight \in Flight /\ flight.config \in Config \cup {None}
          /\ flight.config # None => flight.config.spec = flight.wi
          /\ flight.step = "token" => flight.ca \in CAs
      BY <2>2 DEF IInv, TypeOK, FlightFits, Flight
    <3> DEFINE c == Older(flight.config)
    <3>2. c \in Config \cup {None} /\ (c # None => c.spec = flight.wi) BY <3>1, OlderConfig
    <3>3. flight' = [flight EXCEPT !.config = c] BY <1>1, <2>2
    <3> HIDE DEF c
    <3>4. /\ flight' \in Flight /\ flight'.config = c /\ flight'.wi = flight.wi
          /\ flight'.step = flight.step /\ flight'.ca = flight.ca
      BY <3>1, <3>2, <3>3 DEF Flight
    <3> QED BY <3>1, <3>2, <3>4, WorkloadIdentityAssumption DEF FlightFits
  <2> QED BY <2>1, <2>2
<1>4. held' \in Config \cup {None} /\ HeldIsOfTheSpec'
  <2>1. held \in Config \cup {None} BY DEF IInv, TypeOK
  <2> QED BY <1>1, <2>1, OlderConfig DEF IInv, HeldIsOfTheSpec
<1>5. ASSUME NEW q \in Callers PROVE call'[q] \in Call /\ CallFits(q)' /\ LockFits(q)'
  <2>1. call[q] \in Call /\ call[q].config \in Config \cup {None} BY DEF IInv, TypeOK, Call
  <2> DEFINE c == Older(call[q].config)
  <2>2. /\ c \in Config \cup {None} /\ (c = None <=> call[q].config = None)
        /\ c # None => c.spec = call[q].config.spec /\ c.joined = call[q].config.joined
    BY <2>1, OlderConfig
  <2>3. call'[q] = [call[q] EXCEPT !.config = c] BY <1>1
  <2> HIDE DEF c
  <2>4. /\ call'[q] \in Call /\ call'[q].config = c /\ call'[q].wi = call[q].wi
        /\ call'[q].step = call[q].step /\ call'[q].joined = call[q].joined
    BY <2>1, <2>2, <2>3 DEF Call
  <2>5. CallFits(q) /\ LockFits(q) BY DEF IInv
  <2>6. LockFits(q)' BY <1>1, <2>4, <2>5 DEF LockFits
  <2>7. call[q].config \in Config => c \in Config /\ c # None
    BY <2>2, WorkloadIdentityAssumption
  <2>8. CallFits(q)' BY <1>3, <2>2, <2>4, <2>5, <2>7 DEF CallFits
  <2> QED BY <2>4, <2>6, <2>8
<1>6. call' \in [Callers -> Call] BY <1>1, <1>5
<1>7. TypeOK' BY <1>1, <1>2, <1>3, <1>4, <1>6 DEF IInv, TypeOK
<1> QED BY <1>2, <1>3, <1>4, <1>5, <1>7 DEF IInv

(* What lib/clustercache stores was resolved under its lock, so it is of   *)
(* the present spec unless a change is still to be handled.                *)
LEMMA StoreStep ==
  ASSUME IInv, NEW p \in Callers, Store(p)
  PROVE  IInv'
<1>1. /\ call[p] \in Call /\ call[p].step = "got" /\ call[p].config \in Config
      /\ ~call[p].config.joined => call[p].config.spec = call[p].wi
      /\ p \in CachedCallers /\ ~changed => call[p].wi = spec
      /\ UNCHANGED <<spec, ca, changed, leaving, wiCache, flight>>
      /\ lock' = lock \/ (lock = p /\ lock' = None)
  BY DEF IInv, TypeOK, CallFits, LockFits, Store, Unlocked, clusterVars
<1>2. PICK r \in Call :
        /\ call' = [call EXCEPT ![p] = r]
        /\ \/ r.step = "using" /\ r.config \in Config
           \/ r.step = "idle" /\ ~r.joined
  <2>1. CASE p \notin CachedCallers BY <2>1, IdleCall DEF Store
  <2>2. CASE p \in CachedCallers
    <3> DEFINE r == [Idle EXCEPT !.step = "using", !.config = call[p].config]
    <3>1. r \in Call /\ r.step = "using" /\ r.config = call[p].config
      BY <1>1 DEF Idle, Call, Steps
    <3>2. call' = [call EXCEPT ![p] = r] BY <2>2 DEF Store
    <3> HIDE DEF r
    <3> QED BY <1>1, <3>1, <3>2
  <2> QED BY <2>1, <2>2
<1>3. held' = held \/ (p \in CachedCallers /\ held' = call[p].config) BY DEF Store
<1>4. call'[p] = r BY <1>2 DEF IInv, TypeOK
<1>5. CallFits(p)' /\ LockFits(p)' BY <1>2, <1>4 DEF CallFits, LockFits
<1>6. \A q \in Callers \ {p} : CallFits(q)' /\ LockFits(q)' BY <1>1, <1>2, Own
<1>7. TypeOK' BY <1>1, <1>2, <1>3 DEF IInv, TypeOK
<1>8. HeldIsOfTheSpec' BY <1>1, <1>3 DEF IInv, HeldIsOfTheSpec
<1>9. CacheFits' /\ FlightFits' BY <1>1 DEF IInv, CacheFits, FlightFits
<1> QED BY <1>5, <1>6, <1>7, <1>8, <1>9 DEF IInv

LEMMA UseStep ==
  ASSUME IInv, NEW p \in Callers, Use(p)
  PROVE  IInv'
<1>1. PICK r \in Call :
        call' = [call EXCEPT ![p] = r] /\ ~r.joined /\ r.step \in {"idle", "evict"}
  <2> DEFINE e == [Idle EXCEPT !.step = "evict"]
  <2>1. e \in Call /\ e.step = "evict" /\ ~e.joined BY DEF Idle, Call, Steps
  <2>2. \/ call' = [call EXCEPT ![p] = e]
        \/ call' = [call EXCEPT ![p] = Idle]
    BY DEF Use
  <2> HIDE DEF e
  <2> QED BY <2>1, <2>2, IdleCall
<1>2. UNCHANGED <<spec, ca, changed, leaving, wiCache, flight, held, lock>> BY DEF Use, clusterVars
<1>3. call'[p] = r BY <1>1 DEF IInv, TypeOK
<1>4. CallFits(p)' /\ LockFits(p)' BY <1>1, <1>3 DEF CallFits, LockFits
<1>5. \A q \in Callers \ {p} : CallFits(q)' /\ LockFits(q)' BY <1>1, <1>2, Own
<1>6. TypeOK' BY <1>1, <1>2 DEF IInv, TypeOK
<1>7. CacheFits' /\ FlightFits' /\ HeldIsOfTheSpec'
  BY <1>2 DEF IInv, CacheFits, FlightFits, HeldIsOfTheSpec
<1> QED BY <1>4, <1>5, <1>6, <1>7 DEF IInv

LEMMA InvalidateStep ==
  ASSUME IInv, NEW p \in Callers, InvalidateOnAuthError(p)
  PROVE  IInv'
<1>1. PICK r \in Call :
        call' = [call EXCEPT ![p] = r] /\ ((r.step = "idle" /\ ~r.joined) \/ r.step = "evictWI")
  <2> DEFINE e == [call[p] EXCEPT !.step = "evictWI"]
  <2>1. e \in Call /\ e.step = "evictWI" BY DEF IInv, TypeOK, Call, Steps
  <2>2. \/ call' = [call EXCEPT ![p] = e]
        \/ call' = [call EXCEPT ![p] = Idle]
    BY DEF InvalidateOnAuthError, Goto
  <2> HIDE DEF e
  <2> QED BY <2>1, <2>2, IdleCall
<1>2. /\ UNCHANGED <<spec, ca, changed, leaving, flight, lock>>
      /\ held' \in {held, None} /\ wiCache' \in {wiCache, None}
  BY DEF InvalidateOnAuthError, HeldEvicted, EvictWorkloadIdentityCache, clusterVars
<1>3. call'[p] = r BY <1>1 DEF IInv, TypeOK
<1>4. CallFits(p)' /\ LockFits(p)' BY <1>1, <1>3 DEF CallFits, LockFits
<1>5. \A q \in Callers \ {p} : CallFits(q)' /\ LockFits(q)' BY <1>1, <1>2, Own
<1>6. TypeOK' BY <1>1, <1>2 DEF IInv, TypeOK
<1>7. CacheFits' /\ FlightFits' /\ HeldIsOfTheSpec'
  BY <1>2 DEF IInv, CacheFits, FlightFits, HeldIsOfTheSpec
<1> QED BY <1>4, <1>5, <1>6, <1>7 DEF IInv

-----------------------------------------------------------------------------
LEMMA StutterStep ==
  ASSUME IInv, UNCHANGED vars
  PROVE  IInv'
BY DEF IInv, TypeOK, CacheFits, FlightFits, CallFits, LockFits, HeldIsOfTheSpec, vars, clusterVars

LEMMA NextStep ==
  ASSUME IInv, [Next]_vars
  PROVE  IInv'
<1>1. CASE UNCHANGED vars BY <1>1, StutterStep
<1>2. ASSUME NEW sp \in Specs \cup {None}, UpdateCluster(sp) PROVE IInv' BY <1>2, UpdateStep
<1>3. ASSUME NEW x \in CAs, RotateCA(x) PROVE IInv' BY <1>3, RotateStep
<1>4. CASE Tick BY <1>4, TickStep
<1>5. CASE HandleChange BY <1>5, HandleStep
<1>6. CASE InFlight BY <1>6, GetCADataStep, GetTokenStep, EndFlightStep DEF InFlight
<1>7. ASSUME NEW p \in Callers, Start(p) PROVE IInv' BY <1>7, StartStep
<1>8. ASSUME NEW p \in Callers, Continue(p) PROVE IInv'
  BY <1>8, GetClusterStep, LoadStep, DoStep, StoreStep, UseStep, InvalidateStep DEF Continue
<1> QED BY <1>1, <1>2, <1>3, <1>4, <1>5, <1>6, <1>7, <1>8 DEF Next

LEMMA Invariant == Spec => []IInv
BY InitHolds, NextStep, PTL DEF Spec

(* The types, and that a config handed out is complete: it has a spec and  *)
(* a CA.                                                                   *)
THEOREM TypeCorrect == Spec => []TypeOK
<1>1. IInv => TypeOK BY DEF IInv
<1> QED BY <1>1, Invariant, PTL

(* getWorkloadIdentityRestConfig answers for the spec it was given, unless *)
(* it joined the flight of another caller, for any number of callers.      *)
THEOREM AnswersItsSpec == Spec => []OldSpecOnlyWhenJoined
<1>1. IInv => OldSpecOnlyWhenJoined BY DEF IInv, CallFits, OldSpecOnlyWhenJoined
<1> QED BY <1>1, Invariant, PTL

(* Once the last change of the cluster is handled, lib/clustercache holds  *)
(* no config of an earlier spec, unless a caller joined a flight.          *)
THEOREM HeldOfTheSpec == Spec => []HeldIsOfTheSpec
<1>1. IInv => HeldIsOfTheSpec BY DEF IInv
<1> QED BY <1>1, Invariant, PTL
=============================================================================
