------------------------- MODULE SharedObjectsProofs -------------------------
(***************************************************************************)
(* Theorems about SharedObjects, for any processes, entries and licenses.  *)
(* The argument: a process whose copy has the current resourceVersion has  *)
(* the object itself as its copy, and every change of the object makes all *)
(* other copies outdated.                                                  *)
(***************************************************************************)
EXTENDS SharedObjects, TLAPS

USE SharedObjectsAssumption, NilAssumption

-----------------------------------------------------------------------------
(* Operations *)

EntriesOf(what) ==
  CASE what = "secret"  -> RoleRequests \cup {"kubeconfig"}
    [] what = "license" -> {"type", "license"}
    [] what = "shards"  -> TrackedClusters
    [] what = "version" -> {"version"}
    [] what = "summary" -> Sections \cup {"patches"}

(* What the operations of a part ask for. *)
LEMMA OpFacts ==
  ASSUME NEW what \in Parts, NEW op \in OpsOf(what)
  PROVE  /\ op.writes = None \/ op.removes = {}
         /\ DOMAIN op.writes \subseteq EntriesOf(what)
         /\ op.name = "RegisterClusterShard" =>
              DOMAIN op.writes \subseteq TrackedClusters /\ op.removes = {}
         /\ op.name = "UnregisterClusterShard" => op.writes = None
         /\ op.name = "DeleteSecret" => what = "secret" /\ op.writes = None
         /\ op.name = "MigrateLicenseSecretType" => what = "license" /\ op.removes = {}
         /\ what = "license" => op = MigrateLicenseSecretType
         /\ what = "shards" \/ DOMAIN op.writes \cap TrackedClusters = {}
         /\ what = "shards" => IsShardOp(op)
         /\ what # "shards" => ~IsShardOp(op)
<1> USE DEF EntriesOf
<1>1. CASE what = "shards"
  <2>1. \/ \E c \in TrackedClusters, s \in ShardKeys : op = RegisterClusterShard(c, s)
        \/ \E c \in TrackedClusters : op = UnregisterClusterShard(c)
    BY <1>1 DEF OpsOf
  <2>2. CASE \E c \in TrackedClusters, s \in ShardKeys : op = RegisterClusterShard(c, s)
    BY <1>1, <2>2 DEF RegisterClusterShard, IsShardOp
  <2>3. CASE \E c \in TrackedClusters : op = UnregisterClusterShard(c)
    BY <1>1, <2>3 DEF UnregisterClusterShard, IsShardOp, None
  <2> QED BY <2>1, <2>2, <2>3
<1>2. CASE what = "secret"
  <2>1. \/ \E r \in RoleRequests, k \in Kubeconfigs : op = CreateSecret(r, k)
        \/ \E r \in RoleRequests : op = DeleteSecret(r)
    BY <1>2 DEF OpsOf
  <2>2. CASE \E r \in RoleRequests, k \in Kubeconfigs : op = CreateSecret(r, k)
    BY <1>2, <2>2 DEF CreateSecret, IsShardOp
  <2>3. CASE \E r \in RoleRequests : op = DeleteSecret(r)
    BY <1>2, <2>3 DEF DeleteSecret, IsShardOp, None
  <2> QED BY <2>1, <2>2, <2>3
<1>3. CASE what = "version"
  <2>1. PICK v \in Versions : op = StoreVersion(v) BY <1>3 DEF OpsOf
  <2> QED BY <1>3, <2>1 DEF StoreVersion, IsShardOp
<1>4. CASE what = "summary"
  <2>1. PICK g \in GivenSections, x \in Contents : op = DeployResourceSummary(g, x)
    BY <1>4 DEF OpsOf
  <2>2. g \subseteq Sections OBVIOUS
  <2> QED BY <1>4, <2>1, <2>2 DEF DeployResourceSummary, IsShardOp
<1>5. CASE what = "license"
  BY <1>5 DEF OpsOf, MigrateLicenseSecretType, IsShardOp
<1> QED BY <1>1, <1>2, <1>3, <1>4, <1>5

(* Copies and objects of a part: some of its entries, with values.  A      *)
(* license Secret always has a license.                                    *)
HasTypes(what, obj) == /\ DOMAIN obj \subseteq EntriesOf(what)
                       /\ obj \in [DOMAIN obj -> Values]
Typed(what, obj) == /\ HasTypes(what, obj)
                    /\ what = "license" => "license" \in DOMAIN obj

LEMMA TypedIsNotNil ==
  ASSUME NEW what \in Parts, NEW obj, Typed(what, obj)
  PROVE  obj # Nil /\ DOMAIN obj \subseteq Entries
<1>1. EntriesOf(what) \subseteq Entries BY DEF EntriesOf, Entries
<1> QED BY <1>1 DEF Typed, HasTypes

LEMMA TypedWrites ==
  ASSUME NEW what \in Parts, NEW op \in OpsOf(what)
  PROVE  HasTypes(what, op.writes) /\ HasTypes(what, None)
<1>1. DOMAIN op.writes \subseteq EntriesOf(what) BY OpFacts
<1>0. None \in [DOMAIN None -> Values] BY DEF None
<1>2. op.writes \in [DOMAIN op.writes -> Values]
  <2>1. CASE what = "shards"
    <3>1. \/ \E c \in TrackedClusters, s \in ShardKeys : op = RegisterClusterShard(c, s)
          \/ \E c \in TrackedClusters : op = UnregisterClusterShard(c)
      BY <2>1 DEF OpsOf
    <3>2. ASSUME NEW c \in TrackedClusters, NEW s \in ShardKeys, op = RegisterClusterShard(c, s)
          PROVE  op.writes \in [DOMAIN op.writes -> Values]
      <4>1. op.writes = [e \in {c} |-> s] BY <3>2 DEF RegisterClusterShard
      <4> QED BY <4>1 DEF Values
    <3>3. ASSUME NEW c \in TrackedClusters, op = UnregisterClusterShard(c)
          PROVE  op.writes = None
      BY <3>3 DEF UnregisterClusterShard
    <3> QED BY <1>0, <3>1, <3>2, <3>3
  <2>2. CASE what = "secret"
    <3>1. \/ \E r \in RoleRequests, k \in Kubeconfigs : op = CreateSecret(r, k)
          \/ \E r \in RoleRequests : op = DeleteSecret(r)
      BY <2>2 DEF OpsOf
    <3>2. ASSUME NEW r \in RoleRequests, NEW k \in Kubeconfigs, op = CreateSecret(r, k)
          PROVE  op.writes \in [DOMAIN op.writes -> Values]
      <4>1. op.writes = [e \in {r, "kubeconfig"} |-> IF e = r THEN "owner" ELSE k]
        BY <3>2 DEF CreateSecret
      <4> QED BY <4>1 DEF Values
    <3>3. ASSUME NEW r \in RoleRequests, op = DeleteSecret(r)
          PROVE  op.writes = None
      BY <3>3 DEF DeleteSecret
    <3> QED BY <1>0, <3>1, <3>2, <3>3
  <2>3. CASE what = "version"
    <3>1. PICK v \in Versions : op = StoreVersion(v) BY <2>3 DEF OpsOf
    <3>2. op.writes = [version |-> v] BY <3>1 DEF StoreVersion
    <3> QED BY <3>2 DEF Values
  <2>4. CASE what = "summary"
    <3>1. PICK g \in GivenSections, x \in Contents : op = DeployResourceSummary(g, x)
      BY <2>4 DEF OpsOf
    <3>2. op.writes = [e \in g \cup {"patches"} |-> x] BY <3>1 DEF DeployResourceSummary
    <3> QED BY <3>2 DEF Values
  <2>5. CASE what = "license"
    <3>1. op.writes = [type |-> "ClusterProfile"]
      BY <2>5 DEF OpsOf, MigrateLicenseSecretType
    <3> QED BY <3>1 DEF Values
  <2> QED BY <2>1, <2>2, <2>3, <2>4, <2>5
<1>3. HasTypes(what, None) BY DEF HasTypes, None
<1> QED BY <1>1, <1>2, <1>3 DEF HasTypes

LEMMA TypedTarget ==
  ASSUME NEW what \in Parts, NEW op \in OpsOf(what), NEW seen, Typed(what, seen)
  PROVE  Typed(what, Target(op, seen))
<1>1. HasTypes(what, op.writes) BY TypedWrites
<1>2. HasTypes(what, Target(op, seen)) BY <1>1 DEF Typed, HasTypes, Target
<1>3. what = "license" => "license" \in DOMAIN Target(op, seen)
  <2>1. what = "license" => op.removes = {} BY OpFacts DEF MigrateLicenseSecretType
  <2> QED BY <2>1 DEF Typed, Target
<1> QED BY <1>2, <1>3 DEF Typed

LEMMA TypedInitial ==
  ASSUME NEW what \in Parts, NEW op \in OpsOf(what), NEW seen,
         op.name = "MigrateLicenseSecretType" => Typed(what, seen)
  PROVE  Typed(what, Initial(op, seen))
<1>1. CASE op.name = "MigrateLicenseSecretType"
  <2>1. Initial(op, seen) = Target(op, seen) BY <1>1 DEF Initial, IsShardOp
  <2> QED BY <1>1, <2>1, TypedTarget
<1>2. CASE op.name # "MigrateLicenseSecretType"
  <2>1. Initial(op, seen) \in {None, op.writes} BY <1>2 DEF Initial
  <2>2. what # "license" BY <1>2, OpFacts DEF MigrateLicenseSecretType
  <2> QED BY <2>1, <2>2, TypedWrites DEF Typed
<1> QED BY <1>1, <1>2

(* The object is as the operation asks once the operation's copy of it has *)
(* been written, or, but for RegisterClusterShard, has been created.       *)
LEMMA TargetIsDone ==
  ASSUME NEW what \in Parts, NEW op \in OpsOf(what), NEW seen, Target(op, seen) # Nil
  PROVE  Done(op, Target(op, seen))
<1>1. DOMAIN Target(op, seen) = DOMAIN op.writes \cup (DOMAIN seen \ op.removes)
      /\ \A e \in DOMAIN op.writes : Target(op, seen)[e] = op.writes[e]
  BY DEF Target
<1>2. op.removes \cap DOMAIN op.writes = {}
  BY OpFacts DEF None
<1> HIDE DEF Target
<1> QED BY <1>1, <1>2 DEF Done, IsRestriction

LEMMA InitialIsDone ==
  ASSUME NEW what \in Parts, NEW op \in OpsOf(what), NEW seen, Initial(op, seen) # Nil,
         op.name # "RegisterClusterShard"
  PROVE  Done(op, Initial(op, seen))
<1>1. CASE op.name = "MigrateLicenseSecretType"
  BY <1>1, TargetIsDone DEF Initial, IsShardOp
<1>2. CASE op.name = "UnregisterClusterShard"
  <2>1. op.writes = None /\ Initial(op, seen) = None BY <1>2, OpFacts DEF Initial, IsShardOp
  <2> QED BY <2>1 DEF Done, IsRestriction, None
<1>3. CASE op.name \notin {"MigrateLicenseSecretType", "UnregisterClusterShard"}
  <2>1. Initial(op, seen) = op.writes BY <1>3 DEF Initial, IsShardOp
  <2>2. op.removes \cap DOMAIN op.writes = {} BY OpFacts DEF None
  <2> QED BY <2>1, <2>2 DEF Done, IsRestriction
<1> QED BY <1>1, <1>2, <1>3

-----------------------------------------------------------------------------
(* The inductive invariant, for one call c of a part what while the object *)
(* is obj; cur says whether the copy has the object's resourceVersion.     *)

Active(c) == c.step \in {"read", "create", "update", "delete"}

CallShape(c) ==
  c = [step |-> c.step, op |-> c.op, seen |-> c.seen, tries |-> c.tries,
       answer |-> c.answer, blind |-> c.blind, done |-> c.done]

CallTyped(what, c) ==
  /\ CallShape(c)
  /\ c.step \in Steps
  /\ IF c.step = "idle" THEN c.op = Nil ELSE c.op \in OpsOf(what)
  /\ c.seen = Nil \/ Typed(what, c.seen)
  /\ c.tries \in 0..CreateSteps
  /\ c.answer \in BOOLEAN /\ c.blind \in BOOLEAN /\ c.done \in BOOLEAN

(* A call whose work is to be found done has seen it done. *)
DoneIsSeen(c, obj) ==
  /\ Active(c) /\ Done(c.op, obj) => c.done
  /\ c.step = "ok" /\ ~c.blind => c.done

(* What a call has read before it writes. *)
ReadFirst(c) ==
  /\ c.step \in {"update", "delete"} => c.seen # Nil
  /\ c.step = "create" /\ c.op.name = "MigrateLicenseSecretType" => c.seen # Nil
  /\ c.step = "delete" => \/ c.op.name = "MigrateLicenseSecretType"
                          \/ c.op.name = "DeleteSecret" /\ IsOnlyOwner(c.op, c.seen)

CurrentIsObject(c, cur, obj) ==
  cur /\ c.step \in {"update", "delete"} => c.seen = obj

CallSelf(what, c, obj) == CallTyped(what, c) /\ DoneIsSeen(c, obj) /\ ReadFirst(c)
CallInv(what, c, cur, obj) == CallSelf(what, c, obj) /\ CurrentIsObject(c, cur, obj)

ObjectInv(what, obj) == obj = Nil \/ Typed(what, obj)

IInv == /\ part \in Parts
        /\ ObjectInv(part, object)
        /\ call = [p \in Processes |-> call[p]]
        /\ \A p \in Processes : CallInv(part, call[p], p \in current, object)
        /\ current \subseteq Processes
        /\ now \in Time /\ calm \in BOOLEAN /\ mishap \in BOOLEAN
        /\ installed \in Licenses \cup {Nil}

(* Another process has made the object new. *)
LEMMA SeenKeeps ==
  ASSUME NEW what \in Parts, NEW c, NEW obj, NEW new, CallSelf(what, c, obj)
  PROVE  /\ CallSelf(what, Seen(c, new), new)
         /\ Seen(c, new).step = c.step /\ Seen(c, new).op = c.op /\ Seen(c, new).seen = c.seen
         /\ Seen(c, new).answer = c.answer
<1> USE DEF CallSelf, CallTyped
<1>1. CASE c.step \in {"idle", "ok", "error"}
  BY <1>1 DEF Seen, DoneIsSeen, ReadFirst, Active
<1>2. CASE c.step \notin {"idle", "ok", "error"}
  <2> DEFINE n == [c EXCEPT !.done = c.done \/ Done(c.op, new)]
  <2>1. Seen(c, new) = n BY <1>2 DEF Seen
  <2>2. n = [step |-> c.step, op |-> c.op, seen |-> c.seen, tries |-> c.tries,
             answer |-> c.answer, blind |-> c.blind, done |-> c.done \/ Done(c.op, new)]
    BY DEF CallShape
  <2>3. /\ n.step = c.step /\ n.op = c.op /\ n.seen = c.seen /\ n.tries = c.tries
        /\ n.answer = c.answer /\ n.blind = c.blind
    BY <2>2
  <2>4. n.done = (c.done \/ Done(c.op, new)) BY <2>2
  <2>5. CallShape(n) BY <2>2 DEF CallShape
  <2>6. n.done \in BOOLEAN /\ (Done(c.op, new) => n.done)
    <3> HIDE DEF n
    <3> QED BY <2>4
  <2> HIDE DEF n
  <2>7. CallTyped(what, n) BY <2>3, <2>5, <2>6
  <2>8. DoneIsSeen(n, new) BY <1>2, <2>3, <2>6 DEF DoneIsSeen, Active, Steps
  <2>9. ReadFirst(n) BY <2>3 DEF ReadFirst
  <2> QED BY <2>1, <2>3, <2>7, <2>8, <2>9
<1> QED BY <1>1, <1>2

LEMMA DoneIsBoolean ==
  ASSUME NEW op, NEW obj
  PROVE  Done(op, obj) \in BOOLEAN
BY DEF Done, IsRestriction

(* The call moves on to another step, or ends. *)
LEMMA GotoKeeps ==
  ASSUME NEW what \in Parts, NEW c, CallTyped(what, c), c.step # "idle",
         NEW step \in Steps \ {"idle"}
  PROVE  LET g == Goto(c, step) IN
         /\ CallTyped(what, g)
         /\ g.step = step /\ g.op = c.op /\ g.blind = c.blind /\ g.done = c.done
         /\ g.answer = c.answer
         /\ g.seen = IF step \in {"ok", "error"} THEN Nil ELSE c.seen
<1> DEFINE g == Goto(c, step)
<1>1. CASE step \in {"ok", "error"}
  <2>1. g = [step |-> step, op |-> c.op, seen |-> Nil, tries |-> 0,
             answer |-> c.answer, blind |-> c.blind, done |-> c.done]
    BY <1>1 DEF Goto, End, CallTyped, CallShape
  <2> QED BY <1>1, <2>1 DEF CallTyped, CallShape
<1>2. CASE step \notin {"ok", "error"}
  <2>1. g = [step |-> step, op |-> c.op, seen |-> c.seen, tries |-> c.tries,
             answer |-> c.answer, blind |-> c.blind, done |-> c.done]
    BY <1>2 DEF Goto, CallTyped, CallShape
  <2> QED BY <1>2, <2>1 DEF CallTyped, CallShape
<1> QED BY <1>1, <1>2

LEMMA EndIsGoto ==
  ASSUME NEW c, NEW step \in {"ok", "error"}
  PROVE  End(c, step) = Goto(c, step)
BY DEF Goto

(* Other fields of a call. *)
LEMMA TriesKeep ==
  ASSUME NEW what \in Parts, NEW c, CallTyped(what, c), NEW n \in 0..CreateSteps
  PROVE  LET t == [c EXCEPT !.tries = n] IN
         /\ CallTyped(what, t)
         /\ t.step = c.step /\ t.op = c.op /\ t.seen = c.seen /\ t.answer = c.answer /\ t.blind = c.blind /\ t.done = c.done
<1> DEFINE t == [c EXCEPT !.tries = n]
<1>1. c = [step |-> c.step, op |-> c.op, seen |-> c.seen, tries |-> c.tries,
           answer |-> c.answer, blind |-> c.blind, done |-> c.done]
  BY DEF CallTyped, CallShape
<1>2. t = [step |-> c.step, op |-> c.op, seen |-> c.seen, tries |-> n,
           answer |-> c.answer, blind |-> c.blind, done |-> c.done]
  BY <1>1
<1> QED BY <1>2 DEF CallTyped, CallShape

LEMMA CopyKeeps ==
  ASSUME NEW what \in Parts, NEW c, CallTyped(what, c), NEW obj, Typed(what, obj)
  PROVE  LET t == [c EXCEPT !.seen = obj] IN
         /\ CallTyped(what, t) /\ t.seen = obj
         /\ t.step = c.step /\ t.op = c.op /\ t.answer = c.answer /\ t.blind = c.blind /\ t.done = c.done
<1> DEFINE t == [c EXCEPT !.seen = obj]
<1>1. c = [step |-> c.step, op |-> c.op, seen |-> c.seen, tries |-> c.tries,
           answer |-> c.answer, blind |-> c.blind, done |-> c.done]
  BY DEF CallTyped, CallShape
<1>2. t = [step |-> c.step, op |-> c.op, seen |-> obj, tries |-> c.tries,
           answer |-> c.answer, blind |-> c.blind, done |-> c.done]
  BY <1>1
<1> QED BY <1>2 DEF CallTyped, CallShape

LEMMA BlindKeeps ==
  ASSUME NEW what \in Parts, NEW c, CallTyped(what, c), NEW b \in BOOLEAN
  PROVE  LET t == [c EXCEPT !.blind = b] IN
         /\ CallTyped(what, t) /\ t.blind = b
         /\ t.step = c.step /\ t.op = c.op /\ t.seen = c.seen /\ t.answer = c.answer /\ t.done = c.done
<1> DEFINE t == [c EXCEPT !.blind = b]
<1>1. c = [step |-> c.step, op |-> c.op, seen |-> c.seen, tries |-> c.tries,
           answer |-> c.answer, blind |-> c.blind, done |-> c.done]
  BY DEF CallTyped, CallShape
<1>2. t = [step |-> c.step, op |-> c.op, seen |-> c.seen, tries |-> c.tries,
           answer |-> c.answer, blind |-> b, done |-> c.done]
  BY <1>1
<1> QED BY <1>2 DEF CallTyped, CallShape

LEMMA AnswerKeeps ==
  ASSUME NEW what \in Parts, NEW c, CallTyped(what, c), NEW b \in BOOLEAN
  PROVE  LET t == [c EXCEPT !.answer = b] IN
         /\ CallTyped(what, t) /\ t.answer = b
         /\ t.step = c.step /\ t.op = c.op /\ t.seen = c.seen /\ t.blind = c.blind /\ t.done = c.done
<1> DEFINE t == [c EXCEPT !.answer = b]
<1>1. c = [step |-> c.step, op |-> c.op, seen |-> c.seen, tries |-> c.tries,
           answer |-> c.answer, blind |-> c.blind, done |-> c.done]
  BY DEF CallTyped, CallShape
<1>2. t = [step |-> c.step, op |-> c.op, seen |-> c.seen, tries |-> c.tries,
           answer |-> b, blind |-> c.blind, done |-> c.done]
  BY <1>1
<1> QED BY <1>2 DEF CallTyped, CallShape

LEMMA DoneKeeps ==
  ASSUME NEW what \in Parts, NEW c, CallTyped(what, c), NEW b \in BOOLEAN
  PROVE  LET t == [c EXCEPT !.done = b] IN
         /\ CallTyped(what, t) /\ t.done = b
         /\ t.step = c.step /\ t.op = c.op /\ t.seen = c.seen /\ t.answer = c.answer /\ t.blind = c.blind
<1> DEFINE t == [c EXCEPT !.done = b]
<1>1. c = [step |-> c.step, op |-> c.op, seen |-> c.seen, tries |-> c.tries,
           answer |-> c.answer, blind |-> c.blind, done |-> c.done]
  BY DEF CallTyped, CallShape
<1>2. t = [step |-> c.step, op |-> c.op, seen |-> c.seen, tries |-> c.tries,
           answer |-> c.answer, blind |-> c.blind, done |-> b]
  BY <1>1
<1> QED BY <1>2 DEF CallTyped, CallShape

-----------------------------------------------------------------------------
(* What a step does to the calls: without changing the object, ...         *)
CallsInv == /\ call = [p \in Processes |-> call[p]]
            /\ \A p \in Processes : CallInv(part, call[p], p \in current, object)

LEMMA KeepStep ==
  ASSUME IInv, NEW p \in Processes, NEW c, Keep(p, c), UNCHANGED <<part, object>>,
         current' \subseteq current \cup {p},
         CallInv(part, c, p \in current', object)
  PROVE  /\ CallsInv'
         /\ call'[p] = c
         /\ \A q \in Processes : q # p => call'[q] = call[q]
<1>1. /\ call'[p] = c
      /\ \A q \in Processes : q # p => call'[q] = call[q]
      /\ call' = [q \in Processes |-> call'[q]]
  BY DEF IInv, Keep
<1>2. ASSUME NEW q \in Processes, q # p
      PROVE  CallInv(part, call'[q], q \in current', object)
  <2>1. CallInv(part, call[q], q \in current, object) BY DEF IInv
  <2>2. q \in current' => q \in current BY <1>2
  <2> QED BY <1>1, <1>2, <2>1, <2>2 DEF CallInv, CallSelf, CurrentIsObject
<1> QED BY <1>1, <1>2 DEF CallsInv

(* ... and with it. *)
LEMMA OthersKeep ==
  ASSUME IInv, NEW q \in Processes, NEW new, call'[q] = Seen(call[q], new), q \notin current'
  PROVE  /\ CallInv(part, call'[q], q \in current', new)
         /\ call'[q].step = call[q].step /\ call'[q].op = call[q].op
         /\ call'[q].seen = call[q].seen /\ call'[q].answer = call[q].answer
<1>1. part \in Parts /\ CallSelf(part, call[q], object) BY DEF IInv, CallInv
<1>2. CallSelf(part, Seen(call[q], new), new) BY <1>1, SeenKeeps, Zenon
<1>3. /\ Seen(call[q], new).step = call[q].step /\ Seen(call[q], new).op = call[q].op
      /\ Seen(call[q], new).seen = call[q].seen
      /\ Seen(call[q], new).answer = call[q].answer
  BY <1>1, SeenKeeps
<1>4. CallSelf(part, call'[q], new) BY <1>2
<1>5. CallInv(part, call'[q], q \in current', new) BY <1>4 DEF CallInv, CurrentIsObject
<1> QED BY <1>3, <1>5

LEMMA ChangeOthers ==
  ASSUME IInv, NEW p \in Processes, NEW c, NEW new, Change(p, c, new), part' = part,
         current' \subseteq {p}
  PROVE  /\ object' = new
         /\ call' = [q \in Processes |-> call'[q]]
         /\ call'[p] = [c EXCEPT !.done = @ \/ Done(c.op, new)]
         /\ \A q \in Processes : q # p =>
              /\ CallInv(part, call'[q], q \in current', new)
              /\ call'[q].step = call[q].step /\ call'[q].op = call[q].op
              /\ call'[q].seen = call[q].seen /\ call'[q].answer = call[q].answer
<1>1. /\ object' = new
      /\ call' = [q \in Processes |-> call'[q]]
      /\ call'[p] = [c EXCEPT !.done = @ \/ Done(c.op, new)]
      /\ \A q \in Processes : q # p => call'[q] = Seen(call[q], new)
  BY DEF Change
<1>2. \A q \in Processes : q # p => q \notin current' OBVIOUS
<1> QED BY <1>1, <1>2, OthersKeep

LEMMA ChangeStep ==
  ASSUME IInv, NEW p \in Processes, NEW c, NEW new, Change(p, c, new), part' = part,
         current' \subseteq {p}, ObjectInv(part, new),
         CallTyped(part, c), ReadFirst(c), CurrentIsObject(c, p \in current', new),
         c.step = "ok" /\ ~c.blind => c.done \/ Done(c.op, new)
  PROVE  /\ CallsInv'
         /\ object' = new
         /\ call'[p].step = c.step /\ call'[p].op = c.op /\ call'[p].seen = c.seen
         /\ call'[p].answer = c.answer
         /\ \A q \in Processes : q # p =>
              /\ call'[q].step = call[q].step /\ call'[q].op = call[q].op
              /\ call'[q].seen = call[q].seen /\ call'[q].answer = call[q].answer
<1> DEFINE b == c.done \/ Done(c.op, new)
           t == [c EXCEPT !.done = b]
<1>0. part \in Parts BY DEF IInv
<1>1. b \in BOOLEAN OBVIOUS
<1>2. /\ object' = new
      /\ call' = [q \in Processes |-> call'[q]]
      /\ call'[p] = t
      /\ \A q \in Processes : q # p =>
              /\ CallInv(part, call'[q], q \in current', new)
              /\ call'[q].step = call[q].step /\ call'[q].op = call[q].op
              /\ call'[q].seen = call[q].seen /\ call'[q].answer = call[q].answer
  BY ChangeOthers
<1>b. (Done(c.op, new) => b) /\ (c.step = "ok" /\ ~c.blind => b) OBVIOUS
<1> HIDE DEF b
<1>3. /\ CallTyped(part, t)
      /\ t.step = c.step /\ t.op = c.op /\ t.seen = c.seen /\ t.blind = c.blind
      /\ t.done = b /\ t.answer = c.answer
  BY <1>0, <1>1, DoneKeeps
<1> HIDE DEF t
<1>4. DoneIsSeen(t, new) BY <1>3, <1>b DEF DoneIsSeen, Active
<1>5. ReadFirst(t) /\ CurrentIsObject(t, p \in current', new)
  BY <1>3 DEF ReadFirst, CurrentIsObject
<1>6. CallInv(part, t, p \in current', new) BY <1>3, <1>4, <1>5 DEF CallInv, CallSelf
<1> QED BY <1>2, <1>3, <1>6 DEF CallsInv

-----------------------------------------------------------------------------
(* One lemma for each action.                                              *)

LEMMA BeginSelf ==
  ASSUME NEW what \in Parts, NEW op \in OpsOf(what)
  PROVE  /\ CallSelf(what, Begin(op), object)
         /\ Begin(op).step = "read" /\ Begin(op).op = op
<1> DEFINE d == Done(op, object)
           b == Begin(op)
<1>2. d \in BOOLEAN BY DoneIsBoolean
<1>0. b = [Idle EXCEPT !.step = "read", !.op = op, !.done = d] BY DEF Begin
<1> HIDE DEF d, b
<1>1. b = [step |-> "read", op |-> op, seen |-> Nil, tries |-> 0, answer |-> FALSE,
           blind |-> FALSE, done |-> d]
  BY <1>0 DEF Idle
<1>3. /\ b.step = "read" /\ b.op = op /\ b.seen = Nil /\ b.tries = 0 /\ b.answer = FALSE
      /\ b.blind = FALSE /\ b.done = d
  BY <1>1
<1>4. CallShape(b) BY <1>1, <1>3 DEF CallShape
<1>5. CallTyped(what, b)
  <2>1. b.tries \in 0..CreateSteps BY <1>3
  <2>2. b.answer \in BOOLEAN /\ b.blind \in BOOLEAN /\ b.done \in BOOLEAN BY <1>2, <1>3
  <2>3. b.step \in Steps /\ b.step # "idle" BY <1>3 DEF Steps
  <2> QED BY <1>3, <1>4, <2>1, <2>2, <2>3 DEF CallTyped
<1>6. DoneIsSeen(b, object) BY <1>3 DEF DoneIsSeen, d
<1>7. ReadFirst(b) BY <1>3 DEF ReadFirst
<1> QED BY <1>3, <1>5, <1>6, <1>7 DEF CallSelf, b

LEMMA IdleSelf ==
  ASSUME NEW what, NEW obj
  PROVE  CallSelf(what, Idle, obj) /\ Idle.step = "idle"
BY DEF CallSelf, CallTyped, CallShape, DoneIsSeen, Active, ReadFirst, Idle, Steps

LEMMA StartKeeps ==
  ASSUME IInv, NEW p \in Processes, Start(p)
  PROVE  IInv'
<1>1. PICK op \in OpsOf(part) : Keep(p, Begin(op)) BY DEF Start
<1>2. part \in Parts BY DEF IInv
<1>3. CallSelf(part, Begin(op), object) /\ Begin(op).step = "read"
  BY <1>2, BeginSelf
<1>4. CallInv(part, Begin(op), p \in current', object)
  BY <1>3 DEF CallInv, CurrentIsObject
<1>5. UNCHANGED <<part, object>> /\ current' \subseteq current \cup {p} BY DEF Start
<1>6. CallsInv' BY <1>1, <1>4, <1>5, KeepStep
<1> QED BY <1>6 DEF IInv, CallsInv, Start, history

LEMMA ReturnKeeps ==
  ASSUME IInv, NEW p \in Processes, Return(p) \/ Crash(p)
  PROVE  IInv'
<1>1. /\ Keep(p, Idle) /\ UNCHANGED <<part, object, now, calm, installed>>
      /\ current' = current \ {p}
  BY DEF Return, Crash, history
<1>2. CallSelf(part, Idle, object) /\ Idle.step = "idle" BY IdleSelf
<1>3. CallInv(part, Idle, p \in current', object) BY <1>2 DEF CallInv, CurrentIsObject
<1>4. current' \subseteq current \cup {p} BY <1>1
<1>5. CallsInv' BY <1>1, <1>3, <1>4, KeepStep
<1>6. mishap' \in BOOLEAN
  <2>1. CASE Return(p) BY <2>1 DEF Return, history, IInv
  <2>2. CASE Crash(p)
    <3> DEFINE b == call[p].step = "create" /\ object # Initial(call[p].op, call[p].seen)
    <3>1. mishap' = (mishap \/ b) BY <2>2 DEF Crash
    <3> HIDE DEF b
    <3> QED BY <3>1 DEF IInv
  <2> QED BY <2>1, <2>2
<1> QED BY <1>1, <1>5, <1>6 DEF IInv, CallsInv

LEMMA RetryKeeps ==
  ASSUME IInv, NEW p \in Processes, Retry(p)
  PROVE  IInv'
<1>1. part \in Parts /\ call[p].op \in OpsOf(part)
  BY DEF IInv, CallInv, CallSelf, CallTyped, Retry
<1>2. CallSelf(part, Begin(call[p].op), object) /\ Begin(call[p].op).step = "read"
  BY <1>1, BeginSelf
<1>3. CallInv(part, Begin(call[p].op), p \in current', object)
  BY <1>2 DEF CallInv, CurrentIsObject
<1>4. /\ UNCHANGED <<part, object>> /\ current' \subseteq current \cup {p}
      /\ Keep(p, Begin(call[p].op))
  BY DEF Retry
<1>5. CallsInv' BY <1>3, <1>4, KeepStep
<1> QED BY <1>5 DEF IInv, CallsInv, Retry, history

(* What a call in the middle of its work is known to be. *)
LEMMA WorkingFacts ==
  ASSUME IInv, NEW p \in Processes, Working(p)
  PROVE  /\ part \in Parts
         /\ call[p].op \in OpsOf(part)
         /\ CallTyped(part, call[p])
         /\ Done(call[p].op, object) => call[p].done
         /\ ReadFirst(call[p])
         /\ call[p].step # "idle"
         /\ call[p].seen = Nil \/ Typed(part, call[p].seen)
         /\ p \in current /\ call[p].step \in {"update", "delete"} => call[p].seen = object
<1>1. CallSelf(part, call[p], object) /\ CurrentIsObject(call[p], p \in current, object)
  BY DEF IInv, CallInv
<1> QED BY <1>1 DEF IInv, CallSelf, CallTyped, DoneIsSeen, Active, Working, CurrentIsObject

LEMMA ReadCalls ==
  ASSUME IInv, NEW p \in Processes, Read(p)
  PROVE  CallsInv'
<1> DEFINE c == call[p]
           op == call[p].op
<1>1. Working(p) /\ c.step = "read" BY DEF Read, Working
<1>2. /\ part \in Parts /\ op \in OpsOf(part) /\ CallTyped(part, c)
      /\ (Done(op, object) => c.done) /\ c.step # "idle"
  BY <1>1, WorkingFacts
<1>3. ASSUME NEW d, Keep(p, d), CallSelf(part, d, object),
             d.step \in {"update", "delete"} => d.seen = object
      PROVE  CallsInv'
  <2>1. CallInv(part, d, p \in current', object)
    BY <1>3 DEF CallInv, CurrentIsObject
  <2>2. UNCHANGED <<part, object>> /\ current' \subseteq current \cup {p} BY DEF Read
  <2> QED BY <1>3, <2>1, <2>2, KeepStep
<1>4. CASE Keep(p, [End(c, StepIfFailed(op)) EXCEPT !.blind = TRUE])
  <2> DEFINE s == StepIfFailed(op)
             g == Goto(c, s)
             b == TRUE
             d == [g EXCEPT !.blind = b]
  <2>1. s \in {"ok", "error"} BY DEF StepIfFailed
  <2> HIDE DEF s
  <2>0. s \in Steps \ {"idle"} BY <2>1 DEF Steps
  <2>2. CallTyped(part, g) /\ g.step = s BY <1>2, <2>0, GotoKeeps
  <2>3. d = [End(c, s) EXCEPT !.blind = TRUE] BY <2>1 DEF Goto
  <2>7. b \in BOOLEAN /\ b OBVIOUS
  <2> HIDE DEF g, b
  <2>4. CallTyped(part, d) /\ d.step = s /\ d.blind BY <2>7, <1>2, <2>2, BlindKeeps
  <2>5. Keep(p, d) BY <1>4, <2>3 DEF s, b
  <2> HIDE DEF d
  <2>6. DoneIsSeen(d, object) /\ ReadFirst(d) BY <2>1, <2>4 DEF DoneIsSeen, Active, ReadFirst
  <2> QED BY <1>3, <2>1, <2>4, <2>5, <2>6 DEF CallSelf
<1>5. CASE object = Nil /\ Keep(p, Goto([c EXCEPT !.tries = 1], StepIfMissing(op)))
  <2> DEFINE s == StepIfMissing(op)
             t == [c EXCEPT !.tries = 1]
             g == Goto(t, s)
  <2>0. 1 \in 0..CreateSteps OBVIOUS
  <2>1. CallTyped(part, t) /\ t.step = "read" /\ t.op = op /\ t.done = c.done
    BY <1>1, <1>2, <2>0, TriesKeep
  <2>2. s \in {"ok", "create"} BY DEF StepIfMissing
  <2>3. s = "ok" => c.done
    <3>1. s = "ok" => op.name \in {"DeleteSecret", "MigrateLicenseSecretType"}
      BY DEF StepIfMissing
    <3>2. op.name = "DeleteSecret" => op.writes = None BY <1>2, OpFacts
    <3> QED BY <1>2, <1>5, <3>1, <3>2 DEF Done
  <2>4. s = "create" => op.name # "MigrateLicenseSecretType" BY DEF StepIfMissing
  <2> HIDE DEF s, t
  <2>5. CallTyped(part, g) /\ g.step = s /\ g.op = op /\ g.done = c.done
    BY <1>2, <2>1, <2>2, GotoKeeps DEF Steps
  <2>6. Keep(p, g) BY <1>5 DEF s, t
  <2> HIDE DEF g
  <2>7. DoneIsSeen(g, object) BY <1>2, <2>2, <2>3, <2>5 DEF DoneIsSeen, Active
  <2>8. ReadFirst(g) BY <2>2, <2>4, <2>5 DEF ReadFirst
  <2> QED BY <1>3, <2>2, <2>5, <2>6, <2>7, <2>8 DEF CallSelf
<1>6. CASE object # Nil /\ Keep(p, Goto([c EXCEPT !.seen = object], NextStep(op, object)))
  <2> DEFINE s == NextStep(op, object)
             t == [c EXCEPT !.seen = object]
             g == Goto(t, s)
  <2>0. Typed(part, object) BY <1>6 DEF IInv, ObjectInv
  <2>1. /\ CallTyped(part, t) /\ t.step = "read" /\ t.op = op /\ t.done = c.done
        /\ t.seen = object
    BY <1>1, <1>2, <2>0, CopyKeeps
  <2>2. s \in {"ok", "delete", "update"} BY DEF NextStep
  <2>3. s = "ok" => c.done BY <1>2 DEF NextStep
  <2>4. s = "delete" => \/ op.name = "MigrateLicenseSecretType"
                        \/ op.name = "DeleteSecret" /\ IsOnlyOwner(op, object)
    BY DEF NextStep
  <2> HIDE DEF s, t
  <2>5. /\ CallTyped(part, g) /\ g.step = s /\ g.op = op /\ g.done = c.done
        /\ s # "ok" => g.seen = object
    BY <1>2, <2>1, <2>2, GotoKeeps DEF Steps
  <2>6. Keep(p, g) BY <1>6 DEF s, t
  <2> HIDE DEF g
  <2>7. DoneIsSeen(g, object) BY <1>2, <2>2, <2>3, <2>5 DEF DoneIsSeen, Active
  <2>8. ReadFirst(g) BY <1>6, <2>2, <2>4, <2>5 DEF ReadFirst
  <2> QED BY <1>3, <2>2, <2>5, <2>6, <2>7, <2>8 DEF CallSelf
<1> QED BY <1>4, <1>5, <1>6 DEF Read

LEMMA ReadKeeps ==
  ASSUME IInv, NEW p \in Processes, Read(p)
  PROVE  IInv'
<1>1. CallsInv' BY ReadCalls
<1>2. current' \subseteq Processes BY DEF Read, IInv
<1> QED BY <1>1, <1>2 DEF IInv, CallsInv, Read, history

LEMMA CreateFailedKeeps ==
  ASSUME NEW what \in Parts, NEW c, CallTyped(what, c), c.step = "create", ReadFirst(c)
  PROVE  LET d == CreateFailed(c) IN
         /\ CallTyped(what, d) /\ ReadFirst(d)
         /\ d.step \in {"create", "error"} /\ d.op = c.op /\ d.done = c.done
<1>1. CASE MoreTries(c)
  <2> DEFINE n == c.tries - 1
             d == [c EXCEPT !.tries = n]
  <2>1. n \in 0..CreateSteps BY <1>1 DEF MoreTries, CallTyped
  <2>2. CreateFailed(c) = d BY <1>1 DEF CreateFailed
  <2> HIDE DEF n
  <2>3. /\ CallTyped(what, d) /\ d.step = c.step /\ d.op = c.op /\ d.seen = c.seen
        /\ d.done = c.done
    BY <2>1, TriesKeep
  <2> HIDE DEF d
  <2> QED BY <2>2, <2>3 DEF ReadFirst
<1>2. CASE ~MoreTries(c)
  <2> DEFINE d == Goto(c, "error")
  <2>1. CreateFailed(c) = d BY <1>2, EndIsGoto DEF CreateFailed
  <2>2. CallTyped(what, d) /\ d.step = "error" /\ d.op = c.op /\ d.done = c.done
    BY GotoKeeps DEF Steps
  <2> HIDE DEF d
  <2> QED BY <2>1, <2>2 DEF ReadFirst
<1> QED BY <1>1, <1>2

(* A Create, whatever becomes of it: the object is as before or the one    *)
(* that was asked for.                                                     *)
LEMMA CreateCalls ==
  ASSUME IInv, NEW p \in Processes, Create(p)
  PROVE  /\ CallsInv'
         /\ \/ UNCHANGED <<object, current>>
            \/ /\ object = Nil /\ object' = Initial(call[p].op, call[p].seen)
               /\ current' \subseteq {p}
         /\ object' = Nil \/ Typed(part, object')
         /\ \A q \in Processes : q # p =>
              call'[q].step = call[q].step /\ call'[q].op = call[q].op
              /\ call'[q].seen = call[q].seen
<1> DEFINE c == call[p]
           op == call[p].op
           new == Initial(op, c.seen)
           t == [c EXCEPT !.seen = new]
           u == [t EXCEPT !.tries = 0]
           s == StepAfterCreate(op)
           g == Goto(u, s)
<1>1. Working(p) /\ c.step = "create" BY DEF Create, Working
<1>2. /\ part \in Parts /\ op \in OpsOf(part) /\ CallTyped(part, c)
      /\ (Done(op, object) => c.done) /\ c.step # "idle" /\ ReadFirst(c)
      /\ c.seen = Nil \/ Typed(part, c.seen)
  BY <1>1, WorkingFacts
<1>3. Typed(part, new) /\ new # Nil
  <2>1. op.name = "MigrateLicenseSecretType" => Typed(part, c.seen)
    BY <1>1, <1>2 DEF ReadFirst
  <2>2. Typed(part, new) BY <1>2, <2>1, TypedInitial
  <2> QED BY <1>2, <2>2, TypedIsNotNil
<1>4. /\ \/ /\ object = Nil /\ Change(p, g, new) /\ current' = {p}
         \/ /\ object = Nil /\ Change(p, CreateFailed(c), new) /\ current' = {}
         \/ Keep(p, CreateFailed(c)) /\ UNCHANGED <<object, current>>
      /\ part' = part
  BY DEF Create
<1>5. s \in {"ok", "update"} BY DEF StepAfterCreate
<1>6. s = "ok" => Done(op, new)
  <2>1. s = "ok" => op.name # "RegisterClusterShard" BY DEF StepAfterCreate
  <2> HIDE DEF s
  <2> QED BY <1>2, <1>3, <2>1, InitialIsDone
<1> HIDE DEF new, s
<1>7. CallTyped(part, t) /\ t.step = c.step /\ t.op = op /\ t.seen = new
  BY <1>2, <1>3, CopyKeeps
<1> HIDE DEF t
<1>8. CallTyped(part, u) /\ u.step = c.step /\ u.op = op /\ u.seen = new
  <2>1. 0 \in 0..CreateSteps OBVIOUS
  <2> QED BY <1>2, <1>7, <2>1, TriesKeep
<1> HIDE DEF u
<1>9. /\ CallTyped(part, g) /\ g.step = s /\ g.op = op
      /\ s # "ok" => g.seen = new
  BY <1>2, <1>5, <1>8, GotoKeeps DEF Steps
<1> HIDE DEF g
<1>10. ReadFirst(g) BY <1>3, <1>5, <1>9 DEF ReadFirst
<1>11. CurrentIsObject(g, p \in current', new) BY <1>5, <1>9 DEF CurrentIsObject
<1> DEFINE f == CreateFailed(c)
<1>12. /\ CallTyped(part, f) /\ ReadFirst(f)
       /\ f.step \in {"create", "error"} /\ f.op = op /\ f.done = c.done
  BY <1>1, <1>2, CreateFailedKeeps
<1> HIDE DEF f
<1>13. ObjectInv(part, new) BY <1>3 DEF ObjectInv
<1>14. CASE object = Nil /\ Change(p, g, new) /\ current' = {p}
  <2>1. g.step = "ok" /\ ~g.blind => g.done \/ Done(g.op, new) BY <1>6, <1>9
  <2>2. current' \subseteq {p} BY <1>14
  <2> QED BY <1>2, <1>3, <1>4, <1>9, <1>10, <1>11, <1>13, <1>14, <2>1, <2>2, ChangeStep DEF new
<1>15. CASE object = Nil /\ Change(p, f, new) /\ current' = {}
  <2>1. CurrentIsObject(f, p \in current', new) BY <1>15 DEF CurrentIsObject
  <2>2. f.step # "ok" BY <1>12
  <2>3. current' \subseteq {p} BY <1>15
  <2> QED BY <1>3, <1>4, <1>12, <1>13, <1>15, <2>1, <2>2, <2>3, ChangeStep DEF new
<1>16. CASE Keep(p, f) /\ UNCHANGED <<object, current>>
  <2>1. DoneIsSeen(f, object) BY <1>2, <1>12 DEF DoneIsSeen, Active
  <2>2. CallInv(part, f, p \in current', object)
    BY <1>12, <2>1 DEF CallInv, CallSelf, CurrentIsObject
  <2>3. current' \subseteq current \cup {p} BY <1>16
  <2>4. object = Nil \/ Typed(part, object) BY DEF IInv, ObjectInv
  <2> QED BY <1>4, <1>16, <2>2, <2>3, <2>4, KeepStep
<1>17. f = CreateFailed(c) BY DEF f
<1>18. g = Goto([c EXCEPT !.seen = new, !.tries = 0], s) BY DEF g, u, t
<1> QED BY <1>4, <1>14, <1>15, <1>16, <1>17

LEMMA CreateKeeps ==
  ASSUME IInv, NEW p \in Processes, Create(p)
  PROVE  IInv'
<1>1. CallsInv' /\ (object' = Nil \/ Typed(part, object')) BY CreateCalls
<1>2. current' \subseteq Processes BY CreateCalls DEF IInv
<1>3. mishap' \in BOOLEAN
  <2> DEFINE b == /\ ~MoreTries(call[p])
                  /\ object # Initial(call[p].op, call[p].seen)
  <2>1. mishap' = mishap \/ mishap' = (mishap \/ b) BY DEF Create
  <2> HIDE DEF b
  <2> QED BY <2>1 DEF IInv
<1>4. UNCHANGED <<part, now, calm, installed>> BY DEF Create
<1> QED BY <1>1, <1>2, <1>3, <1>4 DEF IInv, CallsInv, ObjectInv

(* An Update: the object is as before or what its copy was to become, the  *)
(* copy being the object itself.  The answer is that of the copy.          *)
LEMMA UpdateCalls ==
  ASSUME IInv, NEW p \in Processes, Update(p)
  PROVE  /\ CallsInv'
         /\ \/ UNCHANGED <<object, current>> /\ call'[p].step = "error"
            \/ /\ object # Nil /\ call[p].seen = object
               /\ object' = Target(call[p].op, object) /\ Typed(part, object')
               /\ current' = {}
               /\ call'[p].answer = HasChanged(call[p].op, object)
         /\ \A q \in Processes : q # p =>
              call'[q].step = call[q].step /\ call'[q].op = call[q].op
              /\ call'[q].seen = call[q].seen
<1> DEFINE op == call[p].op
           h == HasChanged(op, call[p].seen)
           c == [call[p] EXCEPT !.answer = h]
           new == Target(op, call[p].seen)
           t == Goto(c, "ok")
           f == Goto(c, "error")
<1>1. Working(p) /\ call[p].step = "update" BY DEF Update, Working
<1>2. /\ part \in Parts /\ op \in OpsOf(part) /\ CallTyped(part, call[p])
      /\ (Done(op, object) => call[p].done) /\ ReadFirst(call[p])
      /\ Typed(part, call[p].seen)
      /\ p \in current => call[p].seen = object
  BY <1>1, WorkingFacts DEF ReadFirst
<1>3. Typed(part, new) /\ new # Nil BY <1>2, TypedTarget, TypedIsNotNil
<1>4. Done(op, new) BY <1>2, <1>3, TargetIsDone
<1>5. h \in BOOLEAN /\ (h => op.name = "RegisterClusterShard") BY DEF HasChanged
<1>6. VersionMatches(p) => object # Nil /\ call[p].seen = object BY <1>2 DEF VersionMatches
<1>7. call[p].seen = object => new = Target(op, object) /\ h = HasChanged(op, object) OBVIOUS
<1>8. CallTyped(part, c) /\ c.answer = h /\ c.step = "update" /\ c.op = op
      /\ c.seen = call[p].seen /\ c.done = call[p].done
  <2> HIDE DEF h
  <2> QED BY <1>1, <1>2, <1>5, AnswerKeeps
<1>9. /\ \/ VersionMatches(p) /\ Change(p, End(c, "ok"), new) /\ current' = {}
         \/ VersionMatches(p) /\ Change(p, End(c, "error"), new) /\ current' = {}
         \/ Keep(p, End(c, "error")) /\ UNCHANGED <<object, current>>
      /\ part' = part
  <2>1. c = [call[p] EXCEPT !.answer = HasChanged(call[p].op, call[p].seen)] OBVIOUS
  <2>2. new = Target(c.op, c.seen) BY <1>8
  <2> HIDE DEF c, new, h
  <2> QED BY <1>8, <2>1, <2>2 DEF Update, UpdateFailed
<1>11. /\ \/ VersionMatches(p) /\ Change(p, t, new) /\ current' = {}
          \/ VersionMatches(p) /\ Change(p, f, new) /\ current' = {}
          \/ Keep(p, f) /\ UNCHANGED <<object, current>>
       /\ part' = part
  BY <1>9, EndIsGoto
<1> HIDE DEF new, h, c
<1>12. CallTyped(part, t) /\ t.step = "ok" /\ t.op = op /\ t.answer = h
  BY <1>2, <1>8, GotoKeeps DEF Steps
<1> HIDE DEF t
<1>13. /\ CallTyped(part, f) /\ f.step = "error" /\ f.op = op /\ f.answer = h
       /\ f.done = call[p].done
  BY <1>2, <1>8, GotoKeeps DEF Steps
<1> HIDE DEF f
<1>14. ReadFirst(t) /\ ReadFirst(f) BY <1>12, <1>13 DEF ReadFirst
<1>15. ObjectInv(part, new) BY <1>3 DEF ObjectInv
<1>16. CASE VersionMatches(p) /\ Change(p, t, new) /\ current' = {}
  <2>1. t.step = "ok" /\ ~t.blind => t.done \/ Done(t.op, new) BY <1>4, <1>12
  <2>2. CurrentIsObject(t, p \in current', new) BY <1>16 DEF CurrentIsObject
  <2>3. current' \subseteq {p} BY <1>16
  <2>4. /\ CallsInv' /\ object' = new
        /\ call'[p].answer = t.answer
        /\ \A q \in Processes : q # p =>
              call'[q].step = call[q].step /\ call'[q].op = call[q].op
              /\ call'[q].seen = call[q].seen
    BY <1>11, <1>12, <1>14, <1>15, <1>16, <2>1, <2>2, <2>3, ChangeStep
  <2> QED BY <1>3, <1>6, <1>7, <1>12, <1>16, <2>4
<1>17. CASE VersionMatches(p) /\ Change(p, f, new) /\ current' = {}
  <2>1. f.step # "ok" BY <1>13
  <2>2. CurrentIsObject(f, p \in current', new) BY <1>17 DEF CurrentIsObject
  <2>3. current' \subseteq {p} BY <1>17
  <2>4. /\ CallsInv' /\ object' = new
        /\ call'[p].answer = f.answer
        /\ \A q \in Processes : q # p =>
              call'[q].step = call[q].step /\ call'[q].op = call[q].op
              /\ call'[q].seen = call[q].seen
    BY <1>11, <1>13, <1>14, <1>15, <1>17, <2>1, <2>2, <2>3, ChangeStep
  <2> QED BY <1>3, <1>6, <1>7, <1>13, <1>17, <2>4
<1>18. CASE Keep(p, f) /\ UNCHANGED <<object, current>>
  <2>1. DoneIsSeen(f, object) BY <1>13 DEF DoneIsSeen, Active
  <2>2. CallInv(part, f, p \in current', object)
    BY <1>13, <1>14, <2>1 DEF CallInv, CallSelf, CurrentIsObject
  <2>3. current' \subseteq current \cup {p} BY <1>18
  <2>4. /\ CallsInv' /\ call'[p] = f
        /\ \A q \in Processes : q # p => call'[q] = call[q]
    BY <1>11, <1>18, <2>2, <2>3, KeepStep
  <2> QED BY <1>13, <1>18, <2>4
<1> QED BY <1>11, <1>16, <1>17, <1>18

LEMMA UpdateKeeps ==
  ASSUME IInv, NEW p \in Processes, Update(p)
  PROVE  IInv'
<1>1. CallsInv' /\ (UNCHANGED object \/ Typed(part, object')) BY UpdateCalls
<1>2. current' \subseteq Processes BY UpdateCalls DEF IInv
<1>3. UNCHANGED <<part, now, calm, installed, mishap>> BY DEF Update
<1> QED BY <1>1, <1>2, <1>3 DEF IInv, CallsInv, ObjectInv

(* A Delete: the object is as before or gone. *)
LEMMA DeleteCalls ==
  ASSUME IInv, NEW p \in Processes, Delete(p)
  PROVE  /\ CallsInv'
         /\ \/ UNCHANGED <<object, current>> /\ call'[p].step = "error"
            \/ object # Nil /\ object' = Nil /\ current' = {}
         /\ object' # object /\ ~mishap' => call'[p].step = StepAfterDelete(call[p].op)
         /\ call'[p].step = "create" =>
              /\ call[p].op.name = "MigrateLicenseSecretType"
              /\ call'[p].op = call[p].op /\ call'[p].seen = call[p].seen
         /\ \A q \in Processes : q # p =>
              call'[q].step = call[q].step /\ call'[q].op = call[q].op
              /\ call'[q].seen = call[q].seen
<1> DEFINE c == call[p]
           op == call[p].op
           t == [c EXCEPT !.tries = CreateSteps]
           s == StepAfterDelete(op)
           g == Goto(t, s)
           f == Goto(c, "error")
<1>1. Working(p) /\ c.step = "delete" BY DEF Delete, Working
<1>2. /\ part \in Parts /\ op \in OpsOf(part) /\ CallTyped(part, c)
      /\ (Done(op, object) => c.done) /\ c.step # "idle" /\ ReadFirst(c)
  BY <1>1, WorkingFacts
<1>3. /\ \/ object # Nil /\ Change(p, g, Nil) /\ current' = {}
         \/ object # Nil /\ Change(p, f, Nil) /\ current' = {} /\ mishap'
         \/ Keep(p, f) /\ UNCHANGED <<object, current>>
      /\ part' = part
  BY EndIsGoto DEF Delete, Change
<1>4. /\ s \in {"ok", "create"} /\ s = StepAfterDelete(op)
      /\ s = "create" => op.name = "MigrateLicenseSecretType"
  BY DEF StepAfterDelete
<1>5. s = "ok" => Done(op, Nil)
  <2>1. s = "ok" => op.name = "DeleteSecret"
    BY <1>1, <1>2 DEF StepAfterDelete, ReadFirst
  <2>2. op.name = "DeleteSecret" => op.writes = None BY <1>2, OpFacts
  <2> QED BY <2>1, <2>2 DEF Done
<1> HIDE DEF s
<1>6. CallTyped(part, t) /\ t.step = c.step /\ t.op = op /\ t.seen = c.seen
  <2>1. CreateSteps \in 0..CreateSteps OBVIOUS
  <2> QED BY <1>2, <2>1, TriesKeep
<1> HIDE DEF t
<1>7. /\ CallTyped(part, g) /\ g.step = s /\ g.op = op
      /\ s # "ok" => g.seen = c.seen
  BY <1>2, <1>4, <1>6, GotoKeeps DEF Steps
<1> HIDE DEF g
<1>8. CallTyped(part, f) /\ f.step = "error" /\ f.op = op BY <1>2, GotoKeeps DEF Steps
<1> HIDE DEF f
<1>9. ReadFirst(g) /\ ReadFirst(f)
  <2>1. c.seen # Nil BY <1>1, <1>2 DEF ReadFirst
  <2> QED BY <1>4, <1>7, <1>8, <2>1 DEF ReadFirst
<1>10. ObjectInv(part, Nil) BY DEF ObjectInv
<1>11. CASE object # Nil /\ Change(p, g, Nil) /\ current' = {}
  <2>1. g.step = "ok" /\ ~g.blind => g.done \/ Done(g.op, Nil) BY <1>5, <1>7
  <2>2. CurrentIsObject(g, p \in current', Nil) BY <1>11 DEF CurrentIsObject
  <2>3. current' \subseteq {p} BY <1>11
  <2>4. /\ CallsInv' /\ object' = Nil
        /\ call'[p].step = g.step /\ call'[p].op = g.op /\ call'[p].seen = g.seen
        /\ \A q \in Processes : q # p =>
              call'[q].step = call[q].step /\ call'[q].op = call[q].op
              /\ call'[q].seen = call[q].seen
    BY <1>3, <1>7, <1>9, <1>10, <1>11, <2>1, <2>2, <2>3, ChangeStep
  <2> QED BY <1>4, <1>7, <1>11, <2>4
<1>12. CASE object # Nil /\ Change(p, f, Nil) /\ current' = {} /\ mishap'
  <2>1. f.step # "ok" BY <1>8
  <2>2. CurrentIsObject(f, p \in current', Nil) BY <1>12 DEF CurrentIsObject
  <2>3. current' \subseteq {p} BY <1>12
  <2>4. /\ CallsInv' /\ object' = Nil
        /\ call'[p].step = f.step
        /\ \A q \in Processes : q # p =>
              call'[q].step = call[q].step /\ call'[q].op = call[q].op
              /\ call'[q].seen = call[q].seen
    BY <1>3, <1>8, <1>9, <1>10, <1>12, <2>1, <2>2, <2>3, ChangeStep
  <2> QED BY <1>8, <1>12, <2>4
<1>13. CASE Keep(p, f) /\ UNCHANGED <<object, current>>
  <2>1. DoneIsSeen(f, object) BY <1>8 DEF DoneIsSeen, Active
  <2>2. CallInv(part, f, p \in current', object)
    BY <1>8, <1>9, <2>1 DEF CallInv, CallSelf, CurrentIsObject
  <2>3. current' \subseteq current \cup {p} BY <1>13
  <2>4. /\ CallsInv' /\ call'[p] = f
        /\ \A q \in Processes : q # p => call'[q] = call[q]
    BY <1>3, <1>13, <2>2, <2>3, KeepStep
  <2> QED BY <1>8, <1>13, <2>4
<1> QED BY <1>3, <1>11, <1>12, <1>13

LEMMA DeleteKeeps ==
  ASSUME IInv, NEW p \in Processes, Delete(p)
  PROVE  IInv'
<1>1. CallsInv' /\ (UNCHANGED object \/ object' = Nil) BY DeleteCalls
<1>2. current' \subseteq Processes BY DeleteCalls DEF IInv
<1>3. mishap' \in BOOLEAN
  <2> DEFINE b == /\ part = "license" /\ object # Nil
                  /\ object["license"] # call[p].seen["license"]
  <2>1. mishap' = mishap \/ mishap' = (mishap \/ b) \/ mishap' = TRUE BY DEF Delete
  <2> HIDE DEF b
  <2> QED BY <2>1 DEF IInv
<1>4. UNCHANGED <<part, now, calm, installed>> BY DEF Delete
<1> QED BY <1>1, <1>2, <1>3, <1>4 DEF IInv, CallsInv, ObjectInv

(* Users change the object: calls go on, their copies outdated. *)
LEMMA UsersCalls ==
  ASSUME IInv, NEW new, Change(Nil, Nil, new), part' = part, current' = {}
  PROVE  /\ CallsInv' /\ object' = new
         /\ \A q \in Processes : call'[q].step = call[q].step /\ call'[q].op = call[q].op
                                 /\ call'[q].seen = call[q].seen
<1>1. /\ object' = new
      /\ call' = [q \in Processes |-> call'[q]]
      /\ \A q \in Processes : q # Nil => call'[q] = Seen(call[q], new)
  BY DEF Change
<1>2. ASSUME NEW q \in Processes
      PROVE  /\ CallInv(part, call'[q], q \in current', new)
             /\ call'[q].step = call[q].step /\ call'[q].op = call[q].op
             /\ call'[q].seen = call[q].seen
  <2>1. q # Nil /\ q \notin current' OBVIOUS
  <2> QED BY <1>1, <2>1, OthersKeep
<1> QED BY <1>1, <1>2 DEF CallsInv

LEMMA LicenseTyped ==
  ASSUME NEW type \in {"Opaque", "ClusterProfile"}, NEW lp \in Licenses
  PROVE  /\ Typed("license", LicenseSecret(type, lp))
         /\ DOMAIN LicenseSecret(type, lp) = {"type", "license"}
         /\ LicenseSecret(type, lp)["license"] = lp
<1>1. /\ DOMAIN LicenseSecret(type, lp) = {"type", "license"}
      /\ LicenseSecret(type, lp).type = type /\ LicenseSecret(type, lp).license = lp
  BY DEF LicenseSecret
<1>2. LicenseSecret(type, lp) \in [{"type", "license"} -> Values]
  BY DEF LicenseSecret, Values
<1> QED BY <1>1, <1>2 DEF Typed, HasTypes, EntriesOf

LEMMA UsersKeep ==
  ASSUME IInv, Users
  PROVE  IInv'
<1>1. CASE \E type \in {"Opaque", "ClusterProfile"}, lp \in Licenses : InstallLicense(type, lp)
  <2>1. PICK type \in {"Opaque", "ClusterProfile"}, lp \in Licenses : InstallLicense(type, lp)
    BY <1>1
  <2>2. /\ Change(Nil, Nil, LicenseSecret(type, lp)) /\ part = "license"
        /\ part' = part /\ current' = {}
    BY <2>1 DEF InstallLicense
  <2>3. ObjectInv(part, LicenseSecret(type, lp)) BY <2>2, LicenseTyped DEF ObjectInv
  <2>4. CallsInv' /\ ObjectInv(part, object') BY <2>2, <2>3, UsersCalls
  <2> QED BY <2>1, <2>2, <2>4 DEF IInv, CallsInv, InstallLicense
<1>2. CASE \E lp \in Licenses : RenewLicense(lp)
  <2>1. PICK lp \in Licenses : RenewLicense(lp) BY <1>2
  <2> DEFINE new == [object EXCEPT !["license"] = lp]
  <2>2. /\ Change(Nil, Nil, new) /\ part = "license" /\ object # Nil
        /\ part' = part /\ current' = {}
    BY <2>1 DEF RenewLicense
  <2>3. Typed(part, object) BY <2>2 DEF IInv, ObjectInv
  <2>4. DOMAIN new = DOMAIN object /\ \A e \in DOMAIN object : new[e] \in {object[e], lp}
    BY <2>3 DEF Typed, HasTypes
  <2>5. new = [e \in DOMAIN new |-> new[e]] BY <2>3 DEF Typed, HasTypes
  <2>6. lp \in Values BY DEF Values
  <2> HIDE DEF new
  <2>7. Typed(part, new) BY <2>3, <2>4, <2>5, <2>6 DEF Typed, HasTypes
  <2>8. ObjectInv(part, new) BY <2>7 DEF ObjectInv
  <2>9. CallsInv' /\ ObjectInv(part, object') BY <2>2, <2>8, UsersCalls
  <2> QED BY <2>1, <2>2, <2>9 DEF IInv, CallsInv, RenewLicense
<1>3. CASE RemoveLicense
  <2>1. Change(Nil, Nil, Nil) /\ part' = part /\ current' = {} BY <1>3 DEF RemoveLicense
  <2>2. ObjectInv(part, Nil) BY DEF ObjectInv
  <2>3. CallsInv' /\ ObjectInv(part, object') BY <2>1, <2>2, UsersCalls
  <2> DEFINE b == \E p \in Processes : call[p].step = "create"
  <2>4. mishap' = (mishap \/ b) BY <1>3 DEF RemoveLicense
  <2> HIDE DEF b
  <2>5. mishap' \in BOOLEAN BY <2>4 DEF IInv
  <2> QED BY <1>3, <2>1, <2>3, <2>5 DEF IInv, CallsInv, RemoveLicense
<1> QED BY <1>1, <1>2, <1>3 DEF Users

LEMMA MaxTimeIsNat == MaxTime \in Nat
BY LicenseAssumption, Zenon

LEMMA QuietKeeps ==
  ASSUME IInv, Tick \/ CalmDown \/ UNCHANGED vars
  PROVE  IInv'
<1>0. /\ UNCHANGED <<part, object, call, current, installed, mishap>>
      /\ calm' \in BOOLEAN
      /\ now' \in Time
  <2>1. CASE Tick
    <3>1. now \in Time /\ now < MaxTime /\ now' = now + 1 BY <2>1 DEF Tick, IInv
    <3>2. now' \in Time BY <3>1, MaxTimeIsNat DEF Time
    <3> QED BY <2>1, <3>2 DEF Tick, history, IInv
  <2>2. CASE CalmDown BY <2>2 DEF CalmDown, history, IInv
  <2>3. CASE UNCHANGED vars BY <2>3 DEF vars, history, IInv
  <2> QED BY <2>1, <2>2, <2>3
<1>1. ASSUME NEW p \in Processes PROVE CallInv(part, call[p], p \in current, object)
  BY DEF IInv
<1> QED BY <1>0, <1>1 DEF IInv

LEMMA InitInv == Init => IInv
<1> SUFFICES ASSUME Init PROVE IInv OBVIOUS
<1>1. ASSUME NEW p \in Processes PROVE CallInv(part, call[p], p \in current, object)
  <2>1. CallSelf(part, Idle, object) /\ Idle.step = "idle" BY IdleSelf
  <2>2. call[p] = Idle BY DEF Init
  <2> QED BY <2>1, <2>2 DEF CallInv, CurrentIsObject
<1>2. ObjectInv(part, object) /\ installed \in Licenses \cup {Nil}
  <2>1. CASE part = "license"
    <3>1. PICK lp \in Licenses : object = LicenseSecret("Opaque", lp) /\ installed = lp
      BY <2>1 DEF Init
    <3> QED BY <2>1, <3>1, LicenseTyped DEF ObjectInv
  <2>2. CASE part # "license" BY <2>2 DEF Init, ObjectInv
  <2> QED BY <2>1, <2>2
<1>3. now \in Time
  <2>1. now = 0 BY DEF Init
  <2> QED BY <2>1, MaxTimeIsNat DEF Time
<1> QED BY <1>1, <1>2, <1>3 DEF Init, IInv

LEMMA NextKeeps == IInv /\ [Next]_vars => IInv'
<1> SUFFICES ASSUME IInv, [Next]_vars PROVE IInv' OBVIOUS
<1>1. ASSUME NEW p \in Processes, Start(p) \/ Step(p) \/ Crash(p) PROVE IInv'
  BY <1>1, StartKeeps, ReadKeeps, CreateKeeps, UpdateKeeps, DeleteKeeps, ReturnKeeps, RetryKeeps
  DEF Step
<1>2. CASE Users BY <1>2, UsersKeep
<1>3. CASE Tick \/ CalmDown \/ UNCHANGED vars BY <1>3, QuietKeeps
<1> QED BY <1>1, <1>2, <1>3 DEF Next

LEMMA Invariance == Spec => []IInv
BY InitInv, NextKeeps, PTL DEF Spec

-----------------------------------------------------------------------------
(* Theorems *)

LEMMA TypedIsObject ==
  ASSUME NEW what \in Parts, NEW obj, Typed(what, obj)
  PROVE  IsObject(obj)
<1>1. DOMAIN obj \subseteq Entries BY TypedIsNotNil
<1>2. \A e \in DOMAIN obj : obj[e] \in Values BY DEF Typed, HasTypes
<1> QED BY <1>1, <1>2 DEF IsObject, Range

(* Calls, copies and the object have their types: every write is of        *)
(* entries and values that the object may have.                            *)
THEOREM TypeCorrect == Spec => []TypeOK
<1>1. IInv => TypeOK
  <2> SUFFICES ASSUME IInv PROVE TypeOK OBVIOUS
  <2>1. object = Nil \/ IsObject(object) BY TypedIsObject DEF IInv, ObjectInv
  <2>2. ASSUME NEW p \in Processes PROVE IsCall(call[p])
    <3>1. part \in Parts /\ CallTyped(part, call[p]) BY DEF IInv, CallInv, CallSelf
    <3>2. OpsOf(part) \subseteq Ops BY <3>1 DEF Ops
    <3>3. call[p].op \in Ops \cup {Nil} /\ (call[p].op = Nil) = (call[p].step = "idle")
      BY <3>1, <3>2 DEF CallTyped
    <3>4. call[p].seen = Nil \/ IsObject(call[p].seen) BY <3>1, TypedIsObject DEF CallTyped
    <3> QED BY <3>1, <3>3, <3>4 DEF CallTyped, IsCall
  <2> QED BY <2>1, <2>2 DEF IInv, TypeOK
<1> QED BY <1>1, Invariance, PTL

(* A call that returned nil without having dropped the error of its read   *)
(* has done its work: the object was as it asks at some moment of the      *)
(* call, whoever else wrote it meanwhile and whichever requests failed.    *)
THEOREM OkIsDone == Spec => []OkMeansDone
<1>1. IInv => OkMeansDone
  BY DEF IInv, CallInv, CallSelf, DoneIsSeen, OkMeansDone
<1> QED BY <1>1, Invariance, PTL

(* Steps of others leave a call where it is. *)
LEMMA OthersStay ==
  ASSUME IInv, NEW p \in Processes,
         \/ \E q \in Processes \ {p} : Start(q) \/ Step(q) \/ Crash(q)
         \/ Users \/ Tick \/ CalmDown \/ UNCHANGED vars
  PROVE  call'[p].step = call[p].step /\ call'[p].seen = call[p].seen /\ call'[p].op = call[p].op
<1>1. ASSUME NEW q \in Processes \ {p}, Start(q) \/ Step(q) \/ Crash(q)
      PROVE  call'[p].step = call[p].step /\ call'[p].seen = call[p].seen
             /\ call'[p].op = call[p].op
  <2>1. ASSUME NEW c, Keep(q, c) PROVE call'[p] = call[p] BY <2>1 DEF Keep, IInv
  <2>2. CASE Start(q) \/ Read(q) \/ Return(q) \/ Retry(q) \/ Crash(q)
    BY <2>1, <2>2 DEF Start, Read, Return, Retry, Crash
  <2>3. CASE Create(q) BY <2>3, CreateCalls
  <2>4. CASE Update(q) BY <2>4, UpdateCalls
  <2>5. CASE Delete(q) BY <2>5, DeleteCalls
  <2> QED BY <1>1, <2>2, <2>3, <2>4, <2>5 DEF Step
<1>2. CASE Users
  <2>1. \E new : Change(Nil, Nil, new) /\ part' = part /\ current' = {}
    BY <1>2 DEF Users, InstallLicense, RenewLicense, RemoveLicense
  <2> QED BY <2>1, UsersCalls
<1>3. CASE Tick \/ CalmDown \/ UNCHANGED vars BY <1>3 DEF Tick, CalmDown, vars
<1> QED BY <1>1, <1>2, <1>3

(* What a step leaves as it was: the entries that are not the operation's. *)
LEMMA StepOwnPart ==
  ASSUME IInv, NEW p \in Processes, Working(p), Step(p) \/ Crash(p),
         ~(call[p].step = "delete" /\ p \notin current),
         NEW e \in Entries \ Part(call[p].op)
  PROVE  Same(Contained(object), Contained(object'), e)
<1> DEFINE c == call[p]
           op == call[p].op
<1>1. /\ part \in Parts /\ op \in OpsOf(part) /\ CallTyped(part, c) /\ ReadFirst(c)
      /\ p \in current /\ c.step \in {"update", "delete"} => c.seen = object
  BY WorkingFacts
<1>2. e \notin DOMAIN op.writes /\ e \notin op.removes BY DEF Part
<1>3. CASE UNCHANGED object BY <1>3 DEF Same
<1>4. part = "license" => EntriesOf(part) \subseteq Part(op)
  BY <1>1, OpFacts DEF Part, EntriesOf, MigrateLicenseSecretType
<1>5. CASE Create(p) /\ object' # object
  <2>1. object = Nil /\ object' = Initial(op, c.seen) /\ (object' = Nil \/ Typed(part, object'))
    BY <1>5, CreateCalls
  <2>2. Contained(object) = None BY <2>1 DEF Contained
  <2>3. Contained(object') = object' BY <1>5, <2>1 DEF Contained
  <2>4. e \notin DOMAIN object'
    <3>1. CASE part = "license" BY <1>4, <1>5, <2>1, <3>1 DEF Typed, HasTypes
    <3>2. CASE part # "license"
      <4>1. Initial(op, c.seen) \in {None, op.writes} BY <1>1, <3>2, OpFacts DEF Initial
      <4> QED BY <1>2, <2>1, <4>1 DEF None
    <3> QED BY <3>1, <3>2
  <2> QED BY <2>2, <2>3, <2>4 DEF Same, None
<1>6. CASE Update(p) /\ object' # object
  <2>1. object # Nil /\ object' = Target(op, object) /\ Typed(part, object')
    BY <1>6, UpdateCalls
  <2>2. object' # Nil BY <1>1, <2>1, TypedIsNotNil
  <2>3. Contained(object) = object /\ Contained(object') = object'
    BY <2>1, <2>2 DEF Contained
  <2> QED BY <1>2, <2>1, <2>3 DEF Same, Target
<1>7. CASE Delete(p) /\ object' # object
  <2>1. object' = Nil /\ object # Nil BY <1>7, DeleteCalls
  <2>2. c.seen = object BY <1>1, <1>7 DEF Delete
  <2>3. Contained(object) = object /\ Contained(object') = None BY <2>1 DEF Contained
  <2>4. Typed(part, object) BY <2>1 DEF IInv, ObjectInv
  <2>5. e \notin DOMAIN object
    <3>1. CASE op.name = "MigrateLicenseSecretType"
      <4>1. part = "license" BY <1>1, <3>1, OpFacts
      <4> QED BY <1>4, <2>4, <4>1 DEF Typed, HasTypes
    <3>2. CASE op.name = "DeleteSecret" /\ IsOnlyOwner(op, c.seen)
      <4>1. part = "secret" BY <1>1, <3>2, OpFacts
      <4>2. DOMAIN object \subseteq RoleRequests \cup {"kubeconfig"}
        BY <2>4, <4>1 DEF Typed, HasTypes, EntriesOf
      <4>3. "kubeconfig" \in Part(op) BY <3>2 DEF Part
      <4>4. DOMAIN object \cap RoleRequests \subseteq op.removes
        BY <2>2, <3>2 DEF IsOnlyOwner
      <4> QED BY <1>2, <4>2, <4>3, <4>4
    <3> QED BY <1>1, <1>7, <3>1, <3>2 DEF ReadFirst, Delete
  <2> QED BY <2>3, <2>5 DEF Same, None
<1>8. CASE Read(p) \/ Return(p) \/ Retry(p) \/ Crash(p)
  BY <1>3, <1>8 DEF Read, Return, Retry, Crash
<1> QED BY <1>3, <1>5, <1>6, <1>7, <1>8 DEF Step

(* Creates and updates, and deletes of the object as it was read, write    *)
(* the operation's own entries alone, for any number of processes and      *)
(* entries: what another process wrote since the copy was read stays.  The *)
(* kubeconfig for the last owner, and the license for a migration, count   *)
(* as the operation's own.  A Delete whose copy is out of date, which has  *)
(* no precondition, is not covered: it takes away what others added.       *)
THEOREM WritesOwnPartOnly == Spec => OnlyOwnPart
<1> DEFINE A == \A p \in Processes :
                  Working(p) /\ call'[p].step # call[p].step
                    /\ ~(call[p].step = "delete" /\ p \notin current) =>
                    \A e \in Entries \ Part(call[p].op) :
                      Same(Contained(object), Contained(object'), e)
<1>1. IInv /\ [Next]_vars => A
  <2> SUFFICES ASSUME IInv, [Next]_vars, NEW p \in Processes, Working(p),
                      call'[p].step # call[p].step,
                      ~(call[p].step = "delete" /\ p \notin current),
                      NEW e \in Entries \ Part(call[p].op)
               PROVE  Same(Contained(object), Contained(object'), e)
    OBVIOUS
  <2>1. Start(p) \/ Step(p) \/ Crash(p) BY OthersStay DEF Next
  <2>2. ~Start(p) BY DEF Start, Working
  <2> QED BY <2>1, <2>2, StepOwnPart
<1>2. IInv /\ [Next]_vars => [A]_vars BY <1>1
<1> HIDE DEF A
<1>3. Spec => [][A]_vars BY <1>2, Invariance, PTL DEF Spec
<1> QED BY <1>3 DEF A, OnlyOwnPart

(* RegisterClusterShard answers true to whoever replaces a shard, and true *)
(* without an error to nobody else, for any number of callers racing to    *)
(* bring the same change.                                                  *)
THEOREM ChangeAnswersTrue == Spec => ChangeIsTold
<1> DEFINE replaced == \E c \in DOMAIN Contained(object) \cap TrackedClusters :
                         c \in DOMAIN object' /\ object'[c] # object[c]
           told(p) == /\ replaced => call'[p].answer
                      /\ call'[p].answer /\ call'[p].step = "ok" => replaced
           A == \A p \in Processes :
                  call[p].step = "update" /\ call'[p].step \in {"ok", "error"} => told(p)
<1>1. ASSUME IInv, [Next]_vars, NEW p \in Processes,
             call[p].step = "update", call'[p].step \in {"ok", "error"}
      PROVE  told(p)
  <2> DEFINE op == call[p].op
  <2>1. Update(p)
    <3>1. Start(p) \/ Step(p) \/ Crash(p) BY <1>1, OthersStay DEF Next
    <3>2. ~Crash(p)
      <4>1. Crash(p) => call'[p] = Idle BY <1>1 DEF Crash, Keep, IInv
      <4> QED BY <1>1, <4>1, IdleSelf
    <3> QED BY <1>1, <3>1, <3>2 DEF Start, Step, Read, Create, Delete, Return, Retry
  <2>2. CASE UNCHANGED object /\ call'[p].step = "error"
    <3>1. ~replaced BY <2>2
    <3> HIDE DEF replaced
    <3> QED BY <2>2, <3>1
  <2>3. CASE /\ object # Nil /\ object' = Target(op, object) /\ Typed(part, object')
             /\ call'[p].answer = HasChanged(op, object)
    <3>1. part \in Parts /\ op \in OpsOf(part) BY <1>1, <2>1, WorkingFacts DEF Working
    <3>2. Contained(object) = object BY <2>3 DEF Contained
    <3>3. HasChanged(op, object) => replaced
      <4> SUFFICES ASSUME HasChanged(op, object) PROVE replaced OBVIOUS
      <4>1. PICK c \in DOMAIN op.writes \cap DOMAIN object : object[c] # op.writes[c]
        BY DEF HasChanged
      <4>2. c \in TrackedClusters BY <3>1, <4>1, OpFacts DEF HasChanged
      <4>3. c \in DOMAIN object' /\ object'[c] = op.writes[c] BY <2>3, <4>1 DEF Target
      <4> QED BY <3>2, <4>1, <4>2, <4>3
    <3>4. replaced => HasChanged(op, object)
      <4> SUFFICES ASSUME replaced PROVE HasChanged(op, object) OBVIOUS
      <4>1. PICK c \in DOMAIN object \cap TrackedClusters :
                   c \in DOMAIN object' /\ object'[c] # object[c]
        BY <3>2
      <4>2. c \in DOMAIN op.writes /\ object'[c] = op.writes[c] BY <2>3, <4>1 DEF Target
      <4>3. op.name = "RegisterClusterShard"
        <5>1. DOMAIN op.writes \cap TrackedClusters # {} BY <4>1, <4>2
        <5>2. part = "shards" /\ IsShardOp(op) BY <3>1, <5>1, OpFacts
        <5>3. op.name = "UnregisterClusterShard" => op.writes = None BY <3>1, OpFacts
        <5> QED BY <4>2, <5>2, <5>3 DEF IsShardOp, None
      <4> QED BY <4>1, <4>2, <4>3 DEF HasChanged
    <3> HIDE DEF replaced
    <3> QED BY <2>3, <3>3, <3>4
  <2> HIDE DEF told
  <2>4. \/ UNCHANGED object /\ call'[p].step = "error"
        \/ /\ object # Nil /\ object' = Target(op, object) /\ Typed(part, object')
           /\ call'[p].answer = HasChanged(op, object)
    BY <1>1, <2>1, UpdateCalls
  <2> QED BY <2>2, <2>3, <2>4
<1>2. IInv /\ [Next]_vars => [A]_vars BY <1>1
<1> HIDE DEF A
<1>3. Spec => [][A]_vars BY <1>2, Invariance, PTL DEF Spec
<1> QED BY <1>3 DEF A, ChangeIsTold

-----------------------------------------------------------------------------
(* The license that users installed is there, or a migration is about to   *)
(* create it again with the type ClusterProfile, from a copy that has it.  *)

Holds == object # Nil /\ object["license"] = installed
Creating(p) == call[p].step = "create" /\ call[p].seen["license"] = installed

LicenseInv ==
  part = "license" /\ ~mishap =>
    IF installed = Nil THEN object = Nil /\ \A p \in Processes : call[p].step # "create"
    ELSE Holds \/ \E p \in Processes : Creating(p)

(* A step of p that changes neither the object nor a copy to be created.   *)
LEMMA LicenseStays ==
  ASSUME IInv, LicenseInv, part = "license", NEW p \in Processes,
         Start(p) \/ Step(p) \/ Crash(p),
         UNCHANGED <<part, object, installed>>, ~mishap, call[p].step # "create",
         installed = Nil => call'[p].step # "create"
  PROVE  LicenseInv'
<1>1. \A q \in Processes \ {p} :
         call'[q].step = call[q].step /\ call'[q].seen = call[q].seen
  BY OthersStay
<1>2. CASE installed = Nil BY <1>1, <1>2 DEF LicenseInv
<1>3. CASE installed # Nil /\ Holds BY <1>3 DEF LicenseInv, Holds
<1>4. CASE installed # Nil /\ \E q \in Processes : Creating(q)
  <2>1. PICK q \in Processes : Creating(q) BY <1>4
  <2>2. Creating(q)' BY <1>1, <2>1 DEF Creating
  <2> QED BY <1>4, <2>2 DEF LicenseInv
<1> QED BY <1>2, <1>3, <1>4 DEF LicenseInv

LEMMA LicenseTarget ==
  ASSUME NEW op, op = MigrateLicenseSecretType, NEW seen, "license" \in DOMAIN seen
  PROVE  /\ Target(op, seen)["license"] = seen["license"]
         /\ Initial(op, seen) = Target(op, seen)
<1>1. DOMAIN op.writes = {"type"} /\ op.removes = {} /\ op.name = "MigrateLicenseSecretType"
  BY DEF MigrateLicenseSecretType
<1>2. Target(op, seen)["license"] = seen["license"] BY <1>1 DEF Target
<1> QED BY <1>1, <1>2 DEF Initial, IsShardOp

LEMMA LicenseStep ==
  ASSUME IInv, LicenseInv, part = "license", ~mishap', NEW p \in Processes,
         Start(p) \/ Step(p) \/ Crash(p)
  PROVE  LicenseInv'
<1> DEFINE c == call[p]
           op == call[p].op
<1>1. \A q \in Processes \ {p} :
         call'[q].step = call[q].step /\ call'[q].seen = call[q].seen
  BY OthersStay
<1>2. UNCHANGED <<part, installed>> /\ ~mishap
  <2>1. CASE Start(p) \/ Read(p) \/ Update(p) \/ Return(p) \/ Retry(p)
    BY <2>1 DEF Start, Read, Update, Return, Retry, history
  <2>2. CASE Create(p)
    <3> DEFINE b == /\ ~MoreTries(call[p])
                    /\ object # Initial(call[p].op, call[p].seen)
    <3>1. mishap' = mishap \/ mishap' = (mishap \/ b) BY <2>2 DEF Create
    <3> HIDE DEF b
    <3>2. ~mishap BY <3>1
    <3> QED BY <2>2, <3>2 DEF Create
  <2>3. CASE Delete(p)
    <3> DEFINE b == /\ part = "license" /\ object # Nil
                    /\ object["license"] # call[p].seen["license"]
    <3>1. mishap' = mishap \/ mishap' = (mishap \/ b) \/ mishap' = TRUE BY <2>3 DEF Delete
    <3> HIDE DEF b
    <3>2. ~mishap BY <3>1
    <3> QED BY <2>3, <3>2 DEF Delete
  <2>4. CASE Crash(p) BY <2>4 DEF Crash
  <2> QED BY <2>1, <2>2, <2>3, <2>4 DEF Step
<1>3. Working(p) => /\ op = MigrateLicenseSecretType
                    /\ c.step = "read" \/ c.seen # Nil
                    /\ c.seen # Nil => "license" \in DOMAIN c.seen
  <2> SUFFICES ASSUME Working(p)
               PROVE  /\ op = MigrateLicenseSecretType
                      /\ c.step = "read" \/ c.seen # Nil
                      /\ c.seen # Nil => "license" \in DOMAIN c.seen
    OBVIOUS
  <2>1. op \in OpsOf(part) /\ ReadFirst(c) /\ (c.seen = Nil \/ Typed(part, c.seen))
    BY WorkingFacts
  <2>2. op = MigrateLicenseSecretType BY <2>1 DEF OpsOf
  <2>3. op.name = "MigrateLicenseSecretType" BY <2>2 DEF MigrateLicenseSecretType
  <2> QED BY <2>1, <2>2, <2>3 DEF ReadFirst, Typed, Working
<1>4. object # Nil => "license" \in DOMAIN object BY DEF IInv, ObjectInv, Typed
<1>5. CASE Start(p) \/ Return(p) \/ Retry(p)
  <2>1. call'[p] = Idle \/ \E o \in OpsOf(part) : call'[p] = Begin(o)
    <3>1. Retry(p) => op \in OpsOf(part) BY DEF Retry, IInv, CallInv, CallSelf, CallTyped
    <3>2. call'[p] = Idle \/ (\E o \in OpsOf(part) : call'[p] = Begin(o)) \/ Retry(p)
      BY <1>5 DEF Start, Return, Keep, IInv
    <3>3. Retry(p) => call'[p] = Begin(op) BY DEF Retry, Keep, IInv
    <3> QED BY <3>1, <3>2, <3>3
  <2>2. call'[p].step # "create"
    <3>1. part \in Parts BY DEF IInv
    <3> QED BY <2>1, <3>1, BeginSelf, IdleSelf
  <2>3. UNCHANGED object /\ c.step # "create" BY <1>5 DEF Start, Return, Retry
  <2> QED BY <1>2, <1>5, <2>2, <2>3, LicenseStays
<1>6. CASE Read(p)
  <2>1. op = MigrateLicenseSecretType BY <1>3, <1>6 DEF Read, Working
  <2>2. op.name = "MigrateLicenseSecretType" BY <2>1 DEF MigrateLicenseSecretType
  <2>3. call'[p].step # "create"
    <3>0. CallTyped(part, c) /\ c.step = "read" /\ part \in Parts
      BY <1>6, WorkingFacts DEF Read, Working
    <3>1. \/ call'[p] = [End(c, StepIfFailed(op)) EXCEPT !.blind = TRUE]
          \/ call'[p] = Goto([c EXCEPT !.tries = 1], StepIfMissing(op))
          \/ call'[p] = Goto([c EXCEPT !.seen = object], NextStep(op, object))
      BY <1>6 DEF Read, Keep, IInv
    <3>2. /\ StepIfFailed(op) \in {"ok", "error"} /\ StepIfMissing(op) = "ok"
          /\ NextStep(op, object) \in {"ok", "delete", "update"}
      BY <2>2 DEF StepIfFailed, StepIfMissing, NextStep
    <3>3. c = [step |-> c.step, op |-> c.op, seen |-> c.seen, tries |-> c.tries,
               answer |-> c.answer, blind |-> c.blind, done |-> c.done]
      BY <3>0 DEF CallTyped, CallShape
    <3>4. ASSUME NEW s PROVE [End(c, s) EXCEPT !.blind = TRUE].step = s
      BY <3>3 DEF End
    <3>5. Goto([c EXCEPT !.tries = 1], "ok").step = "ok"
      <4>1. [c EXCEPT !.tries = 1].step = c.step BY <3>3
      <4> QED BY <3>3 DEF Goto, End
    <3>6. ASSUME NEW s \in {"ok", "delete", "update"}
          PROVE  Goto([c EXCEPT !.seen = object], s).step = s
      BY <3>3 DEF Goto, End
    <3> QED BY <3>1, <3>2, <3>4, <3>5, <3>6
  <2>4. UNCHANGED object /\ c.step # "create" BY <1>6 DEF Read
  <2> QED BY <1>2, <1>6, <2>3, <2>4, LicenseStays DEF Step
<1>7. CASE Crash(p)
  <2>1. UNCHANGED object /\ call'[p] = Idle BY <1>7 DEF Crash, Keep, IInv
  <2>2. CASE c.step # "create"
    <3>1. call'[p].step # "create" BY <2>1 DEF Idle
    <3> QED BY <1>2, <1>7, <2>1, <2>2, <3>1, LicenseStays
  <2>3. CASE c.step = "create"
    <3>1. object = Initial(op, c.seen) BY <1>7, <2>3 DEF Crash
    <3>2. object["license"] = c.seen["license"] /\ installed # Nil /\ Working(p)
      <4>1. Working(p) BY <2>3 DEF Working
      <4>2. installed # Nil BY <1>2, <2>3 DEF LicenseInv
      <4> QED BY <1>3, <2>3, <3>1, <4>1, <4>2, LicenseTarget
    <3>3. object # Nil
      <4>1. Typed(part, Initial(op, c.seen))
        <5>1. /\ part \in Parts /\ op \in OpsOf(part) /\ c.seen # Nil
              /\ c.seen = Nil \/ Typed(part, c.seen)
          BY <1>3, <2>3, <3>2, WorkingFacts
        <5> QED BY <5>1, TypedInitial
      <4> QED BY <3>1, <4>1, TypedIsNotNil DEF IInv
    <3>4. Holds \/ \E q \in Processes \ {p} : Creating(q)
      BY <1>2, <3>2, <3>3 DEF LicenseInv, Holds, Creating
    <3>5. CASE Holds BY <1>2, <2>1, <3>2, <3>5 DEF Holds, LicenseInv
    <3>6. CASE \E q \in Processes \ {p} : Creating(q)
      <4>1. PICK q \in Processes \ {p} : Creating(q) BY <3>6
      <4>2. Creating(q)' BY <1>1, <1>2, <4>1 DEF Creating
      <4> QED BY <1>2, <3>2, <4>2 DEF LicenseInv
    <3> QED BY <3>4, <3>5, <3>6
  <2> QED BY <2>2, <2>3
<1>8. CASE Create(p)
  <2>1. Working(p) /\ c.step = "create" BY <1>8 DEF Create, Working
  <2>2. installed # Nil BY <1>2, <2>1 DEF LicenseInv
  <2>3. Initial(op, c.seen)["license"] = c.seen["license"] BY <1>3, <2>1, LicenseTarget
  <2>4. \/ UNCHANGED object
        \/ object = Nil /\ object' = Initial(op, c.seen)
    BY <1>8, CreateCalls
  <2>4a. object' = Nil \/ Typed(part, object') BY <1>8, CreateCalls
  <2>4b. Initial(op, c.seen) # Nil
    <3>1. /\ part \in Parts /\ op \in OpsOf(part) /\ c.seen # Nil
          /\ c.seen = Nil \/ Typed(part, c.seen)
      BY <1>3, <2>1, WorkingFacts
    <3> QED BY <3>1, TypedInitial, TypedIsNotNil
  <2>5. CASE Holds
    <3>1. Holds' BY <1>2, <2>4, <2>5 DEF Holds
    <3> QED BY <1>2, <2>2, <3>1 DEF LicenseInv
  <2>6. CASE \E q \in Processes \ {p} : Creating(q)
    <3>1. PICK q \in Processes \ {p} : Creating(q) BY <2>6
    <3>2. Creating(q)' BY <1>1, <1>2, <3>1 DEF Creating
    <3> QED BY <1>2, <2>2, <3>2 DEF LicenseInv
  <2>7. CASE Creating(p)
    <3>1. CASE object' = Initial(op, c.seen)
      <4>1. Holds' BY <1>2, <2>3, <2>4b, <2>7, <3>1 DEF Holds, Creating
      <4> QED BY <1>2, <2>2, <4>1 DEF LicenseInv
    <3>2. CASE object' # Initial(op, c.seen)
      <4>1. Keep(p, CreateFailed(c)) /\ (~MoreTries(c) => object = Initial(op, c.seen))
            /\ UNCHANGED object
        BY <1>8, <2>4, <3>2 DEF Create, Change
      <4>2. MoreTries(c) BY <3>2, <4>1
      <4>3. call'[p] = [c EXCEPT !.tries = @ - 1] BY <4>1, <4>2 DEF Keep, CreateFailed, IInv
      <4>4. CallTyped(part, c) BY <2>1, WorkingFacts
      <4>5. call'[p].step = "create" /\ call'[p].seen = c.seen
        BY <2>1, <4>3, <4>4 DEF CallTyped, CallShape
      <4>6. Creating(p)' BY <1>2, <2>7, <4>5 DEF Creating
      <4> QED BY <1>2, <2>2, <4>6 DEF LicenseInv
    <3> QED BY <3>1, <3>2
  <2> QED BY <1>2, <2>2, <2>5, <2>6, <2>7 DEF LicenseInv
<1>9. CASE Update(p)
  <2>1. \/ UNCHANGED object /\ call'[p].step = "error"
        \/ object # Nil /\ object' = Target(op, object) /\ Typed(part, object')
    BY <1>9, UpdateCalls
  <2>2. op = MigrateLicenseSecretType /\ c.step # "create" BY <1>3, <1>9 DEF Update, Working
  <2>3. CASE UNCHANGED object /\ call'[p].step = "error"
    BY <1>2, <1>9, <2>2, <2>3, LicenseStays DEF Step
  <2>4. CASE object # Nil /\ object' = Target(op, object) /\ Typed(part, object')
    <3>1. object'["license"] = object["license"] BY <1>4, <2>2, <2>4, LicenseTarget
    <3>2. object' # Nil BY <2>4, TypedIsNotNil DEF IInv
    <3>3. installed # Nil BY <1>2, <2>4 DEF LicenseInv
    <3>4. CASE Holds
      <4>1. Holds' BY <1>2, <3>1, <3>2, <3>4 DEF Holds
      <4> QED BY <1>2, <3>3, <4>1 DEF LicenseInv
    <3>5. CASE \E q \in Processes : Creating(q)
      <4>1. PICK q \in Processes : Creating(q) BY <3>5
      <4>2. Creating(q)' BY <1>1, <1>2, <2>2, <4>1 DEF Creating
      <4> QED BY <1>2, <3>3, <4>2 DEF LicenseInv
    <3> QED BY <1>2, <3>3, <3>4, <3>5 DEF LicenseInv
  <2> QED BY <2>1, <2>3, <2>4
<1>10. CASE Delete(p)
  <2>1. Working(p) /\ c.step = "delete" BY <1>10 DEF Delete, Working
  <2>2. \/ UNCHANGED object /\ call'[p].step = "error"
        \/ object # Nil /\ object' = Nil
    BY <1>10, DeleteCalls
  <2>3. CASE UNCHANGED object /\ call'[p].step = "error"
    BY <1>2, <1>10, <2>1, <2>3, LicenseStays DEF Step
  <2>4. CASE object # Nil /\ object' = Nil
    <3>1. installed # Nil BY <1>2, <2>4 DEF LicenseInv
    <3>2. StepAfterDelete(op) = "create"
      BY <1>3, <2>1 DEF StepAfterDelete, MigrateLicenseSecretType
    <3>3. call'[p].step = "create" /\ call'[p].seen = c.seen
      BY <1>10, <2>4, <3>2, DeleteCalls
    <3>4. object["license"] = c.seen["license"] BY <1>10, <2>4 DEF Delete
    <3>5. CASE Holds
      <4>1. Creating(p)' BY <1>2, <3>3, <3>4, <3>5 DEF Holds, Creating
      <4> QED BY <1>2, <3>1, <4>1 DEF LicenseInv
    <3>6. CASE \E q \in Processes : Creating(q)
      <4>1. PICK q \in Processes : Creating(q) BY <3>6
      <4>2. Creating(q)' BY <1>1, <1>2, <2>1, <4>1 DEF Creating
      <4> QED BY <1>2, <3>1, <4>2 DEF LicenseInv
    <3> QED BY <1>2, <3>1, <3>5, <3>6 DEF LicenseInv
  <2> QED BY <2>2, <2>3, <2>4
<1> QED BY <1>5, <1>6, <1>7, <1>8, <1>9, <1>10 DEF Step

LEMMA LicenseUsers ==
  ASSUME IInv, LicenseInv, part = "license", ~mishap', Users
  PROVE  LicenseInv'
<1>1. CASE \E type \in {"Opaque", "ClusterProfile"}, lp \in Licenses : InstallLicense(type, lp)
  <2>1. PICK type \in {"Opaque", "ClusterProfile"}, lp \in Licenses : InstallLicense(type, lp)
    BY <1>1
  <2>2. object' = LicenseSecret(type, lp) /\ installed' = lp
    BY <2>1 DEF InstallLicense, Change
  <2>3. /\ Typed("license", LicenseSecret(type, lp))
        /\ LicenseSecret(type, lp)["license"] = lp
    BY LicenseTyped
  <2>4. part \in Parts BY DEF IInv
  <2>5. LicenseSecret(type, lp) # Nil BY <2>3, <2>4, TypedIsNotNil
  <2>6. Holds' /\ installed' # Nil BY <2>2, <2>3, <2>5 DEF Holds
  <2> QED BY <2>6 DEF LicenseInv
<1>2. CASE \E lp \in Licenses : RenewLicense(lp)
  <2>1. PICK lp \in Licenses : RenewLicense(lp) BY <1>2
  <2>2. object' = [object EXCEPT !["license"] = lp] /\ installed' = lp /\ object # Nil
    BY <2>1 DEF RenewLicense, Change
  <2>3. Typed(part, object) BY <2>2 DEF IInv, ObjectInv
  <2>4. object'["license"] = lp BY <2>2, <2>3 DEF Typed, HasTypes
  <2>5. IInv' BY UsersKeep
  <2>6. object' # Nil
    <3>1. object' \in [DOMAIN object' -> Values] /\ DOMAIN object' \subseteq Entries
      <4>1. DOMAIN object \subseteq Entries BY <2>3, TypedIsNotNil DEF IInv
      <4>2. lp \in Values BY DEF Values
      <4> QED BY <2>2, <2>3, <4>1, <4>2 DEF Typed, HasTypes
    <3> QED BY <3>1
  <2>7. Holds' /\ installed' # Nil BY <2>2, <2>4, <2>6 DEF Holds
  <2> QED BY <2>7 DEF LicenseInv
<1>3. CASE RemoveLicense
  <2>1. /\ object' = Nil /\ installed' = Nil
        /\ \A p \in Processes : call[p].step # "create"
    BY <1>3 DEF RemoveLicense, Change
  <2>2. \A p \in Processes : call'[p].step = call[p].step BY <1>3, OthersStay DEF Users
  <2> QED BY <2>1, <2>2 DEF LicenseInv
<1> QED BY <1>1, <1>2, <1>3 DEF Users

LEMMA LicenseInvariance == Spec => []LicenseInv
<1>1. Init => LicenseInv
  <2> SUFFICES ASSUME Init, part = "license" PROVE Holds /\ installed # Nil
    BY DEF LicenseInv
  <2>1. PICK lp \in Licenses : object = LicenseSecret("Opaque", lp) /\ installed = lp
    BY DEF Init
  <2>2. Typed("license", object) /\ object["license"] = lp BY <2>1, LicenseTyped
  <2>3. part \in Parts BY DEF Init
  <2>4. object # Nil BY <2>2, <2>3, TypedIsNotNil
  <2> QED BY <2>1, <2>2, <2>4 DEF Holds
<1>2. IInv /\ LicenseInv /\ [Next]_vars => LicenseInv'
  <2> SUFFICES ASSUME IInv, LicenseInv, [Next]_vars PROVE LicenseInv' OBVIOUS
  <2>1. CASE part' = "license" /\ ~mishap'
    <3>0. part = "license"
      BY <2>1 DEF Next, Start, Step, Read, Create, Update, Delete, Return, Retry, Crash, Users,
                  InstallLicense, RenewLicense, RemoveLicense, Tick, CalmDown, vars
    <3>1. ASSUME NEW p \in Processes, Start(p) \/ Step(p) \/ Crash(p) PROVE LicenseInv'
      BY <2>1, <3>0, <3>1, LicenseStep
    <3>2. CASE Users BY <2>1, <3>0, <3>2, LicenseUsers
    <3>3. CASE Tick \/ CalmDown \/ UNCHANGED vars
      BY <3>3 DEF Tick, CalmDown, vars, history, LicenseInv, Holds, Creating
    <3> QED BY <3>1, <3>2, <3>3 DEF Next
  <2>2. CASE ~(part' = "license" /\ ~mishap') BY <2>2 DEF LicenseInv
  <2> QED BY <2>1, <2>2
<1> QED BY <1>1, <1>2, Invariance, PTL DEF Spec

(* A migration never loses or replaces the license, but for the mishaps:   *)
(* whatever the number of controllers that migrate, retry and crash, the   *)
(* license that users installed last is there when none is working.        *)
THEOREM LicenseKept == Spec => []LicenseSurvives
<1>1. IInv /\ LicenseInv => LicenseSurvives
  <2> SUFFICES ASSUME IInv, LicenseInv, part = "license", ~mishap,
                      \A p \in Processes : ~Working(p)
               PROVE  IF installed = Nil THEN object = Nil
                      ELSE object # Nil /\ "license" \in DOMAIN object
                             /\ object["license"] = installed
    BY DEF LicenseSurvives
  <2>1. \A p \in Processes : ~Creating(p) BY DEF Creating, Working
  <2>2. object # Nil => "license" \in DOMAIN object BY DEF IInv, ObjectInv, Typed
  <2> QED BY <2>1, <2>2 DEF LicenseInv, Holds
<1> QED BY <1>1, Invariance, LicenseInvariance, PTL

(* What VerifyLicenseSecret says of a license it has read, at any time, of *)
(* any dates, grace period, fingerprint, signature and keys: what the      *)
(* fields are documented to mean, but at the instant of expiration, in     *)
(* grace for other clusters, and when the namespace cannot be read.        *)
LEMMA VerdictOf ==
  ASSUME NEW lp \in LicensePayload, NEW t \in Time, NEW nsRead \in BOOLEAN
  PROVE  \/ VerifyLicenseSecret(lp, t, nsRead) = ExpectedVerdict(lp, t)
         \/ AtExpiration(lp, t)
         \/ GraceOfAnotherCluster(lp, t)
         \/ VerifyLicenseSecret(lp, t, nsRead) = "enforced" /\ ~nsRead /\ lp.fingerprint # ""
<1> DEFINE x == lp.expirationDate
           y == EnforcementDate(lp)
           full == lp.keys = Keys
           empty == lp.fingerprint = ""
           ours == lp.fingerprint = ThisCluster
           V == VerifyLicenseSecret(lp, t, nsRead)
           E == ExpectedVerdict(lp, t)
<1>1. t \in Int /\ x \in Int /\ lp.signed \in BOOLEAN
  <2>1. Time \subseteq Int BY MaxTimeIsNat DEF Time
  <2> QED BY <2>1 DEF LicensePayload
<1>2. Genuine(lp) <=> lp.signed /\ full /\ (empty \/ ours) BY Zenon DEF Genuine, Signed
<1>3. lp # Nil BY LicenseAssumption, Zenon
<1>4. V = IF ~full THEN "enforced"
          ELSE IF VerifyLicensePayload(lp, t) = "valid" /\ ~empty /\ ~(nsRead /\ ours)
          THEN "enforced" ELSE VerifyLicensePayload(lp, t)
  BY <1>3, Zenon DEF VerifyLicenseSecret, VerifyClusterFingerprint, IsClusterFingerprintValid
<1>5. ~empty <=> lp.fingerprint # "" OBVIOUS
<1>6. full /\ lp.signed <=> Signed(lp) BY Zenon DEF Signed
<1> HIDE DEF x, y, full, empty, ours, V, E
<1>7. VerifyLicensePayload(lp, t) =
        IF ~lp.signed THEN "enforced"
        ELSE IF t < x THEN "valid" ELSE IF t > x /\ t < y THEN "grace" ELSE "enforced"
  BY <1>1 DEF VerifyLicensePayload, VerifyExpirationDate, x, y
<1>8. E = IF Genuine(lp) /\ t < x THEN "valid"
          ELSE IF Genuine(lp) /\ t >= x /\ t < y THEN "grace" ELSE "enforced"
  BY <1>1 DEF ExpectedVerdict, E, x, y
<1>9. AtExpiration(lp, t) <=> Genuine(lp) /\ t = x BY DEF AtExpiration, x
<1>10. GraceOfAnotherCluster(lp, t) <=> Signed(lp) /\ ~Genuine(lp) /\ t > x /\ t < y
  BY DEF GraceOfAnotherCluster, x, y
<1>11. V = E \/ AtExpiration(lp, t) \/ GraceOfAnotherCluster(lp, t)
       \/ (V = "enforced" /\ ~nsRead /\ ~empty)
  <2>1. CASE ~(full /\ lp.signed)
    <3>1. V = "enforced" BY <1>4, <1>7, <2>1
    <3>2. E = "enforced" BY <1>2, <1>8, <2>1
    <3> QED BY <3>1, <3>2
  <2>2. CASE full /\ lp.signed /\ t < x
    <3>1. V = IF ~empty /\ ~(nsRead /\ ours) THEN "enforced" ELSE "valid"
      BY <1>4, <1>7, <2>2
    <3>2. E = IF Genuine(lp) THEN "valid" ELSE "enforced"
      <4>1. ~(t >= x) BY <1>1, <2>2
      <4> QED BY <1>8, <2>2, <4>1
    <3> QED BY <1>2, <2>2, <3>1, <3>2
  <2>3. CASE full /\ lp.signed /\ t = x
    <3>1. ~(t < x) /\ ~(t > x) /\ t >= x BY <1>1, <2>3
    <3>2. V = "enforced" BY <1>4, <1>7, <2>3, <3>1
    <3>3. ~Genuine(lp) => E = "enforced" BY <1>8
    <3> QED BY <1>9, <2>3, <3>2, <3>3
  <2>4. CASE full /\ lp.signed /\ t > x
    <3>1. ~(t < x) /\ t >= x BY <1>1, <2>4
    <3>2. V = IF t < y THEN "grace" ELSE "enforced" BY <1>4, <1>7, <2>4, <3>1
    <3>3. E = IF Genuine(lp) /\ t < y THEN "grace" ELSE "enforced" BY <1>8, <3>1
    <3> QED BY <1>6, <1>10, <2>4, <3>2, <3>3
  <2>5. t < x \/ t = x \/ t > x BY <1>1
  <2> QED BY <2>1, <2>2, <2>3, <2>4, <2>5
<1> QED BY <1>5, <1>11 DEF V, E

(* However migrations and users interleave, the license that users         *)
(* installed last is judged by what it says and by the time, for any       *)
(* licenses and any number of migrations, by whoever reads it between two  *)
(* migrations: the object that is read is the installed one, or has the    *)
(* type that the scoped cache does not show.                               *)
THEOREM JudgedAsDated == Spec => []VerdictAsDated
<1>1. IInv /\ LicenseInv => VerdictAsDated
  <2> DEFINE lp == Payload[installed]
             V(get, nsRead) == VerifyLicenseSecret(get, now, nsRead)
             good(get, nsRead) ==
               IF installed = Nil THEN V(get, nsRead) = "enforced"
               ELSE \/ V(get, nsRead) = ExpectedVerdict(lp, now)
                    \/ AtExpiration(lp, now)
                    \/ GraceOfAnotherCluster(lp, now)
                    \/ V(get, nsRead) = "enforced" /\ get = Nil
                         /\ object["type"] # "ClusterProfile"
                    \/ V(get, nsRead) = "enforced" /\ ~nsRead /\ lp.fingerprint # ""
  <2> SUFFICES ASSUME IInv, LicenseInv, part = "license", ~mishap,
                      \A p \in Processes : call[p].step # "create",
                      NEW get \in {LicenseRead(object), ScopedRead(object)},
                      NEW nsRead \in BOOLEAN
               PROVE  good(get, nsRead)
    BY Zenon DEF VerdictAsDated
  <2>1. get = Nil => V(get, nsRead) = "enforced" BY Zenon DEF VerifyLicenseSecret
  <2>2. CASE installed = Nil
    <3>1. object = Nil BY <2>2 DEF LicenseInv
    <3>2. get = Nil BY <3>1 DEF LicenseRead, ScopedRead
    <3> QED BY <2>1, <2>2, <3>2
  <2>3. CASE installed # Nil
    <3>1. object # Nil /\ object["license"] = installed
      BY <2>3 DEF LicenseInv, Holds, Creating
    <3>2. LicenseRead(object) = lp BY <3>1 DEF LicenseRead
    <3>3. get = lp \/ (get = Nil /\ object["type"] # "ClusterProfile")
      BY <3>1, <3>2 DEF ScopedRead
    <3>4. lp \in LicensePayload /\ now \in Time BY <2>3 DEF IInv
    <3> HIDE DEF lp
    <3>5. CASE get = lp
      <4>1. \/ V(lp, nsRead) = ExpectedVerdict(lp, now)
            \/ AtExpiration(lp, now)
            \/ GraceOfAnotherCluster(lp, now)
            \/ V(lp, nsRead) = "enforced" /\ ~nsRead /\ lp.fingerprint # ""
        BY <3>4, VerdictOf
      <4> HIDE DEF V
      <4> QED BY <2>3, <3>5, <4>1
    <3>6. CASE get = Nil /\ object["type"] # "ClusterProfile"
      <4> HIDE DEF V
      <4> QED BY <2>1, <2>3, <3>6
    <3> QED BY <3>3, <3>5, <3>6
  <2> QED BY <2>2, <2>3
<1> QED BY <1>1, Invariance, LicenseInvariance, PTL
=============================================================================
