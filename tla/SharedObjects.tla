--------------------------- MODULE SharedObjects ---------------------------
(***************************************************************************)
(* Single objects in an API server that several controllers read, change   *)
(* and write back: the ConfigMap of cluster shards (lib/sharding), the     *)
(* kubeconfig Secret of RoleRequests (lib/roles), the ConfigMap with an    *)
(* agent's version (lib/sveltos_upgrade), a ResourceSummary                *)
(* (lib/deployer/drift_detection_utils.go) and the license Secret          *)
(* (lib/licenses).  The objects do not interact, so that a behaviour is    *)
(* about one of them, which Init picks.                                    *)
(*                                                                         *)
(* An object is a partial function of its entries.  An operation asks for  *)
(* some entries to be written and some to be removed; the components       *)
(* differ in how they get there.  Only Update compares resourceVersions.   *)
(* A read is of the object as it is in the API server.                     *)
(***************************************************************************)
EXTENDS License, Functions

CONSTANTS Processes,    \* goroutines or controllers, one call at a time each
          TrackedClusters, ShardKeys,  \* entries and values of the shard ConfigMap
          RoleRequests, Kubeconfigs,   \* owners and content of the role Secret
          Versions,                    \* of an agent
          Sections, Contents,          \* of a ResourceSummary
          GivenSections,               \* sections that callers give, the others being nil
          Licenses, Payload,           \* names of licenses, and what they say
          Parts,        \* objects the behaviours are about
          CreateSteps   \* how often the migration tries to create the Secret

ASSUME SharedObjectsAssumption ==
  /\ Payload \in [Licenses -> LicensePayload]
  /\ GivenSections \subseteq SUBSET Sections
  /\ CreateSteps \in Nat \ {0}
  /\ Nil \notin Processes
  /\ Parts \subseteq {"shards", "secret", "version", "summary", "license"}
  /\ TrackedClusters \cap (RoleRequests \cup Sections) = {}
  /\ (TrackedClusters \cup RoleRequests)
       \cap {"kubeconfig", "version", "patches", "type", "license"} = {}

-----------------------------------------------------------------------------
(* Operations *)

None == [e \in {} |-> e]

RegisterClusterShard(c, s) ==
  [name |-> "RegisterClusterShard", writes |-> [e \in {c} |-> s], removes |-> {}]
UnregisterClusterShard(c) ==
  [name |-> "UnregisterClusterShard", writes |-> None, removes |-> {c}]
CreateSecret(owner, k) ==
  [name |-> "CreateSecret", removes |-> {},
   writes |-> [e \in {owner, "kubeconfig"} |-> IF e = owner THEN "owner" ELSE k]]
DeleteSecret(owner) ==
  [name |-> "DeleteSecret", writes |-> None, removes |-> {owner}]
StoreVersion(v) ==
  [name |-> "StoreVersion", writes |-> [version |-> v], removes |-> {}]
(* Sections that are nil are left alone; patches, labels and annotations   *)
(* are always replaced.                                                    *)
DeployResourceSummary(given, x) ==
  [name |-> "DeployResourceSummary", writes |-> [e \in given \cup {"patches"} |-> x],
   removes |-> {}]
MigrateLicenseSecretType ==
  [name |-> "MigrateLicenseSecretType", writes |-> [type |-> "ClusterProfile"], removes |-> {}]

OpsOf(what) ==
  CASE what = "shards" ->
         {RegisterClusterShard(c, s) : c \in TrackedClusters, s \in ShardKeys}
         \cup {UnregisterClusterShard(c) : c \in TrackedClusters}
    [] what = "secret" ->
         {CreateSecret(r, k) : r \in RoleRequests, k \in Kubeconfigs}
         \cup {DeleteSecret(r) : r \in RoleRequests}
    [] what = "version" -> {StoreVersion(v) : v \in Versions}
    [] what = "summary" -> {DeployResourceSummary(g, x) : g \in GivenSections, x \in Contents}
    [] what = "license" -> {MigrateLicenseSecretType}

Ops == UNION {OpsOf(what) : what \in Parts}

Entries == TrackedClusters \cup RoleRequests \cup Sections
           \cup {"kubeconfig", "version", "patches", "type", "license"}
Values == ShardKeys \cup Kubeconfigs \cup Versions \cup Contents \cup Licenses
          \cup {"owner", "Opaque", "ClusterProfile"}

ASSUME NilAssumption == /\ Nil \notin Ops /\ Nil \notin Licenses
                        /\ \A E \in SUBSET Entries : Nil \notin [E -> Values]

LicenseSecret(type, lp) == [type |-> type, license |-> lp]

VARIABLES
  part,      \* which object this behaviour is about
  object,    \* the object in the API server, or Nil
  call,      \* what each process is doing
  current,   \* processes whose copy has the resourceVersion of the object
  now,       \* the clock
  calm,      \* no more requests, crashes or failures of the API server
  installed, \* history: the license users want installed, or Nil
  mishap     \* history: a migration failed half way, or met another change

history == <<installed, mishap>>
vars == <<part, object, call, current, now, calm, history>>

Steps == {"idle", "read", "create", "update", "delete", "ok", "error"}

(* blind: the read failed and the error was dropped.  done is history: the *)
(* object had, at some moment of the call, what the call asks for.         *)
Idle == [step |-> "idle", op |-> Nil, seen |-> Nil, tries |-> 0, answer |-> FALSE,
         blind |-> FALSE, done |-> FALSE]

Init == /\ part \in Parts
        /\ IF part = "license"
           THEN \E lp \in Licenses : /\ object = LicenseSecret("Opaque", lp)
                                     /\ installed = lp
           ELSE object = Nil /\ installed = Nil
        /\ call = [p \in Processes |-> Idle]
        /\ current = {}
        /\ now = 0
        /\ calm = FALSE
        /\ mishap = FALSE

Working(p) == call[p].step \in {"read", "create", "update", "delete"}

-----------------------------------------------------------------------------
(* What an operation makes of the copy it read *)

Target(op, seen) ==
  [e \in DOMAIN op.writes \cup (DOMAIN seen \ op.removes) |->
     IF e \in DOMAIN op.writes THEN op.writes[e] ELSE seen[e]]

Done(op, obj) ==
  IF obj = Nil THEN op.writes = None \/ op.name = "MigrateLicenseSecretType"
  ELSE /\ IsRestriction(op.writes, obj)
       /\ op.removes \cap DOMAIN obj = {}

(* RegisterClusterShard, UnregisterClusterShard, CreateSecret and the      *)
(* migration compare first; the others write in any case.                  *)
Compares(op) == op.name \in {"RegisterClusterShard", "UnregisterClusterShard", "CreateSecret",
                             "MigrateLicenseSecretType"}

IsOnlyOwner(op, seen) == DOMAIN seen \cap RoleRequests \subseteq op.removes

NextStep(op, seen) ==
  CASE Compares(op) /\ Done(op, seen) -> "ok"
    [] op.name = "DeleteSecret" /\ IsOnlyOwner(op, seen) -> "delete"
    [] op.name = "MigrateLicenseSecretType" /\ ~Done(op, seen) -> "delete"
    [] OTHER -> "update"

StepIfMissing(op) ==
  IF op.name \in {"DeleteSecret", "MigrateLicenseSecretType"} THEN "ok" ELSE "create"

(* getConfigMap of lib/sharding drops any error but NotFound, and returns  *)
(* an empty ConfigMap without a name, which UnregisterClusterShard finds   *)
(* nothing in and RegisterClusterShard fails to update.                    *)
StepIfFailed(op) ==
  IF op.name \in {"UnregisterClusterShard", "DeleteSecret"} THEN "ok" ELSE "error"

IsShardOp(op) == op.name \in {"RegisterClusterShard", "UnregisterClusterShard"}

InitialWithoutData(op, seen) == IF IsShardOp(op) THEN None ELSE op.writes
Initial(op, seen) ==
  CASE IsShardOp(op) -> None
    [] op.name = "MigrateLicenseSecretType" -> Target(op, seen)
    [] OTHER -> op.writes

StepAfterCreate(op) == IF op.name = "RegisterClusterShard" THEN "update" ELSE "ok"
StepAfterDelete(op) == IF op.name = "MigrateLicenseSecretType" THEN "create" ELSE "ok"

(* RegisterClusterShard tells whether the shard has changed.               *)
FirstCounts(op, seen) ==
  op.name = "RegisterClusterShard" /\ ~IsRestriction(op.writes, seen)
HasChanged(op, seen) ==
  /\ op.name = "RegisterClusterShard"
  /\ \E c \in DOMAIN op.writes \cap DOMAIN seen : seen[c] # op.writes[c]

-----------------------------------------------------------------------------
(* A call.  Each step is one request; any may fail, or be carried out with *)
(* its answer lost, and then counts as failed.                             *)

Keep(p, c) == call' = [call EXCEPT ![p] = c]

Seen(q, obj) == IF q.step \in {"idle", "ok", "error"} THEN q
                ELSE [q EXCEPT !.done = @ \/ Done(q.op, obj)]

(* p, whose call goes on as c, or with Nil another, changes the object.    *)
Change(p, c, new) ==
  /\ object' = new
  /\ call' = [q \in Processes |->
                IF q = p THEN [c EXCEPT !.done = @ \/ Done(c.op, new)] ELSE Seen(call[q], new)]

End(c, step) == [c EXCEPT !.step = step, !.seen = Nil, !.tries = 0]
Goto(c, step) == IF step \in {"ok", "error"} THEN End(c, step) ELSE [c EXCEPT !.step = step]

Begin(op) == [Idle EXCEPT !.step = "read", !.op = op, !.done = Done(op, object)]

Start(p) ==
  /\ call[p].step = "idle" /\ ~calm
  /\ \E op \in OpsOf(part) : Keep(p, Begin(op))
  /\ UNCHANGED <<part, object, current, now, calm, history>>

Read(p) ==
  /\ call[p].step = "read"
  /\ LET op == call[p].op IN
     \/ /\ ~calm
        /\ Keep(p, [End(call[p], StepIfFailed(op)) EXCEPT !.blind = TRUE])
        /\ UNCHANGED current
     \/ /\ object = Nil
        /\ Keep(p, Goto([call[p] EXCEPT !.tries = 1], StepIfMissing(op)))
        /\ UNCHANGED current
     \/ /\ object # Nil
        /\ Keep(p, Goto([call[p] EXCEPT !.seen = object], NextStep(op, object)))
        /\ current' = current \cup {p}
  /\ UNCHANGED <<part, object, now, calm, history>>

(* Only the migration tries again to create.                               *)
MoreTriesThanSteps(c) == c.tries >= 0
MoreTries(c) == c.tries > 1

AlreadyExistsIsOk(c) == End(c, "ok")
CreateFailed(c) == IF MoreTries(c) THEN [c EXCEPT !.tries = @ - 1] ELSE End(c, "error")

Create(p) ==
  /\ call[p].step = "create"
  /\ LET c == call[p]
         new == Initial(c.op, c.seen)
         created == Goto([c EXCEPT !.seen = new, !.tries = 0], StepAfterCreate(c.op))
     IN
     \/ /\ object = Nil
        /\ Change(p, created, new)
        /\ current' = {p}
        /\ UNCHANGED mishap
     \/ /\ object = Nil /\ ~calm
        /\ Change(p, CreateFailed(c), new)
        /\ current' = {}
        /\ UNCHANGED mishap
     \/ /\ object = Nil => ~calm
        /\ Keep(p, CreateFailed(c))
        /\ mishap' = (mishap \/ (~MoreTries(c) /\ object # new))
        /\ UNCHANGED <<object, current>>
  /\ UNCHANGED <<part, now, calm, installed>>

Unchecked(p) == object # Nil
VersionMatches(p) == object # Nil /\ p \in current

WriteAgain(c) == c
UpdateFailed(c) == End(c, "error")

(* RegisterClusterShard returns its finding along with the error, if any.  *)
Update(p) ==
  /\ call[p].step = "update"
  /\ LET c == [call[p] EXCEPT !.answer = HasChanged(call[p].op, call[p].seen)]
         new == Target(c.op, c.seen)
     IN
     \/ /\ VersionMatches(p)
        /\ Change(p, End(c, "ok"), new)
        /\ current' = {}
     \/ /\ VersionMatches(p) /\ ~calm
        /\ Change(p, End(c, "error"), new)
        /\ current' = {}
     \/ /\ VersionMatches(p) => ~calm
        /\ Keep(p, UpdateFailed(c))
        /\ UNCHANGED <<object, current>>
  /\ UNCHANGED <<part, now, calm, installed, mishap>>

(* Without a precondition: whatever is there now is deleted.               *)
Delete(p) ==
  /\ call[p].step = "delete"
  /\ LET c == call[p]
         deleted == Goto([c EXCEPT !.tries = CreateSteps], StepAfterDelete(c.op))
         other == part = "license" /\ object # Nil /\ object["license"] # c.seen["license"]
     IN
     \/ /\ object # Nil
        /\ Change(p, deleted, Nil)
        /\ mishap' = (mishap \/ other)
     \/ /\ object # Nil /\ ~calm
        /\ Change(p, End(c, "error"), Nil)
        /\ mishap' = TRUE
     \/ /\ object # Nil => ~calm
        /\ Keep(p, End(c, "error"))
        /\ UNCHANGED <<object, mishap>>
  /\ current' = IF object' = object THEN current ELSE {}
  /\ UNCHANGED <<part, now, calm, installed>>

(* The caller acts on the answer, or comes back after an error.            *)
Return(p) ==
  /\ \/ call[p].step = "ok" /\ Keep(p, Idle)
     \/ call[p].step = "error" /\ ~calm /\ Keep(p, Idle)
  /\ current' = current \ {p}
  /\ UNCHANGED <<part, object, now, calm, history>>

Retry(p) ==
  /\ call[p].step = "error"
  /\ Keep(p, Begin(call[p].op))
  /\ current' = current \ {p}
  /\ UNCHANGED <<part, object, now, calm, history>>

Crash(p) ==
  /\ Working(p) /\ ~calm
  /\ Keep(p, Idle)
  /\ current' = current \ {p}
  /\ mishap' = (mishap \/ (call[p].step = "create" /\ object # Initial(call[p].op, call[p].seen)))
  /\ UNCHANGED <<part, object, now, calm, installed>>

-----------------------------------------------------------------------------
(* Users install, renew and remove a license, of either type.  The type of *)
(* a Secret cannot be changed.  Time passes.                               *)

InstallLicense(type, lp) ==
  /\ part = "license" /\ ~calm
  /\ object = Nil
  /\ Change(Nil, Nil, LicenseSecret(type, lp))
  /\ current' = {}
  /\ installed' = lp
  /\ UNCHANGED <<part, now, calm, mishap>>

RenewLicense(lp) ==
  /\ part = "license" /\ ~calm
  /\ object # Nil /\ object["license"] # lp
  /\ Change(Nil, Nil, [object EXCEPT !["license"] = lp])
  /\ current' = {}
  /\ installed' = lp
  /\ UNCHANGED <<part, now, calm, mishap>>

RemoveLicense ==
  /\ part = "license" /\ ~calm
  /\ object # Nil
  /\ Change(Nil, Nil, Nil)
  /\ current' = {}
  /\ installed' = Nil
  /\ mishap' = (mishap \/ \E p \in Processes : call[p].step = "create")
  /\ UNCHANGED <<part, now, calm>>

Tick ==
  /\ part = "license" /\ now < MaxTime
  /\ now' = now + 1
  /\ UNCHANGED <<part, object, call, current, calm, history>>

CalmDown ==
  /\ ~calm
  /\ calm' = TRUE
  /\ UNCHANGED <<part, object, call, current, now, history>>

Step(p) == Read(p) \/ Create(p) \/ Update(p) \/ Delete(p) \/ Return(p) \/ Retry(p)

Users == \/ \E type \in {"Opaque", "ClusterProfile"}, lp \in Licenses : InstallLicense(type, lp)
         \/ \E lp \in Licenses : RenewLicense(lp)
         \/ RemoveLicense

Next == \/ \E p \in Processes : Start(p) \/ Step(p) \/ Crash(p)
        \/ Users \/ Tick \/ CalmDown

(* Goroutines run and controllers retry.                                   *)
Fairness == \A p \in Processes : WF_vars(Step(p))

Spec == Init /\ [][Next]_vars
FairSpec == Spec /\ Fairness

-----------------------------------------------------------------------------
IsObject(obj) == DOMAIN obj \subseteq Entries /\ Range(obj) \subseteq Values
IsCall(c) ==
  /\ c.step \in Steps
  /\ c.op \in Ops \cup {Nil}
  /\ (c.op = Nil) = (c.step = "idle")
  /\ c.seen = Nil \/ IsObject(c.seen)
  /\ c.tries \in 0..CreateSteps
  /\ c.answer \in BOOLEAN /\ c.blind \in BOOLEAN /\ c.done \in BOOLEAN

TypeOK == /\ part \in Parts
          /\ object = Nil \/ IsObject(object)
          /\ \A p \in Processes : IsCall(call[p])
          /\ current \subseteq Processes
          /\ now \in Time
          /\ calm \in BOOLEAN /\ mishap \in BOOLEAN
          /\ installed \in Licenses \cup {Nil}

(* A call that returned nil has done its work: at some moment of the call  *)
(* the object was as it asks.  The two that drop the error of their read   *)
(* (UnregisterClusterShard, DeleteSecret) promise nothing.                 *)
OkMeansDone == \A p \in Processes :
                 call[p].step = "ok" /\ ~call[p].blind => call[p].done

(* What a write may touch: the entries it was asked about, and with the    *)
(* last owner, or in a migration, everything.                              *)
Part(op) == DOMAIN op.writes \cup op.removes
            \cup CASE op.name = "DeleteSecret" -> {"kubeconfig"}
                   [] op.name = "MigrateLicenseSecretType" -> {"license"}
                   [] OTHER -> {}
Same(old, new, e) == (e \in DOMAIN old <=> e \in DOMAIN new) /\ (e \in DOMAIN old => old[e] = new[e])
Contained(obj) == IF obj = Nil THEN None ELSE obj

(* No write takes away or restores what another process wrote since: the   *)
(* shards of other clusters, other owners, sections that were not given.   *)
(* Deleting the kubeconfig, or recreating the license, is the operation's  *)
(* own work.  The Delete of a Secret whose copy is out of date does take   *)
(* away more: an owner that came since the Secret was listed loses it.     *)
OnlyOwnPart ==
  [][\A p \in Processes :
       Working(p) /\ call'[p].step # call[p].step /\ ~(call[p].step = "delete" /\ p \notin current) =>
         \A e \in Entries \ Part(call[p].op) : Same(Contained(object), Contained(object'), e)]_vars

(* Whoever replaces a shard returns true, with its answer or with an       *)
(* error; and true without an error is returned by nobody else: of several *)
(* callers that bring the same change, one.  True with an error says only  *)
(* that the shard was another one when it was read.                        *)
ChangeIsTold ==
  [][\A p \in Processes :
       call[p].step = "update" /\ call'[p].step \in {"ok", "error"} =>
         LET replaced == \E c \in DOMAIN Contained(object) \cap TrackedClusters :
                           c \in DOMAIN object' /\ object'[c] # object[c]
         IN /\ replaced => call'[p].answer
            /\ call'[p].answer /\ call'[p].step = "ok" => replaced]_vars

(* When nobody is working, the license that users installed is there, and  *)
(* no other, unless a migration crashed or gave up between its delete and  *)
(* its create, had its delete carried out without an answer, or deleted a  *)
(* license renewed since it was read, or users removed theirs meanwhile.   *)
LicenseSurvives ==
  part = "license" /\ ~mishap /\ (\A p \in Processes : ~Working(p)) =>
    IF installed = Nil THEN object = Nil
    ELSE object # Nil /\ "license" \in DOMAIN object /\ object["license"] = installed

LicenseRead(obj) == IF obj = Nil THEN Nil ELSE Payload[obj["license"]]

(* The addon-controller reads Secrets through a cache that only has those  *)
(* of the type ClusterProfile: others are not found.                       *)
ScopedRead(obj) == IF obj = Nil \/ obj["type"] # "ClusterProfile" THEN Nil ELSE LicenseRead(obj)

(* However a migration and the users interleave, who reads the license in  *)
(* the API server, between migrations, judges what users installed last by *)
(* its dates, its signature and the cluster; who reads it through the      *)
(* scoped cache does once it has the type.  The exceptions: the instant of *)
(* expiration, licenses of other clusters in grace, and an error to read   *)
(* the namespace when the license names a cluster.                         *)
VerdictAsDated ==
  part = "license" /\ ~mishap /\ (\A p \in Processes : call[p].step # "create") =>
    \A get \in {LicenseRead(object), ScopedRead(object)}, nsRead \in BOOLEAN :
      LET verdict == VerifyLicenseSecret(get, now, nsRead) IN
      IF installed = Nil THEN verdict = "enforced"
      ELSE LET lp == Payload[installed] IN
           \/ verdict = ExpectedVerdict(lp, now)
           \/ AtExpiration(lp, now)
           \/ GraceOfAnotherCluster(lp, now)
           \/ verdict = "enforced" /\ get = Nil /\ object["type"] # "ClusterProfile"
           \/ verdict = "enforced" /\ ~nsRead /\ lp.fingerprint # ""

(* Conflicts are not retried for ever: once requests and failures end, all *)
(* calls succeed.                                                          *)
Settles == []<>(calm => \A p \in Processes : call[p].step = "idle")
=============================================================================
