-------------------------- MODULE ClusterSelection --------------------------
(***************************************************************************)
(* lib/predicates and the listing half of lib/clusterproxy: how the        *)
(* controllers of a management cluster learn which clusters are theirs.    *)
(* A profile's reconciler lists the clusters its selector matches and acts *)
(* on those that are not paused; it runs again only when a predicate lets  *)
(* the event of a cluster through.  Other components list all clusters now *)
(* and then.  All of them first ask isCAPIPresent, which looks for Cluster *)
(* API once per process and keeps the answer in two variables.             *)
(* clusters is the informer's cache: lists, gets and events agree with it. *)
(***************************************************************************)
EXTENDS Naturals, FiniteSets

CONSTANTS Clusters,     \* names of clusters
          CapiClusters, \* those that are Clusters of Cluster API; the others are SveltosClusters
          Profiles,     \* one selector each, reconciled on events
          Pollers,      \* callers of GetListOfClusters
          SelectiveOnboarding, \* capiOnboardAnnotation is set
          MaxClusters,  \* bound on the clusters that exist, or are still held, at a time
          Nil

Processes == Profiles \cup Pollers

ASSUME ClusterSelectionAssumption ==
  /\ CapiClusters \subseteq Clusters
  /\ SelectiveOnboarding \in BOOLEAN
  /\ MaxClusters \in Nat
  /\ Profiles \cap Pollers = {}

(* What selectors, predicates and readiness look at.  labels is whether    *)
(* the selector matches, annotations whether the onboarding one is there.  *)
(* A deletion is requested (deletionTimestamp) before phase says so.       *)
CapiFields == [labels |-> BOOLEAN, annotations |-> BOOLEAN,
               paused |-> {"unset", "true", "false"},
               condition |-> BOOLEAN, infrastructure |-> BOOLEAN, initialized |-> BOOLEAN,
               deletion |-> {"no", "requested", "phase"}]
CapiCluster == [labels : BOOLEAN, annotations : BOOLEAN, paused : CapiFields.paused,
                condition : BOOLEAN, infrastructure : BOOLEAN, initialized : BOOLEAN,
                deletion : CapiFields.deletion]
SveltosFields == [labels |-> BOOLEAN, annotations |-> BOOLEAN,
                  paused |-> {"true", "false"}, ready |-> BOOLEAN, agentTimeout |-> BOOLEAN,
                  deletion |-> {"no", "requested"}]
SveltosCluster == [labels : BOOLEAN, annotations : BOOLEAN,
                   paused : SveltosFields.paused, ready : BOOLEAN, agentTimeout : BOOLEAN,
                   deletion : SveltosFields.deletion]

FieldsOf(c) == IF c \in CapiClusters THEN CapiFields ELSE SveltosFields
ClustersOfKind(c) == IF c \in CapiClusters THEN CapiCluster ELSE SveltosCluster

VARIABLES
  clusters,  \* each cluster as the informer shows it, Nil if it does not exist
  crd,       \* the CRD of Cluster API: absent, served or unserved (in this version)
  watching,  \* Cluster API was there when the process started, so it is watched
  checkedCAPIPresence, \* the two variables of isCAPIPresent
  capiPresent,
  queued,    \* profiles in the work queue
  step,      \* what each process is doing
  found,     \* the CRD it has got and not yet stored, or Nil
  listed,    \* per profile, the clusters it has listed so far
  selected,  \* clusters of the profile's last complete list
  deployed,  \* clusters a profile acted on, which are not paused
  \* History, read by no action:
  misled,    \* processes whose last list left Cluster API out though it is watched
  overlooked \* per profile, clusters that came out of the pause, or came, with
             \* paused unset since it last ran

worldVars == <<clusters, crd, watching>>
presenceVars == <<checkedCAPIPresence, capiPresent>>
resultVars == <<selected, deployed>>
vars == <<worldVars, presenceVars, queued, step, found, listed, resultVars, misled, overlooked>>

Steps == {"idle", "check", "get", "checked", "present", "capi", "sveltos", "act"}

Init == /\ clusters = [c \in Clusters |-> Nil]
        /\ crd \in {"absent", "served", "unserved"}
        /\ watching = (crd = "served")
        /\ checkedCAPIPresence = 0 /\ capiPresent = 0
        /\ queued = Profiles
        /\ step = [p \in Processes |-> "idle"]
        /\ found = [p \in Processes |-> Nil]
        /\ listed = [p \in Profiles |-> {}]
        /\ selected = [p \in Profiles |-> {}]
        /\ deployed = [p \in Profiles |-> {}]
        /\ misled = {}
        /\ overlooked = [p \in Profiles |-> {}]

-----------------------------------------------------------------------------
(* Which clusters *)

Exists(c) == clusters[c] # Nil /\ clusters[c].deletion = "no"

IsClusterPaused(c) == clusters[c].paused = "true"

IsCAPIClusterReady(c) == clusters[c].condition \/ clusters[c].initialized
IsReady(c) == IF c \in CapiClusters THEN IsCAPIClusterReady(c) ELSE clusters[c].ready

Onboarded(c) == c \in CapiClusters /\ SelectiveOnboarding => clusters[c].annotations

(* The filter of the lists of a profile.                                   *)
Matches(c) == Exists(c) /\ Onboarded(c) /\ IsReady(c) /\ clusters[c].labels

-----------------------------------------------------------------------------
(* Which events.  Updates that leave all of this alone are not passed on.  *)

Differs(old, new, field) == old[field] # new[field]
WasSet(old, new, field) == ~old[field] /\ new[field]
NowPaused(old, new) == old.paused = "false" /\ new.paused = "true"
Unpaused(old, new) == old.paused = "true" /\ new.paused = "false"

CapiCreated(new) == new.paused = "false"
CapiUpdated(old, new) ==
  \/ Differs(old, new, "labels") \/ Differs(old, new, "annotations")
  \/ Unpaused(old, new)
  \/ \E field \in {"condition", "infrastructure", "initialized"} : WasSet(old, new, field)
  \/ old.deletion # "phase" /\ new.deletion = "phase"

SveltosCreated(new) == new.paused = "false"
OnceReady(old, new) ==
  \/ Unpaused(old, new)
  \/ WasSet(old, new, "ready")
  \/ Differs(old, new, "labels") \/ Differs(old, new, "annotations")
  \/ WasSet(new, old, "agentTimeout")
SveltosUpdated(old, new) ==
  \/ Unpaused(old, new)
  \/ Differs(old, new, "ready")
  \/ Differs(old, new, "labels") \/ Differs(old, new, "annotations")
  \/ WasSet(new, old, "agentTimeout")

Passes(c, old, new) ==
  \/ new = Nil
  \/ old = Nil /\ IF c \in CapiClusters THEN CapiCreated(new) ELSE SveltosCreated(new)
  \/ old # Nil /\ new # Nil /\ IF c \in CapiClusters THEN CapiUpdated(old, new)
                                                     ELSE SveltosUpdated(old, new)

Overlooks(c, old, new) ==
  /\ c \in CapiClusters /\ new # Nil
  /\ new.paused = "unset" /\ (old = Nil \/ old.paused = "true")

Change(c, new) ==
  LET heard == Passes(c, clusters[c], new) IN
  /\ clusters' = [clusters EXCEPT ![c] = new]
  /\ queued' = IF heard THEN Profiles ELSE queued
  /\ overlooked' = IF ~heard /\ Overlooks(c, clusters[c], new)
                   THEN [p \in Profiles |-> overlooked[p] \cup {c}] ELSE overlooked
  /\ UNCHANGED <<crd, watching, presenceVars, step, found, listed, resultVars, misled>>

(* A Cluster that comes between InstallCAPI and the restart it causes is   *)
(* seen at the restart, like those that were there before any restart.     *)
CreateCluster(c) ==
  /\ clusters[c] = Nil
  /\ c \in CapiClusters => watching
  /\ Cardinality({d \in Clusters \ {c} :
                    \/ clusters[d] # Nil
                    \/ \E p \in Profiles : d \in selected[p] \cup deployed[p]}) < MaxClusters
  /\ \E new \in ClustersOfKind(c) : new.deletion = "no" /\ Change(c, new)

(* One field changes; the predicates look at one field at a time.  A       *)
(* deletion is not taken back.                                             *)
UpdateCluster(c) ==
  /\ clusters[c] # Nil
  /\ \E field \in DOMAIN FieldsOf(c) : \E v \in FieldsOf(c)[field] :
       /\ v # clusters[c][field]
       /\ field = "deletion" => clusters[c].deletion = "no" \/ v = "phase"
       /\ Change(c, [clusters[c] EXCEPT ![field] = v])

DeleteCluster(c) ==
  /\ clusters[c] # Nil /\ clusters[c].deletion # "no"
  /\ Change(c, Nil)

InstallCAPI ==
  /\ crd # "served"
  /\ crd' = "served"
  /\ UNCHANGED <<clusters, watching, presenceVars, queued, step, found, listed, resultVars,
                 misled, overlooked>>

(* The process stops, or is restarted because Cluster API came; every      *)
(* profile is reconciled when it is back.                                  *)
Restart ==
  /\ watching' = (crd = "served")
  /\ checkedCAPIPresence' = 0 /\ capiPresent' = 0
  /\ queued' = Profiles
  /\ step' = [p \in Processes |-> "idle"]
  /\ found' = [p \in Processes |-> Nil]
  /\ listed' = [p \in Profiles |-> {}]
  /\ misled' = {}
  /\ overlooked' = [p \in Profiles |-> {}]
  /\ UNCHANGED <<clusters, crd, resultVars>>

-----------------------------------------------------------------------------
(* isCAPIPresent, one atomic operation or call to the API server a step *)

Goto(p, s) == step' = [step EXCEPT ![p] = s]

Start(p) ==
  /\ step[p] = "idle"
  /\ p \in Profiles => p \in queued
  /\ Goto(p, "check")
  /\ queued' = queued \ {p}
  /\ overlooked' = [q \in Profiles |-> IF q = p THEN {} ELSE overlooked[q]]
  /\ UNCHANGED <<worldVars, presenceVars, found, listed, resultVars, misled>>

(* An error ends the list; a reconciler that returns it is queued again.   *)
ListFails(p) ==
  /\ Goto(p, "idle")
  /\ queued' = queued \cup ({p} \cap Profiles)
  /\ listed' = [q \in Profiles |-> IF q = p THEN {} ELSE listed[q]]
  /\ misled' = misled \ ({p} \cap Pollers)
  /\ UNCHANGED <<worldVars, presenceVars, found, resultVars, overlooked>>

LoadChecked(p) ==
  /\ step[p] = "check"
  /\ Goto(p, IF checkedCAPIPresence = 0 THEN "get" ELSE "present")
  /\ UNCHANGED <<worldVars, presenceVars, queued, found, listed, resultVars, misled, overlooked>>

AddChecked == checkedCAPIPresence' = checkedCAPIPresence + 1
StoreChecked == checkedCAPIPresence' = 1

ErrorIsAbsent(p) ==
  /\ step[p] = "get"
  /\ StoreChecked
  /\ \E answer \in {crd, "absent"} : found' = [found EXCEPT ![p] = answer]
  /\ Goto(p, "checked")
  /\ UNCHANGED <<worldVars, capiPresent, queued, listed, resultVars, misled, overlooked>>

(* The Get of the CRD, and the first store.                                *)
GetCRD(p) ==
  /\ step[p] = "get"
  /\ \/ ListFails(p)
     \/ /\ StoreChecked
        /\ found' = [found EXCEPT ![p] = crd]
        /\ Goto(p, "checked")
        /\ UNCHANGED <<worldVars, capiPresent, queued, listed, resultVars, misled, overlooked>>

Answer(p, present) ==
  /\ Goto(p, IF present THEN "capi" ELSE "sveltos")
  /\ misled' = IF ~present /\ watching THEN misled \cup {p} ELSE misled \ {p}

(* The second store.  Who found no CRD at all answers without loading it.  *)
StorePresent(p) ==
  /\ step[p] = "checked"
  /\ capiPresent' = IF found[p] = "served" THEN 1 ELSE 0
  /\ found' = [found EXCEPT ![p] = Nil]
  /\ IF found[p] = "absent" THEN Answer(p, FALSE) ELSE Goto(p, "present") /\ UNCHANGED misled
  /\ UNCHANGED <<worldVars, checkedCAPIPresence, queued, listed, resultVars, overlooked>>

LoadPresent(p) ==
  /\ step[p] = "present"
  /\ Answer(p, capiPresent = 1)
  /\ UNCHANGED <<worldVars, presenceVars, queued, found, listed, resultVars, overlooked>>

-----------------------------------------------------------------------------
(* GetMatchingClusters, or GetListOfClusters, whose answer is not kept here *)

ListCAPIClusters(p) ==
  /\ step[p] = "capi"
  /\ \/ ListFails(p)
     \/ /\ listed' = [q \in Profiles |-> IF q = p THEN {c \in CapiClusters : Matches(c)} ELSE listed[q]]
        /\ Goto(p, "sveltos")
        /\ UNCHANGED <<worldVars, presenceVars, queued, found, resultVars, misled, overlooked>>

ListSveltosClusters(p) ==
  /\ step[p] = "sveltos"
  /\ \/ ListFails(p)
     \/ /\ p \in Profiles
        /\ selected' = [selected EXCEPT
                          ![p] = listed[p] \cup {c \in Clusters \ CapiClusters : Matches(c)}]
        /\ listed' = [listed EXCEPT ![p] = {}]
        /\ Goto(p, "act")
        /\ UNCHANGED <<worldVars, presenceVars, queued, found, deployed, misled, overlooked>>
     \/ /\ p \in Pollers
        /\ Goto(p, "idle")
        /\ misled' = misled \ {p}
        /\ UNCHANGED <<worldVars, presenceVars, queued, found, listed, resultVars, overlooked>>

(* The reconciler deploys to the clusters that are not paused.             *)
Act(p) ==
  /\ step[p] = "act"
  /\ \/ ListFails(p)
     \/ /\ deployed' = [deployed EXCEPT
                          ![p] = {c \in selected[p] : clusters[c] # Nil /\ ~IsClusterPaused(c)}]
        /\ Goto(p, "idle")
        /\ UNCHANGED <<worldVars, presenceVars, queued, found, listed, selected, misled,
                       overlooked>>

Process(p) == \/ LoadChecked(p) \/ GetCRD(p) \/ StorePresent(p) \/ LoadPresent(p)
              \/ ListCAPIClusters(p) \/ ListSveltosClusters(p) \/ Act(p)

Next == \/ \E c \in Clusters : CreateCluster(c) \/ UpdateCluster(c) \/ DeleteCluster(c)
        \/ InstallCAPI \/ Restart
        \/ \E p \in Processes : Start(p) \/ Process(p)

Spec == Init /\ [][Next]_vars

-----------------------------------------------------------------------------
TypeOK ==
  /\ DOMAIN clusters = Clusters
  /\ \A c \in Clusters : clusters[c] \in ClustersOfKind(c) \cup {Nil}
  /\ crd \in {"absent", "served", "unserved"}
  /\ watching \in BOOLEAN
  /\ checkedCAPIPresence \in 0..1 /\ capiPresent \in 0..1
  /\ queued \subseteq Profiles
  /\ step \in [Processes -> Steps]
  /\ found \in [Processes -> {"absent", "served", "unserved", Nil}]
  /\ listed \in [Profiles -> SUBSET Clusters]
  /\ selected \in [Profiles -> SUBSET Clusters]
  /\ deployed \in [Profiles -> SUBSET Clusters]
  /\ misled \subseteq Processes
  /\ overlooked \in [Profiles -> SUBSET Clusters]

Settled(p) == step[p] = "idle" /\ p \notin queued

(* The predicates let every event through that matters: a profile that is  *)
(* neither queued nor running has acted on every cluster that matches it,  *)
(* is ready and is not paused.  Two things are missed: a CAPI cluster that *)
(* leaves the pause, or is created, with paused unset (the predicates want *)
(* an explicit false, isCAPIClusterPaused does not), and, by who was       *)
(* misled about Cluster API, all CAPI clusters.                            *)
NoClusterMissed ==
  \A p \in Profiles, c \in Clusters :
    /\ Settled(p) /\ Matches(c) /\ ~IsClusterPaused(c)
    /\ c \in CapiClusters => p \notin misled /\ c \notin overlooked[p]
    => c \in deployed[p]

(* Conversely a settled profile holds on only to clusters that match it,   *)
(* but for a CAPI cluster that is no longer ready and a cluster that is    *)
(* being deleted, of which the predicates say nothing until it has gone or *)
(* its phase says so.                                                      *)
OnlyUnreadyOrDeletedLinger ==
  \A p \in Profiles : \A c \in selected[p] :
    /\ Settled(p) /\ ~Matches(c)
    => /\ clusters[c] # Nil
       /\ \/ clusters[c].deletion = "requested"
          \/ c \in CapiClusters /\ ~IsReady(c)

(* isCAPIPresent errs on a Cluster API that was there all along only while *)
(* the first check is between its two stores.                              *)
MisledOnlyByFirstCheck ==
  [][\A p \in Processes : p \in misled' \ misled =>
       /\ capiPresent = 0
       /\ \E q \in Processes \ {p} : step[q] = "checked"]_vars
=============================================================================
