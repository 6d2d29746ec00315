----------------------- MODULE ClusterSelectionProofs -----------------------
(***************************************************************************)
(* Theorems about ClusterSelection, for any clusters, profiles and callers *)
(* of isCAPIPresent, and without the bound on clusters.  The invariant     *)
(* says, for a profile that no event has put back into the queue, how far  *)
(* what it has listed is right at each step of a reconcile; what keeps it  *)
(* is that an event no predicate passes on changes nothing that matters    *)
(* (Unheard), except for what the properties name.                         *)
(***************************************************************************)
EXTENDS ClusterSelection, TLAPS

Wanted(p, c) == /\ Matches(c) /\ ~IsClusterPaused(c)
                /\ c \in CapiClusters => p \notin misled /\ c \notin overlooked[p]

(* Why a profile may still hold on to a cluster.                           *)
Lingers(c) == \/ Matches(c)
              \/ /\ clusters[c] # Nil
                 /\ \/ clusters[c].deletion = "requested"
                    \/ c \in CapiClusters /\ ~IsReady(c)

ListFits(p) ==
  /\ \A c \in CapiClusters : Wanted(p, c) => c \in listed[p]
  /\ \A c \in listed[p] : Lingers(c)
SelectionFits(p) ==
  /\ \A c \in Clusters : Wanted(p, c) => c \in selected[p]
  /\ \A c \in selected[p] : Lingers(c)
DeploymentFits(p) ==
  /\ \A c \in Clusters : Wanted(p, c) => c \in deployed[p]
  /\ \A c \in selected[p] : Lingers(c)

ProfileFits(p) ==
  /\ step[p] # "sveltos" => listed[p] = {}
  /\ p \notin queued /\ step[p] = "sveltos" => ListFits(p)
  /\ p \notin queued /\ step[p] = "act" => SelectionFits(p)
  /\ p \notin queued /\ step[p] = "idle" => DeploymentFits(p)

(* Cluster API is watched only if it is there; it does not go, and without *)
(* it there are no clusters of its kind.                                   *)
WorldFits == /\ watching => crd = "served"
             /\ \A c \in CapiClusters : clusters[c] # Nil => watching

(* Between the two stores of a first check there is the caller that makes  *)
(* the second.                                                             *)
PresenceFits ==
  /\ \A p \in Processes : /\ step[p] \in {"checked", "present"} => checkedCAPIPresence = 1
                          /\ step[p] = "checked" /\ watching => found[p] = "served"
  /\ watching /\ checkedCAPIPresence = 1 /\ capiPresent = 0
       => \E q \in Processes : step[q] = "checked"

IInv == TypeOK /\ WorldFits /\ PresenceFits /\ \A p \in Profiles : ProfileFits(p)

-----------------------------------------------------------------------------
LEMMA InitHolds == Init => IInv
<1> SUFFICES ASSUME Init PROVE IInv OBVIOUS
<1>1. TypeOK
  <2>1. watching \in BOOLEAN BY DEF Init
  <2>2. /\ step \in [Processes -> Steps]
        /\ found \in [Processes -> {"absent", "served", "unserved", Nil}]
    BY DEF Init, Steps
  <2>3. /\ listed \in [Profiles -> SUBSET Clusters]
        /\ selected \in [Profiles -> SUBSET Clusters]
        /\ deployed \in [Profiles -> SUBSET Clusters]
        /\ overlooked \in [Profiles -> SUBSET Clusters]
    BY DEF Init
  <2> QED BY <2>1, <2>2, <2>3 DEF Init, TypeOK
<1>2. WorldFits BY ClusterSelectionAssumption DEF Init, WorldFits
<1>4. PresenceFits
  <2>1. \A p \in Processes : step[p] = "idle" BY DEF Init
  <2>2. checkedCAPIPresence = 0 BY DEF Init
  <2> QED BY <2>1, <2>2 DEF PresenceFits
<1>3. \A p \in Profiles : ProfileFits(p) BY DEF Init, ProfileFits, Processes
<1> QED BY <1>1, <1>2, <1>4, <1>3 DEF IInv

-----------------------------------------------------------------------------
(* Changes of clusters                                                     *)

(* What is known of an update of one field.                                *)
LEMMA UpdatedCapi ==
  ASSUME NEW old \in CapiCluster, NEW field \in DOMAIN CapiFields,
         NEW v \in CapiFields[field], v # old[field],
         field = "deletion" => old.deletion = "no" \/ v = "phase",
         NEW new, new = [old EXCEPT ![field] = v]
  PROVE  /\ new \in CapiCluster
         /\ new.deletion = "no" => old.deletion = "no"
         /\ old.deletion = "requested" => new.deletion \in {"requested", "phase"}
<1>1. CASE field = "labels" BY <1>1 DEF CapiFields, CapiCluster
<1>2. CASE field = "annotations" BY <1>2 DEF CapiFields, CapiCluster
<1>3. CASE field = "paused" BY <1>3 DEF CapiFields, CapiCluster
<1>4. CASE field = "condition" BY <1>4 DEF CapiFields, CapiCluster
<1>5. CASE field = "infrastructure" BY <1>5 DEF CapiFields, CapiCluster
<1>6. CASE field = "initialized" BY <1>6 DEF CapiFields, CapiCluster
<1>7. CASE field = "deletion" BY <1>7 DEF CapiFields, CapiCluster
<1> QED BY <1>1, <1>2, <1>3, <1>4, <1>5, <1>6, <1>7 DEF CapiFields

LEMMA UpdatedSveltos ==
  ASSUME NEW old \in SveltosCluster, NEW field \in DOMAIN SveltosFields,
         NEW v \in SveltosFields[field], v # old[field],
         field = "deletion" => old.deletion = "no" \/ v = "phase",
         NEW new, new = [old EXCEPT ![field] = v]
  PROVE  /\ new \in SveltosCluster
         /\ new.deletion = "no" => old.deletion = "no"
         /\ old.deletion = "requested" => new.deletion = "requested"
<1>1. CASE field = "labels" BY <1>1 DEF SveltosFields, SveltosCluster
<1>2. CASE field = "annotations" BY <1>2 DEF SveltosFields, SveltosCluster
<1>3. CASE field = "paused" BY <1>3 DEF SveltosFields, SveltosCluster
<1>4. CASE field = "ready" BY <1>4 DEF SveltosFields, SveltosCluster
<1>5. CASE field = "agentTimeout" BY <1>5 DEF SveltosFields, SveltosCluster
<1>6. CASE field = "deletion" BY <1>6 DEF SveltosFields, SveltosCluster
<1> QED BY <1>1, <1>2, <1>3, <1>4, <1>5, <1>6 DEF SveltosFields

(* An update that no predicate passes on makes no cluster wanted, but for  *)
(* what overlooked collects, and lets what lingers linger.                 *)
LEMMA UnheardCapi ==
  ASSUME TypeOK, NEW c \in CapiClusters, clusters[c] # Nil,
         NEW new \in CapiCluster, clusters' = [clusters EXCEPT ![c] = new],
         new.deletion = "no" => clusters[c].deletion = "no",
         clusters[c].deletion = "requested" => new.deletion \in {"requested", "phase"},
         ~Passes(c, clusters[c], new)
  PROVE  /\ (Matches(c) /\ ~IsClusterPaused(c))' /\ ~Overlooks(c, clusters[c], new)
              => Matches(c) /\ ~IsClusterPaused(c)
         /\ Lingers(c) => Lingers(c)'
<1>1. c \in Clusters BY ClusterSelectionAssumption
<1>2. clusters[c] \in CapiCluster /\ clusters'[c] = new /\ new # Nil
  BY <1>1 DEF TypeOK, ClustersOfKind, Passes
<1>3. ~CapiUpdated(clusters[c], new) BY <1>2 DEF Passes
<1>4. /\ new.labels = clusters[c].labels /\ new.annotations = clusters[c].annotations
      /\ ~(clusters[c].paused = "true" /\ new.paused = "false")
      /\ new.condition => clusters[c].condition
      /\ new.initialized => clusters[c].initialized
      /\ new.deletion = "phase" => clusters[c].deletion = "phase"
  BY <1>3 DEF CapiUpdated, Differs, WasSet, Unpaused
<1>5. clusters[c].paused = "true" /\ ~Overlooks(c, clusters[c], new) => new.paused = "true"
  BY <1>2, <1>4 DEF CapiCluster, CapiFields, Overlooks
<1>6. (Matches(c) /\ ~IsClusterPaused(c))' /\ ~Overlooks(c, clusters[c], new)
        => Matches(c) /\ ~IsClusterPaused(c)
  BY <1>2, <1>4, <1>5 DEF Matches, Exists, Onboarded, IsReady, IsCAPIClusterReady, IsClusterPaused
<1>7. Lingers(c) => Lingers(c)'
  <2>1. CASE ~IsReady(c)
    BY <1>2, <1>4, <2>1 DEF Lingers, IsReady, IsCAPIClusterReady
  <2>2. CASE clusters[c].deletion = "requested" BY <1>2, <1>4, <2>2 DEF Lingers
  <2>3. CASE Matches(c)
    <3>1. CASE ~IsReady(c)' BY <1>2, <3>1 DEF Lingers
    <3>2. CASE IsReady(c)'
      <4>1. clusters[c].deletion = "no" BY <2>3 DEF Matches, Exists
      <4>2. new.deletion \in {"no", "requested"}
        BY <1>2, <1>4, <4>1 DEF CapiCluster, CapiFields
      <4>3. CASE new.deletion = "requested" BY <1>2, <4>3 DEF Lingers
      <4>4. CASE new.deletion = "no"
        BY <1>2, <1>4, <2>3, <3>2, <4>4 DEF Lingers, Matches, Exists, Onboarded
      <4> QED BY <4>2, <4>3, <4>4
    <3> QED BY <3>1, <3>2
  <2> QED BY <2>1, <2>2, <2>3 DEF Lingers
<1> QED BY <1>6, <1>7

LEMMA UnheardSveltos ==
  ASSUME TypeOK, NEW c \in Clusters \ CapiClusters, clusters[c] # Nil,
         NEW new \in SveltosCluster, clusters' = [clusters EXCEPT ![c] = new],
         new.deletion = "no" => clusters[c].deletion = "no",
         clusters[c].deletion = "requested" => new.deletion = "requested",
         ~Passes(c, clusters[c], new)
  PROVE  /\ (Matches(c) /\ ~IsClusterPaused(c))' => Matches(c) /\ ~IsClusterPaused(c)
         /\ Lingers(c) => Lingers(c)'
<1>1. clusters[c] \in SveltosCluster /\ clusters'[c] = new /\ new # Nil
  BY DEF TypeOK, ClustersOfKind, Passes
<1>2. ~SveltosUpdated(clusters[c], new) BY <1>1 DEF Passes
<1>3. /\ new.labels = clusters[c].labels /\ new.annotations = clusters[c].annotations
      /\ ~(clusters[c].paused = "true" /\ new.paused = "false")
      /\ new.ready = clusters[c].ready
  BY <1>2 DEF SveltosUpdated, Differs, Unpaused
<1>4. clusters[c].paused = "true" => new.paused = "true"
  BY <1>1, <1>3 DEF SveltosCluster, SveltosFields
<1>5. (Matches(c) /\ ~IsClusterPaused(c))' => Matches(c) /\ ~IsClusterPaused(c)
  BY <1>1, <1>3, <1>4 DEF Matches, Exists, Onboarded, IsReady, IsClusterPaused
<1>6. Lingers(c) => Lingers(c)'
  <2>1. new.deletion \in {"no", "requested"} BY DEF SveltosCluster, SveltosFields
  <2>2. CASE new.deletion = "requested" BY <1>1, <2>2 DEF Lingers
  <2>3. CASE new.deletion = "no"
    BY <1>1, <1>3, <2>3 DEF Lingers, Matches, Exists, Onboarded, IsReady
  <2> QED BY <2>1, <2>2, <2>3
<1> QED BY <1>5, <1>6

(* The three kinds of change, for what was not passed on.                  *)
Harmless(c, old, new) ==
  /\ (Matches(c) /\ ~IsClusterPaused(c))' /\ ~Overlooks(c, old, new)
       => Matches(c) /\ ~IsClusterPaused(c)
  /\ Lingers(c) => Lingers(c)'

(* A change that is passed on, or is harmless, keeps the invariant.        *)
LEMMA ChangeStep ==
  ASSUME IInv, NEW c \in Clusters, NEW new \in ClustersOfKind(c) \cup {Nil}, Change(c, new),
         c \in CapiClusters /\ new # Nil => watching,
         ~Passes(c, clusters[c], new) => Harmless(c, clusters[c], new)
  PROVE  IInv'
<1> DEFINE heard == Passes(c, clusters[c], new)
           hidden == Overlooks(c, clusters[c], new)
<1>1. /\ clusters' = [clusters EXCEPT ![c] = new]
      /\ queued' = IF heard THEN Profiles ELSE queued
      /\ overlooked' = IF ~heard /\ hidden
                       THEN [p \in Profiles |-> overlooked[p] \cup {c}] ELSE overlooked
      /\ UNCHANGED <<crd, watching, checkedCAPIPresence, capiPresent, step, found, listed,
                     selected, deployed, misled>>
  BY DEF Change, presenceVars, resultVars
<1>2. ~heard => /\ (Matches(c) /\ ~IsClusterPaused(c))' /\ ~hidden
                     => Matches(c) /\ ~IsClusterPaused(c)
                /\ Lingers(c) => Lingers(c)'
  BY DEF Harmless
<1> HIDE DEF heard, hidden
<1>3. TypeOK'
  <2>1. /\ \A d \in Clusters : clusters'[d] \in ClustersOfKind(d) \cup {Nil}
        /\ queued' \subseteq Profiles
    BY <1>1 DEF IInv, TypeOK
  <2>2. overlooked' \in [Profiles -> SUBSET Clusters] BY <1>1 DEF IInv, TypeOK
  <2> QED BY <1>1, <2>1, <2>2 DEF IInv, TypeOK, ClustersOfKind
<1>4. WorldFits' BY <1>1, ClusterSelectionAssumption DEF IInv, TypeOK, WorldFits
<1>5. PresenceFits' BY <1>1 DEF IInv, PresenceFits
<1>6. ASSUME NEW p \in Profiles PROVE ProfileFits(p)'
  <2>1. CASE heard BY <1>1, <2>1 DEF IInv, ProfileFits
  <2>2. CASE ~heard
    <3>1. \A d \in Clusters : d # c => clusters'[d] = clusters[d]
      BY <1>1 DEF IInv, TypeOK
    <3>2. ASSUME NEW d \in Clusters, Lingers(d) PROVE Lingers(d)'
      <4>1. CASE d = c BY <1>2, <2>2, <3>2, <4>1
      <4>2. CASE d # c
        BY <3>1, <3>2, <4>2
        DEF Lingers, Matches, Exists, Onboarded, IsReady, IsCAPIClusterReady
      <4> QED BY <4>1, <4>2
    <3>3. ASSUME NEW d \in Clusters, Wanted(p, d)' PROVE Wanted(p, d)
      <4>1. overlooked[p] \subseteq overlooked'[p] BY <1>1 DEF IInv, TypeOK
      <4>2. d \in CapiClusters => p \notin misled /\ d \notin overlooked[p]
        BY <1>1, <3>3, <4>1 DEF Wanted
      <4>3. CASE d # c
        <5>1. Matches(d)' /\ ~IsClusterPaused(d)' BY <3>3 DEF Wanted
        <5>2. Matches(d) /\ ~IsClusterPaused(d)
          BY <3>1, <4>3, <5>1
          DEF Matches, Exists, Onboarded, IsReady, IsCAPIClusterReady, IsClusterPaused
        <5> QED BY <4>2, <5>2 DEF Wanted
      <4>4. CASE d = c
        <5>1. ~hidden
          <6>1. CASE c \in CapiClusters
            BY <1>1, <2>2, <3>3, <4>4, <6>1 DEF Wanted, IInv, TypeOK
          <6>2. CASE c \notin CapiClusters BY <6>2 DEF Overlooks, hidden
          <6> QED BY <6>1, <6>2
        <5>2. (Matches(c) /\ ~IsClusterPaused(c))' BY <3>3, <4>4 DEF Wanted
        <5> QED BY <1>2, <2>2, <4>2, <4>4, <5>1, <5>2 DEF Wanted
      <4> QED BY <4>3, <4>4
    <3>4. /\ listed[p] \subseteq Clusters /\ selected[p] \subseteq Clusters
          /\ CapiClusters \subseteq Clusters
      BY ClusterSelectionAssumption DEF IInv, TypeOK
    <3>5. ProfileFits(p) BY DEF IInv
    <3>6. ListFits(p) => ListFits(p)' BY <1>1, <3>2, <3>3, <3>4 DEF ListFits
    <3>7. SelectionFits(p) => SelectionFits(p)' BY <1>1, <3>2, <3>3, <3>4 DEF SelectionFits
    <3>8. DeploymentFits(p) => DeploymentFits(p)' BY <1>1, <3>2, <3>3, <3>4 DEF DeploymentFits
    <3> QED BY <1>1, <2>2, <3>5, <3>6, <3>7, <3>8 DEF ProfileFits
  <2> QED BY <2>1, <2>2
<1> QED BY <1>3, <1>4, <1>5, <1>6 DEF IInv

LEMMA CreateStep ==
  ASSUME IInv, NEW c \in Clusters, CreateCluster(c)
  PROVE  IInv'
<1>1. PICK new \in ClustersOfKind(c) : new.deletion = "no" /\ Change(c, new)
  BY DEF CreateCluster
<1>2. clusters[c] = Nil /\ (c \in CapiClusters => watching) BY DEF CreateCluster
<1>3. ~Lingers(c) BY <1>2 DEF Lingers, Matches, Exists
<1>4. clusters'[c] = new BY <1>1 DEF Change, IInv, TypeOK
<1>5. ASSUME ~Passes(c, clusters[c], new) PROVE Harmless(c, clusters[c], new)
  <2>1. new # Nil /\ new.paused # "false"
    BY <1>2, <1>5 DEF Passes, CapiCreated, SveltosCreated
  <2>2. CASE c \in CapiClusters
    <3>1. new.paused \in {"unset", "true"}
      BY <2>1, <2>2 DEF ClustersOfKind, CapiCluster, CapiFields
    <3>2. ~Overlooks(c, clusters[c], new) => new.paused = "true"
      BY <1>2, <2>1, <2>2, <3>1 DEF Overlooks
    <3> QED BY <1>3, <1>4, <3>2 DEF Harmless, IsClusterPaused
  <2>3. CASE c \notin CapiClusters
    <3>1. new.paused = "true"
      BY <2>1, <2>3 DEF ClustersOfKind, SveltosCluster, SveltosFields
    <3> QED BY <1>3, <1>4, <3>1 DEF Harmless, IsClusterPaused
  <2> QED BY <2>2, <2>3
<1> QED BY <1>1, <1>2, <1>5, ChangeStep

LEMMA UpdateStep ==
  ASSUME IInv, NEW c \in Clusters, UpdateCluster(c)
  PROVE  IInv'
<1>0. PICK field \in DOMAIN FieldsOf(c) : \E v \in FieldsOf(c)[field] :
        /\ v # clusters[c][field]
        /\ field = "deletion" => clusters[c].deletion = "no" \/ v = "phase"
        /\ Change(c, [clusters[c] EXCEPT ![field] = v])
  BY DEF UpdateCluster
<1>1. PICK v \in FieldsOf(c)[field] :
        /\ v # clusters[c][field]
        /\ field = "deletion" => clusters[c].deletion = "no" \/ v = "phase"
        /\ Change(c, [clusters[c] EXCEPT ![field] = v])
  BY <1>0
<1> DEFINE new == [clusters[c] EXCEPT ![field] = v]
<1>2. new = [clusters[c] EXCEPT ![field] = v] /\ Change(c, new) BY <1>1
<1> HIDE DEF new
<1>3. /\ clusters[c] # Nil /\ clusters[c] \in ClustersOfKind(c)
      /\ clusters' = [clusters EXCEPT ![c] = new]
  BY <1>2 DEF UpdateCluster, IInv, TypeOK, Change
<1>4. CASE c \in CapiClusters
  <2>1. /\ new \in CapiCluster
        /\ new.deletion = "no" => clusters[c].deletion = "no"
        /\ clusters[c].deletion = "requested" => new.deletion \in {"requested", "phase"}
    BY <1>1, <1>2, <1>3, <1>4, UpdatedCapi DEF ClustersOfKind, FieldsOf
  <2>2. ~Passes(c, clusters[c], new) => Harmless(c, clusters[c], new)
    BY <1>3, <1>4, <2>1, UnheardCapi DEF Harmless, IInv
  <2>3. watching BY <1>3, <1>4 DEF IInv, WorldFits
  <2> QED BY <1>2, <1>4, <2>1, <2>2, <2>3, ChangeStep DEF ClustersOfKind
<1>5. CASE c \notin CapiClusters
  <2>1. /\ new \in SveltosCluster
        /\ new.deletion = "no" => clusters[c].deletion = "no"
        /\ clusters[c].deletion = "requested" => new.deletion = "requested"
    BY <1>1, <1>2, <1>3, <1>5, UpdatedSveltos DEF ClustersOfKind, FieldsOf
  <2>2. ~Passes(c, clusters[c], new) => Harmless(c, clusters[c], new)
    BY <1>3, <1>5, <2>1, UnheardSveltos DEF Harmless, IInv
  <2> QED BY <1>2, <1>5, <2>1, <2>2, ChangeStep DEF ClustersOfKind
<1> QED BY <1>4, <1>5

LEMMA DeleteStep ==
  ASSUME IInv, NEW c \in Clusters, DeleteCluster(c)
  PROVE  IInv'
<1>1. Change(c, Nil) BY DEF DeleteCluster
<1>2. Passes(c, clusters[c], Nil) BY DEF Passes
<1> QED BY <1>1, <1>2, ChangeStep

LEMMA InstallStep ==
  ASSUME IInv, InstallCAPI
  PROVE  IInv'
<1>1. /\ crd' = "served"
      /\ UNCHANGED <<clusters, watching, checkedCAPIPresence, capiPresent, queued, step, found,
                     listed, selected, deployed, misled, overlooked>>
  BY DEF InstallCAPI, presenceVars, resultVars
<1>2. TypeOK' BY <1>1 DEF IInv, TypeOK
<1>3. WorldFits' /\ PresenceFits' BY <1>1 DEF IInv, WorldFits, PresenceFits
<1>4. \A p \in Profiles : ProfileFits(p)'
  BY <1>1 DEF IInv, ProfileFits, ListFits, SelectionFits, DeploymentFits, Wanted, Lingers,
              Matches, Exists, Onboarded, IsReady, IsCAPIClusterReady, IsClusterPaused
<1> QED BY <1>2, <1>3, <1>4 DEF IInv

LEMMA RestartStep ==
  ASSUME IInv, Restart
  PROVE  IInv'
<1>1. /\ watching' = (crd = "served")
      /\ checkedCAPIPresence' = 0 /\ capiPresent' = 0
      /\ queued' = Profiles
      /\ step' = [p \in Processes |-> "idle"]
      /\ found' = [p \in Processes |-> Nil]
      /\ listed' = [p \in Profiles |-> {}]
      /\ misled' = {}
      /\ overlooked' = [p \in Profiles |-> {}]
      /\ UNCHANGED <<clusters, crd, selected, deployed>>
  BY DEF Restart, resultVars
<1>2. TypeOK'
  <2>1. watching' \in BOOLEAN BY <1>1
  <2>2. step' \in [Processes -> Steps] BY <1>1 DEF Steps
  <2>3. /\ found' \in [Processes -> {"absent", "served", "unserved", Nil}]
        /\ listed' \in [Profiles -> SUBSET Clusters]
        /\ overlooked' \in [Profiles -> SUBSET Clusters]
    BY <1>1
  <2> QED BY <1>1, <2>1, <2>2, <2>3 DEF IInv, TypeOK, ClustersOfKind
<1>3. WorldFits'
  <2>1. watching => watching' BY <1>1 DEF IInv, WorldFits
  <2> QED BY <1>1, <2>1 DEF IInv, WorldFits
<1>4. PresenceFits' BY <1>1 DEF PresenceFits
<1>5. \A p \in Profiles : ProfileFits(p)' BY <1>1 DEF ProfileFits
<1> QED BY <1>2, <1>3, <1>4, <1>5 DEF IInv

-----------------------------------------------------------------------------
(* Steps of one process                                                    *)

(* What a step of one process does not change of the profile q: for q the  *)
(* world and its own variables are as before.                              *)
LEMMA Others ==
  ASSUME IInv, NEW q \in Profiles, UNCHANGED <<clusters, crd, watching>>,
         step'[q] = step[q], listed'[q] = listed[q],
         q \in queued <=> q \in queued',
         selected'[q] = selected[q], deployed'[q] = deployed[q],
         overlooked'[q] = overlooked[q], q \in misled <=> q \in misled'
  PROVE  ProfileFits(q)'
<1>1. ProfileFits(q) BY DEF IInv
<1>2. ASSUME NEW c PROVE Wanted(q, c)' <=> Wanted(q, c)
  BY DEF Wanted, Matches, Exists, Onboarded, IsReady, IsCAPIClusterReady, IsClusterPaused
<1>3. ASSUME NEW c PROVE Lingers(c)' <=> Lingers(c)
  BY DEF Lingers, Matches, Exists, Onboarded, IsReady, IsCAPIClusterReady
<1>4. ListFits(q) => ListFits(q)' BY <1>2, <1>3 DEF ListFits
<1>5. SelectionFits(q) => SelectionFits(q)' BY <1>2, <1>3 DEF SelectionFits
<1>6. DeploymentFits(q) => DeploymentFits(q)' BY <1>2, <1>3 DEF DeploymentFits
<1> QED BY <1>1, <1>4, <1>5, <1>6 DEF ProfileFits

(* A step to one that is not the first check's, which stores nothing in    *)
(* the two variables.                                                      *)
LEMMA PresenceKept ==
  ASSUME IInv, NEW p \in Processes, NEW s, step' = [step EXCEPT ![p] = s],
         step[p] # "checked", s \notin {"checked", "present"},
         UNCHANGED <<watching, checkedCAPIPresence, capiPresent, found>>
  PROVE  PresenceFits'
<1>1. \A q \in Processes : q # p => step'[q] = step[q] BY DEF IInv, TypeOK
<1>2. step'[p] = s BY DEF IInv, TypeOK
<1> QED BY <1>1, <1>2 DEF IInv, PresenceFits

LEMMA StartStep ==
  ASSUME IInv, NEW p \in Processes, Start(p)
  PROVE  IInv'
<1>1. /\ step[p] = "idle" /\ step' = [step EXCEPT ![p] = "check"]
      /\ queued' = queued \ {p}
      /\ overlooked' = [q \in Profiles |-> IF q = p THEN {} ELSE overlooked[q]]
      /\ UNCHANGED <<clusters, crd, watching, checkedCAPIPresence, capiPresent, found, listed,
                     selected, deployed, misled>>
  BY DEF Start, Goto, worldVars, presenceVars, resultVars
<1>2. TypeOK'
  <2>1. step' \in [Processes -> Steps] BY <1>1 DEF IInv, TypeOK, Steps
  <2>2. overlooked' \in [Profiles -> SUBSET Clusters] BY <1>1 DEF IInv, TypeOK
  <2> QED BY <1>1, <2>1, <2>2 DEF IInv, TypeOK, ClustersOfKind
<1>3. WorldFits' BY <1>1 DEF IInv, WorldFits
<1>4. PresenceFits'
  <2>1. step[p] # "checked" BY <1>1
  <2>2. "check" \notin {"checked", "present"} OBVIOUS
  <2>3. UNCHANGED <<watching, checkedCAPIPresence, capiPresent, found>> BY <1>1
  <2>4. step' = [step EXCEPT ![p] = "check"] BY <1>1
  <2> QED BY <2>1, <2>2, <2>3, <2>4, PresenceKept
<1>5. ASSUME NEW q \in Profiles PROVE ProfileFits(q)'
  <2>1. CASE q = p
    <3>1. step'[q] = "check" BY <1>1, <2>1 DEF IInv, TypeOK
    <3>2. listed'[q] = {} BY <1>1, <2>1 DEF IInv, ProfileFits
    <3> QED BY <3>1, <3>2 DEF ProfileFits
  <2>2. CASE q # p
    <3>1. step'[q] = step[q] /\ overlooked'[q] = overlooked[q]
      BY <1>1, <2>2 DEF IInv, TypeOK
    <3> QED BY <1>1, <2>2, <3>1, Others
  <2> QED BY <2>1, <2>2
<1> QED BY <1>2, <1>3, <1>4, <1>5 DEF IInv

LEMMA FailStep ==
  ASSUME IInv, NEW p \in Processes, ListFails(p), step[p] # "checked"
  PROVE  IInv'
<1>1. /\ step' = [step EXCEPT ![p] = "idle"]
      /\ queued' = queued \cup ({p} \cap Profiles)
      /\ listed' = [q \in Profiles |-> IF q = p THEN {} ELSE listed[q]]
      /\ misled' = misled \ ({p} \cap Pollers)
      /\ UNCHANGED <<clusters, crd, watching, checkedCAPIPresence, capiPresent, found,
                     selected, deployed, overlooked>>
  BY DEF ListFails, Goto, worldVars, presenceVars, resultVars
<1>2. TypeOK'
  <2>1. step' \in [Processes -> Steps] BY <1>1 DEF IInv, TypeOK, Steps
  <2>2. listed' \in [Profiles -> SUBSET Clusters] BY <1>1 DEF IInv, TypeOK
  <2> QED BY <1>1, <2>1, <2>2 DEF IInv, TypeOK, ClustersOfKind
<1>3. WorldFits' BY <1>1 DEF IInv, WorldFits
<1>4. PresenceFits'
  <2>1. step[p] # "checked" OBVIOUS
  <2>2. "idle" \notin {"checked", "present"} OBVIOUS
  <2>3. UNCHANGED <<watching, checkedCAPIPresence, capiPresent, found>> BY <1>1
  <2>4. step' = [step EXCEPT ![p] = "idle"] BY <1>1
  <2> QED BY <2>1, <2>2, <2>3, <2>4, PresenceKept
<1>5. ASSUME NEW q \in Profiles PROVE ProfileFits(q)'
  <2>1. CASE q = p
    <3>1. listed'[q] = {} /\ q \in queued' BY <1>1, <2>1
    <3> QED BY <3>1 DEF ProfileFits
  <2>2. CASE q # p
    <3>1. step'[q] = step[q] /\ listed'[q] = listed[q] BY <1>1, <2>2 DEF IInv, TypeOK
    <3> QED BY <1>1, <2>2, <3>1, Others
  <2> QED BY <2>1, <2>2
<1> QED BY <1>2, <1>3, <1>4, <1>5 DEF IInv

LEMMA LoadCheckedStep ==
  ASSUME IInv, NEW p \in Processes, LoadChecked(p)
  PROVE  IInv'
<1> DEFINE s == IF checkedCAPIPresence = 0 THEN "get" ELSE "present"
<1>1. /\ step[p] = "check" /\ step' = [step EXCEPT ![p] = s]
      /\ s = "get" \/ (s = "present" /\ checkedCAPIPresence = 1)
      /\ UNCHANGED <<clusters, crd, watching, checkedCAPIPresence, capiPresent, queued, found,
                     listed, selected, deployed, misled, overlooked>>
  BY DEF LoadChecked, Goto, worldVars, presenceVars, resultVars, IInv, TypeOK
<1> HIDE DEF s
<1>2. TypeOK'
  <2>1. step' \in [Processes -> Steps] BY <1>1 DEF IInv, TypeOK, Steps
  <2> QED BY <1>1, <2>1 DEF IInv, TypeOK, ClustersOfKind
<1>3. WorldFits' BY <1>1 DEF IInv, WorldFits
<1>4. PresenceFits'
  <2>1. step'[p] = s /\ \A q \in Processes : q # p => step'[q] = step[q]
    BY <1>1 DEF IInv, TypeOK
  <2> QED BY <1>1, <2>1 DEF IInv, PresenceFits
<1>5. ASSUME NEW q \in Profiles PROVE ProfileFits(q)'
  <2>1. CASE q = p
    <3>1. step'[q] = s /\ listed'[q] = {} BY <1>1, <2>1 DEF IInv, TypeOK, ProfileFits
    <3> QED BY <1>1, <3>1 DEF ProfileFits
  <2>2. CASE q # p
    <3>1. step'[q] = step[q] BY <1>1, <2>2 DEF IInv, TypeOK
    <3> QED BY <1>1, <3>1, Others
  <2> QED BY <2>1, <2>2
<1> QED BY <1>2, <1>3, <1>4, <1>5 DEF IInv

LEMMA GetCRDStep ==
  ASSUME IInv, NEW p \in Processes, GetCRD(p)
  PROVE  IInv'
<1>1. CASE ListFails(p)
  <2>1. step[p] # "checked" BY DEF GetCRD
  <2> QED BY <1>1, <2>1, FailStep
<1>2. CASE ~ListFails(p)
  <2>1. /\ step[p] = "get" /\ step' = [step EXCEPT ![p] = "checked"]
        /\ checkedCAPIPresence' = 1 /\ found' = [found EXCEPT ![p] = crd]
        /\ UNCHANGED <<clusters, crd, watching, capiPresent, queued, listed, selected,
                       deployed, misled, overlooked>>
    BY <1>2 DEF GetCRD, StoreChecked, Goto, worldVars, resultVars
  <2>2. TypeOK'
    <3>1. step' \in [Processes -> Steps] BY <2>1 DEF IInv, TypeOK, Steps
    <3>2. found' \in [Processes -> {"absent", "served", "unserved", Nil}]
      BY <2>1 DEF IInv, TypeOK
    <3> QED BY <2>1, <3>1, <3>2 DEF IInv, TypeOK, ClustersOfKind
  <2>3. WorldFits' BY <2>1 DEF IInv, WorldFits
  <2>4. PresenceFits'
    <3>1. step'[p] = "checked" /\ found'[p] = crd BY <2>1 DEF IInv, TypeOK
    <3>2. \A q \in Processes : q # p => step'[q] = step[q] /\ found'[q] = found[q]
      BY <2>1 DEF IInv, TypeOK
    <3> QED BY <2>1, <3>1, <3>2 DEF IInv, WorldFits, PresenceFits
  <2>5. ASSUME NEW q \in Profiles PROVE ProfileFits(q)'
    <3>1. CASE q = p
      <4>1. step'[q] = "checked" /\ listed'[q] = {}
        BY <2>1, <3>1 DEF IInv, TypeOK, ProfileFits
      <4> QED BY <4>1 DEF ProfileFits
    <3>2. CASE q # p
      <4>1. step'[q] = step[q] BY <2>1, <3>2 DEF IInv, TypeOK
      <4> QED BY <2>1, <4>1, Others
    <3> QED BY <3>1, <3>2
  <2> QED BY <2>2, <2>3, <2>4, <2>5 DEF IInv
<1> QED BY <1>1, <1>2

(* Who goes on without Cluster API either is misled or misses no cluster.  *)
LEMMA Answered ==
  ASSUME IInv, NEW p \in Processes, UNCHANGED <<clusters, crd, watching>>,
         step[p] # "sveltos", listed' = listed,
         step'[p] \in {"capi", "sveltos", "present"},
         step'[p] = "sveltos" /\ watching => p \in misled',
         p \in Profiles
  PROVE  ProfileFits(p)'
<1>1. listed'[p] = {} BY DEF IInv, ProfileFits
<1>2. step'[p] = "sveltos" => ListFits(p)'
  <2>1. ASSUME NEW c \in CapiClusters, Wanted(p, c)', step'[p] = "sveltos" PROVE FALSE
    <3>1. clusters[c] # Nil /\ p \notin misled' BY <2>1 DEF Wanted, Matches, Exists
    <3>2. watching BY <3>1 DEF IInv, WorldFits
    <3> QED BY <2>1, <3>1, <3>2
  <2> QED BY <1>1, <2>1 DEF ListFits
<1> QED BY <1>1, <1>2 DEF ProfileFits

LEMMA StorePresentStep ==
  ASSUME IInv, NEW p \in Processes, StorePresent(p)
  PROVE  IInv'
<1>1. /\ step[p] = "checked"
      /\ capiPresent' = IF found[p] = "served" THEN 1 ELSE 0
      /\ found' = [found EXCEPT ![p] = Nil]
      /\ UNCHANGED <<clusters, crd, watching, checkedCAPIPresence, queued, listed, selected,
                     deployed, overlooked>>
  BY DEF StorePresent, worldVars, resultVars
<1>2. /\ \/ step' = [step EXCEPT ![p] = "sveltos"] /\ found[p] = "absent"
         \/ step' = [step EXCEPT ![p] = "present"]
      /\ misled' = misled \/ misled' = misled \cup {p} \/ misled' = misled \ {p}
  BY DEF StorePresent, Answer, Goto
<1>3. watching => found[p] = "served" BY <1>1 DEF IInv, PresenceFits
<1>4. /\ step'[p] \in {"sveltos", "present"}
      /\ step'[p] = "sveltos" => ~watching
  BY <1>2, <1>3 DEF IInv, TypeOK
<1>5. \A q \in Processes : q # p => step'[q] = step[q] /\ found'[q] = found[q]
  BY <1>1, <1>2 DEF IInv, TypeOK
<1>6. TypeOK'
  <2>1. step' \in [Processes -> Steps] BY <1>2 DEF IInv, TypeOK, Steps
  <2>2. found' \in [Processes -> {"absent", "served", "unserved", Nil}]
    BY <1>1 DEF IInv, TypeOK
  <2>3. misled' \subseteq Processes BY <1>2 DEF IInv, TypeOK
  <2>4. capiPresent' \in 0..1 BY <1>1
  <2> QED BY <1>1, <2>1, <2>2, <2>3, <2>4 DEF IInv, TypeOK, ClustersOfKind
<1>7. WorldFits' BY <1>1 DEF IInv, WorldFits
<1>8. PresenceFits'
  <2>1. checkedCAPIPresence = 1 BY <1>1 DEF IInv, PresenceFits
  <2>2. watching => capiPresent' = 1 BY <1>1, <1>3
  <2> QED BY <1>1, <1>4, <1>5, <2>1, <2>2 DEF IInv, PresenceFits
<1>9. ASSUME NEW q \in Profiles PROVE ProfileFits(q)'
  <2>1. CASE q = p BY <1>1, <1>4, <2>1, Answered
  <2>2. CASE q # p
    <3>1. step'[q] = step[q] BY <1>5, <2>2 DEF Processes
    <3>2. q \in misled <=> q \in misled' BY <1>2, <2>2
    <3> QED BY <1>1, <3>1, <3>2, Others
  <2> QED BY <2>1, <2>2
<1> QED BY <1>6, <1>7, <1>8, <1>9 DEF IInv

LEMMA LoadPresentStep ==
  ASSUME IInv, NEW p \in Processes, LoadPresent(p)
  PROVE  IInv'
<1>1. /\ step[p] = "present"
      /\ UNCHANGED <<clusters, crd, watching, checkedCAPIPresence, capiPresent, queued, found,
                     listed, selected, deployed, overlooked>>
  BY DEF LoadPresent, worldVars, presenceVars, resultVars
<1>2. /\ \/ step' = [step EXCEPT ![p] = "capi"]
         \/ step' = [step EXCEPT ![p] = "sveltos"] /\ (watching => p \in misled')
      /\ misled' = misled \cup {p} \/ misled' = misled \ {p}
  BY DEF LoadPresent, Answer, Goto
<1>3. /\ step'[p] \in {"capi", "sveltos"}
      /\ step'[p] = "sveltos" /\ watching => p \in misled'
  BY <1>2 DEF IInv, TypeOK
<1>4. \A q \in Processes : q # p => step'[q] = step[q] BY <1>2 DEF IInv, TypeOK
<1>5. TypeOK'
  <2>1. step' \in [Processes -> Steps] BY <1>2 DEF IInv, TypeOK, Steps
  <2>2. misled' \subseteq Processes BY <1>2 DEF IInv, TypeOK
  <2> QED BY <1>1, <2>1, <2>2 DEF IInv, TypeOK, ClustersOfKind
<1>6. WorldFits' BY <1>1 DEF IInv, WorldFits
<1>7. PresenceFits' BY <1>1, <1>3, <1>4 DEF IInv, PresenceFits
<1>8. ASSUME NEW q \in Profiles PROVE ProfileFits(q)'
  <2>1. CASE q = p BY <1>1, <1>3, <2>1, Answered
  <2>2. CASE q # p
    <3>1. step'[q] = step[q] BY <1>4, <2>2 DEF Processes
    <3>2. q \in misled <=> q \in misled' BY <1>2, <2>2
    <3> QED BY <1>1, <3>1, <3>2, Others
  <2> QED BY <2>1, <2>2
<1> QED BY <1>5, <1>6, <1>7, <1>8 DEF IInv

LEMMA ListCAPIStep ==
  ASSUME IInv, NEW p \in Processes, ListCAPIClusters(p)
  PROVE  IInv'
<1>1. CASE ListFails(p)
  <2>1. step[p] # "checked" BY DEF ListCAPIClusters
  <2> QED BY <1>1, <2>1, FailStep
<1>2. CASE ~ListFails(p)
  <2>1. /\ step[p] = "capi" /\ step' = [step EXCEPT ![p] = "sveltos"]
        /\ listed' = [q \in Profiles |->
                         IF q = p THEN {c \in CapiClusters : Matches(c)} ELSE listed[q]]
        /\ UNCHANGED <<clusters, crd, watching, checkedCAPIPresence, capiPresent, queued, found,
                       selected, deployed, misled, overlooked>>
    BY <1>2 DEF ListCAPIClusters, Goto, worldVars, presenceVars, resultVars
  <2>2. TypeOK'
    <3>1. step' \in [Processes -> Steps] BY <2>1 DEF IInv, TypeOK, Steps
    <3>2. listed' \in [Profiles -> SUBSET Clusters]
      BY <2>1, ClusterSelectionAssumption DEF IInv, TypeOK
    <3> QED BY <2>1, <3>1, <3>2 DEF IInv, TypeOK, ClustersOfKind
  <2>3. WorldFits' BY <2>1 DEF IInv, WorldFits
  <2>4. PresenceFits'
    <3>1. step'[p] = "sveltos" BY <2>1 DEF IInv, TypeOK
    <3>2. \A q \in Processes : q # p => step'[q] = step[q] BY <2>1 DEF IInv, TypeOK
    <3> QED BY <2>1, <3>1, <3>2 DEF IInv, PresenceFits
  <2>5. ASSUME NEW q \in Profiles PROVE ProfileFits(q)'
    <3>1. CASE q = p
      <4>1. step'[q] = "sveltos" BY <2>1, <3>1 DEF IInv, TypeOK
      <4>2. listed'[q] = {c \in CapiClusters : Matches(c)} BY <2>1, <3>1
      <4>3. \A c : Matches(c)' <=> Matches(c)
        BY <2>1 DEF Matches, Exists, Onboarded, IsReady, IsCAPIClusterReady
      <4>4. ListFits(q)' BY <4>2, <4>3 DEF ListFits, Wanted, Lingers
      <4> QED BY <4>1, <4>4 DEF ProfileFits
    <3>2. CASE q # p
      <4>1. step'[q] = step[q] /\ listed'[q] = listed[q] BY <2>1, <3>2 DEF IInv, TypeOK
      <4> QED BY <2>1, <4>1, Others
    <3> QED BY <3>1, <3>2
  <2> QED BY <2>2, <2>3, <2>4, <2>5 DEF IInv
<1> QED BY <1>1, <1>2

LEMMA ListSveltosStep ==
  ASSUME IInv, NEW p \in Processes, ListSveltosClusters(p)
  PROVE  IInv'
<1>0. step[p] = "sveltos" BY DEF ListSveltosClusters
<1>1. CASE ListFails(p) BY <1>0, <1>1, FailStep
<1>2. CASE p \in Profiles /\ ~ListFails(p)
  <2> DEFINE s == listed[p] \cup {c \in Clusters \ CapiClusters : Matches(c)}
  <2>1. /\ step' = [step EXCEPT ![p] = "act"]
        /\ selected' = [selected EXCEPT ![p] = s]
        /\ listed' = [listed EXCEPT ![p] = {}]
        /\ UNCHANGED <<clusters, crd, watching, checkedCAPIPresence, capiPresent, queued, found,
                       deployed, misled, overlooked>>
    BY <1>2, ClusterSelectionAssumption DEF ListSveltosClusters, Goto, worldVars, presenceVars
  <2>2. s \subseteq Clusters BY <1>2 DEF IInv, TypeOK
  <2>3. p \notin queued => /\ \A c \in Clusters : Wanted(p, c) => c \in s
                          /\ \A c \in s : Lingers(c)
    BY <1>0, <1>2 DEF IInv, ProfileFits, ListFits, Wanted, Lingers
  <2> HIDE DEF s
  <2>4. TypeOK'
    <3>1. step' \in [Processes -> Steps] BY <2>1 DEF IInv, TypeOK, Steps
    <3>2. /\ listed' \in [Profiles -> SUBSET Clusters]
          /\ selected' \in [Profiles -> SUBSET Clusters]
      BY <2>1, <2>2 DEF IInv, TypeOK
    <3> QED BY <2>1, <3>1, <3>2 DEF IInv, TypeOK, ClustersOfKind
  <2>5. WorldFits' BY <2>1 DEF IInv, WorldFits
  <2>6. PresenceFits'
    <3>1. step'[p] = "act" BY <2>1 DEF IInv, TypeOK
    <3>2. \A q \in Processes : q # p => step'[q] = step[q] BY <2>1 DEF IInv, TypeOK
    <3> QED BY <1>0, <2>1, <3>1, <3>2 DEF IInv, PresenceFits
  <2>7. ASSUME NEW q \in Profiles PROVE ProfileFits(q)'
    <3>1. CASE q = p
      <4>1. step'[q] = "act" /\ selected'[q] = s /\ listed'[q] = {}
        BY <1>2, <2>1, <3>1 DEF IInv, TypeOK, Processes
      <4>2. \A c : (Wanted(p, c)' <=> Wanted(p, c)) /\ (Lingers(c)' <=> Lingers(c))
        BY <2>1 DEF Wanted, Lingers, Matches, Exists, Onboarded, IsReady, IsCAPIClusterReady,
                    IsClusterPaused
      <4>3. q \notin queued' => SelectionFits(q)'
        BY <2>1, <2>3, <3>1, <4>1, <4>2 DEF SelectionFits
      <4> QED BY <4>1, <4>3 DEF ProfileFits
    <3>2. CASE q # p
      <4>1. step'[q] = step[q] /\ listed'[q] = listed[q] /\ selected'[q] = selected[q]
        BY <2>1, <3>2 DEF IInv, TypeOK, Processes
      <4> QED BY <2>1, <4>1, Others
    <3> QED BY <3>1, <3>2
  <2> QED BY <2>4, <2>5, <2>6, <2>7 DEF IInv
<1>3. CASE p \notin Profiles /\ ~ListFails(p)
  <2>1. /\ step' = [step EXCEPT ![p] = "idle"] /\ misled' = misled \ {p}
        /\ UNCHANGED <<clusters, crd, watching, checkedCAPIPresence, capiPresent, queued, found,
                       listed, selected, deployed, overlooked>>
    BY <1>3 DEF ListSveltosClusters, Goto, worldVars, presenceVars, resultVars
  <2>2. TypeOK'
    <3>1. step' \in [Processes -> Steps] BY <2>1 DEF IInv, TypeOK, Steps
    <3> QED BY <2>1, <3>1 DEF IInv, TypeOK, ClustersOfKind
  <2>3. WorldFits' BY <2>1 DEF IInv, WorldFits
  <2>4. PresenceFits'
    <3>1. step'[p] = "idle" BY <2>1 DEF IInv, TypeOK
    <3>2. \A q \in Processes : q # p => step'[q] = step[q] BY <2>1 DEF IInv, TypeOK
    <3> QED BY <1>0, <2>1, <3>1, <3>2 DEF IInv, PresenceFits
  <2>5. ASSUME NEW q \in Profiles PROVE ProfileFits(q)'
    <3>1. step'[q] = step[q] BY <1>3, <2>1 DEF IInv, TypeOK, Processes
    <3>2. q \in misled <=> q \in misled' BY <1>3, <2>1
    <3> QED BY <2>1, <3>1, <3>2, Others
  <2> QED BY <2>2, <2>3, <2>4, <2>5 DEF IInv
<1> QED BY <1>1, <1>2, <1>3

(* Act deploys to whatever is wanted of what was selected.  Only profiles  *)
(* come to it, since pollers go back from their list.                      *)
LEMMA ActStep ==
  ASSUME IInv, NEW p \in Processes, Act(p)
  PROVE  IInv'
<1>0. step[p] = "act" BY DEF Act
<1>1. CASE ListFails(p) BY <1>0, <1>1, FailStep
<1>2. CASE ~ListFails(p)
  <2> DEFINE d == {c \in selected[p] : clusters[c] # Nil /\ ~IsClusterPaused(c)}
  <2>1. /\ step' = [step EXCEPT ![p] = "idle"]
        /\ deployed' = [deployed EXCEPT ![p] = d]
        /\ UNCHANGED <<clusters, crd, watching, checkedCAPIPresence, capiPresent, queued, found,
                       listed, selected, misled, overlooked>>
    BY <1>2 DEF Act, Goto, worldVars, presenceVars
  <2>2. p \in Profiles => d \subseteq Clusters BY DEF IInv, TypeOK
  <2>3. p \in Profiles \ queued => /\ \A c \in Clusters : Wanted(p, c) => c \in d
                                   /\ \A c \in selected[p] : Lingers(c)
    BY <1>0 DEF IInv, ProfileFits, SelectionFits, Wanted, Matches, Exists
  <2> HIDE DEF d
  <2>4. TypeOK'
    <3>1. step' \in [Processes -> Steps] BY <2>1 DEF IInv, TypeOK, Steps
    <3>2. deployed' \in [Profiles -> SUBSET Clusters] BY <2>1, <2>2 DEF IInv, TypeOK
    <3> QED BY <2>1, <3>1, <3>2 DEF IInv, TypeOK, ClustersOfKind
  <2>5. WorldFits' BY <2>1 DEF IInv, WorldFits
  <2>6. PresenceFits'
    <3>1. step'[p] = "idle" BY <2>1 DEF IInv, TypeOK
    <3>2. \A q \in Processes : q # p => step'[q] = step[q] BY <2>1 DEF IInv, TypeOK
    <3> QED BY <1>0, <2>1, <3>1, <3>2 DEF IInv, PresenceFits
  <2>7. ASSUME NEW q \in Profiles PROVE ProfileFits(q)'
    <3>1. CASE q = p
      <4>1. step'[q] = "idle" /\ deployed'[q] = d /\ listed'[q] = {}
        BY <1>0, <2>1, <3>1 DEF IInv, TypeOK, ProfileFits
      <4>2. \A c : (Wanted(p, c)' <=> Wanted(p, c)) /\ (Lingers(c)' <=> Lingers(c))
        BY <2>1 DEF Wanted, Lingers, Matches, Exists, Onboarded, IsReady, IsCAPIClusterReady,
                    IsClusterPaused
      <4>3. q \notin queued' => DeploymentFits(q)'
        BY <2>1, <2>3, <3>1, <4>1, <4>2 DEF DeploymentFits
      <4> QED BY <4>1, <4>3 DEF ProfileFits
    <3>2. CASE q # p
      <4>1. step'[q] = step[q] /\ deployed'[q] = deployed[q]
        BY <2>1, <3>2 DEF IInv, TypeOK, Processes
      <4> QED BY <2>1, <4>1, Others
    <3> QED BY <3>1, <3>2
  <2> QED BY <2>4, <2>5, <2>6, <2>7 DEF IInv
<1> QED BY <1>1, <1>2

-----------------------------------------------------------------------------
LEMMA StutterStep ==
  ASSUME IInv, UNCHANGED vars
  PROVE  IInv'
<1>1. UNCHANGED <<clusters, crd, watching, checkedCAPIPresence, capiPresent, queued, step, found,
                  listed, selected, deployed, misled, overlooked>>
  BY DEF vars, worldVars, presenceVars, resultVars
<1>2. TypeOK' BY <1>1 DEF IInv, TypeOK, ClustersOfKind
<1>3. WorldFits' /\ PresenceFits' BY <1>1 DEF IInv, WorldFits, PresenceFits
<1>4. \A q \in Profiles : ProfileFits(q)' BY <1>1, Others
<1> QED BY <1>2, <1>3, <1>4 DEF IInv

LEMMA NextStep ==
  ASSUME IInv, [Next]_vars
  PROVE  IInv'
<1>1. CASE UNCHANGED vars BY <1>1, StutterStep
<1>2. ASSUME NEW c \in Clusters, CreateCluster(c) \/ UpdateCluster(c) \/ DeleteCluster(c)
      PROVE  IInv'
  BY <1>2, CreateStep, UpdateStep, DeleteStep
<1>3. CASE InstallCAPI \/ Restart BY <1>3, InstallStep, RestartStep
<1>4. ASSUME NEW p \in Processes, Start(p) \/ Process(p) PROVE IInv'
  BY <1>4, StartStep, LoadCheckedStep, GetCRDStep, StorePresentStep, LoadPresentStep,
     ListCAPIStep, ListSveltosStep, ActStep DEF Process
<1> QED BY <1>1, <1>2, <1>3, <1>4 DEF Next

LEMMA Invariant == Spec => []IInv
BY InitHolds, NextStep, PTL DEF Spec

(* The types of the informer's clusters, of the two variables of           *)
(* isCAPIPresent and of every list.                                        *)
THEOREM TypeCorrect == Spec => []TypeOK
<1>1. IInv => TypeOK BY DEF IInv
<1> QED BY <1>1, Invariant, PTL

(* However many clusters and profiles there are: a profile at rest has     *)
(* acted on every cluster it wants, but for the two gaps of the property.  *)
THEOREM NothingMissed == Spec => []NoClusterMissed
<1>1. IInv => NoClusterMissed
  BY DEF IInv, ProfileFits, DeploymentFits, Wanted, NoClusterMissed, Settled, Processes
<1> QED BY <1>1, Invariant, PTL

(* A profile at rest holds on to no cluster that it would not select, but  *)
(* for those no predicate reports.                                         *)
THEOREM LingersOnlyAsKnown == Spec => []OnlyUnreadyOrDeletedLinger
<1>1. IInv => OnlyUnreadyOrDeletedLinger
  BY DEF IInv, ProfileFits, DeploymentFits, Lingers, OnlyUnreadyOrDeletedLinger, Settled
<1> QED BY <1>1, Invariant, PTL

(* isCAPIPresent answers wrongly only between the two stores of another    *)
(* caller's first check, for any number of callers.                        *)
THEOREM WrongOnlyBetweenStores == Spec => MisledOnlyByFirstCheck
<1> DEFINE A == \A p \in Processes : p \in misled' \ misled =>
                  /\ capiPresent = 0
                  /\ \E q \in Processes \ {p} : step[q] = "checked"
<1>1. ASSUME IInv, [Next]_vars PROVE A
  <2> SUFFICES ASSUME NEW p \in Processes, p \in misled' \ misled
               PROVE  /\ capiPresent = 0
                      /\ \E q \in Processes \ {p} : step[q] = "checked"
    OBVIOUS
  <2>1. LoadPresent(p) \/ StorePresent(p)
    <3>1. ASSUME NEW q \in Processes, Start(q) \/ Process(q), ~LoadPresent(q), ~StorePresent(q)
          PROVE  misled' \subseteq misled
      BY <3>1 DEF Start, Process, LoadChecked, GetCRD, ListCAPIClusters, ListSveltosClusters, Act,
                  ListFails
    <3>2. ASSUME NEW q \in Processes, LoadPresent(q) \/ StorePresent(q)
          PROVE  misled' \subseteq misled \cup {q}
      BY <3>2 DEF LoadPresent, StorePresent, Answer
    <3>3. ASSUME NEW c \in Clusters, CreateCluster(c) \/ UpdateCluster(c) \/ DeleteCluster(c)
          PROVE  misled' = misled
      BY <3>3 DEF CreateCluster, UpdateCluster, DeleteCluster, Change
    <3>4. InstallCAPI \/ Restart => misled' \subseteq misled BY DEF InstallCAPI, Restart
    <3>5. UNCHANGED vars => misled' = misled BY DEF vars
    <3> QED BY <1>1, <3>1, <3>2, <3>3, <3>4, <3>5 DEF Next
  <2>2. ASSUME StorePresent(p) PROVE FALSE
    <3>1. watching /\ found[p] = "absent" /\ step[p] = "checked"
      BY <2>2 DEF StorePresent, Answer
    <3> QED BY <1>1, <3>1 DEF IInv, PresenceFits
  <2>3. CASE LoadPresent(p)
    <3>1. watching /\ step[p] = "present" /\ capiPresent # 1
      BY <2>3 DEF LoadPresent, Answer
    <3>2. capiPresent = 0 BY <1>1, <3>1 DEF IInv, TypeOK
    <3> QED BY <1>1, <3>1, <3>2 DEF IInv, PresenceFits
  <2> QED BY <2>1, <2>2, <2>3
<1>2. MisledOnlyByFirstCheck <=> [][A]_vars BY DEF MisledOnlyByFirstCheck
<1> HIDE DEF A
<1> QED BY <1>1, <1>2, Invariant, PTL DEF Spec
=============================================================================
