--------------------------- MODULE PullModeProofs ---------------------------
(***************************************************************************)
(* Theorems about PullMode, for any number of requestors, indexes,         *)
(* failures and restarts, for any lag of the cache and any sharing of the  *)
(* keys of the staging area.  The safety properties are of the requestors  *)
(* that share their key with no other, until one of their decisions goes   *)
(* by a cache that does not show what it should.                           *)
(*                                                                         *)
(* What belongs to one requestor: its bundles, its group (at most one),    *)
(* its staging area and its call.  The invariant RInv(r) relates these.    *)
(* Whatever another requestor does, sound or not, it changes none of them  *)
(* (StepOf); r's own steps keep RInv(r) as long as r is sound.             *)
(***************************************************************************)
EXTENDS PullMode, FiniteSetTheorems, TLAPS

Given(want) == {k \in Indexes : want[k] # Nil}

-----------------------------------------------------------------------------
(* The invariant *)

(* What the agent is processing is still there, and what a call has left   *)
(* to do is among what it was given.                                       *)
Finalized == \A n \in GroupNames : agent[n] # Nil => groups[n].finalizer
TodoFits == \A r \in Requestors : \A k \in work[r].todo :
              work[r].want \in Wants /\ work[r].want[k] # Nil
TInv == TypeOK /\ Finalized /\ TodoFits

(* The same, by part of the state.                                         *)
BundlesFit == /\ DOMAIN bundles = BundleNames
              /\ \A n \in BundleNames : bundles[n] # Nil => bundles[n] \in Bundle
GroupsFit == /\ DOMAIN groups = GroupNames /\ DOMAIN agent = GroupNames
             /\ \A n \in GroupNames : groups[n] # Nil => groups[n] \in Group
             /\ \A n \in GroupNames : agent[n] # Nil =>
                  agent[n] \in Version /\ groups[n] # Nil /\ groups[n].finalizer
CachedFit == DOMAIN cached = GroupNames /\ \A n \in GroupNames : cached[n] # Nil => cached[n] \in Group
StepNames == LooksForGroup \cup {"stage", "sweep", "terminate"}
Calls == [step : StepNames, want : Wants \cup {Nil}, todo : SUBSET Indexes, items : Items]
CallsFit == staged \in [Keys -> Items] /\ work \in [Requestors -> Calls] /\ TodoFits
RestFits == /\ failures \in 0..MaxFailures
            /\ applied \in [Requestors -> SUBSET (Indexes \X Contents)]
            /\ pending \subseteq Requestors /\ torn \subseteq Requestors /\ swept \subseteq Requestors
            /\ misled \subseteq Requestors
            /\ committed \in [Requestors -> Wants \cup {Nil}]

(* At most one group, and one bundle for each index.                       *)
OneEach(r) ==
  /\ \A n, m \in Owned(groups, r) : n = m
  /\ \A a, b \in Owned(bundles, r) : bundles[a].index = bundles[b].index => a = b

(* What lists of r name is r's, if it is there at all.                     *)
Mine(r) ==
  /\ \A b \in Names(staged[GeKey(r)]) : bundles[b] # Nil => bundles[b].owner = r
  /\ \A b \in Names(work[r].items) : bundles[b] # Nil => bundles[b].owner = r
  /\ \A n \in Owned(groups, r) : \A b \in Names(groups[n].items) :
       bundles[b] # Nil => bundles[b].owner = r

(* The items are written bundles of r, with what their hashes say.         *)
Listed(store, r, items) ==
  \A i \in DOMAIN items : /\ store[items[i].name] # Nil
                          /\ store[items[i].name].owner = r
                          /\ store[items[i].name].content = items[i].hash
Kept(store, items) ==
  \A i \in DOMAIN items : store[items[i].name] # Nil => store[items[i].name].content = items[i].hash
ContentOf(store, items) == {<<store[b].index, store[b].content>> : b \in Names(items)}
Asked(r) == {<<k, work[r].want[k]>> : k \in Given(work[r].want) \ work[r].todo}

StagingFits(r) ==
  work[r].step \in {"mark", "stage", "staged"} =>
    /\ r \in pending /\ work[r].want \in Wants
    /\ Listed(bundles, r, staged[GeKey(r)]) /\ ContentOf(bundles, staged[GeKey(r)]) = Asked(r)
    /\ work[r].step = "staged" => work[r].todo = {}
    /\ work[r].step # "mark" => \A n \in Owned(groups, r) : groups[n].phase = "Preparing"

RecordFits(r) ==
  work[r].step = "group" =>
    /\ work[r].want \in Wants
    /\ Listed(bundles, r, work[r].items) /\ ContentOf(bundles, work[r].items) = Asked(r)
    /\ r \in torn \/ work[r].items = <<>>

(* A clean up spares what the agent may fetch, and nothing but the group's. *)
SweepFits(r) ==
  work[r].step = "sweep" =>
    /\ \A n \in Owned(groups, r) : Available(n) /\ committed[r] # Nil =>
         Names(groups[n].items) \subseteq Names(work[r].items)
    /\ \A b \in Names(work[r].items) : bundles[b] # Nil =>
         \E n \in Owned(groups, r) : b \in Names(groups[n].items)

EndFits(r) ==
  /\ r \notin pending => staged[GeKey(r)] = <<>>
  /\ work[r].step \in {"terminate", "delete"} => committed[r] = Nil /\ work[r].items = <<>>
  /\ work[r].step = "delete" => Owned(bundles, r) = {}

SweptFits(r) ==
  r \in swept => /\ work[r].step \in {"idle", "sweep"}
                 /\ \A b \in Owned(bundles, r) :
                      \E n \in Owned(groups, r) : b \in Names(groups[n].items)

(* What is committed and Ready is there; what is reported is that.         *)
GroupFits(r) ==
  \A n \in Owned(groups, r) :
    /\ Available(n) /\ committed[r] # Nil /\ r \notin torn =>
         Listed(bundles, r, groups[n].items) /\ ContentOf(bundles, groups[n].items) = Pairs(committed[r])
    /\ Available(n) /\ r \notin torn => Kept(bundles, groups[n].items)
    /\ groups[n].deleting => \A b \in Names(groups[n].items) : bundles[b] = Nil

ReportFits(r) ==
  \A n \in Owned(groups, r) :
    /\ agent[n] # Nil /\ agent[n].current =>
         agent[n].items = groups[n].items /\ agent[n].action = groups[n].action
    /\ groups[n].observed /\ groups[n].status = "Provisioned" /\ groups[n].action = "Deploy" =>
         /\ Available(n) /\ committed[r] # Nil /\ r \notin torn => applied[r] = Pairs(committed[r])
         /\ groups[n].items = <<>> => applied[r] = {}
    /\ agent[n] # Nil /\ agent[n].deleting => groups[n].deleting

RInv(r) == /\ OneEach(r) /\ Mine(r) /\ StagingFits(r) /\ RecordFits(r) /\ SweepFits(r)
           /\ EndFits(r) /\ SweptFits(r) /\ GroupFits(r) /\ ReportFits(r)
RInvs == \A r \in Requestors : Sound(r) => RInv(r)

(* The cache shows the groups that are there under their names, if any, and *)
(* one for each requestor that was not misled.                             *)
SameGroup == \A n \in GroupNames : cached[n] # Nil /\ groups[n] # Nil => cached[n].owner = groups[n].owner
OneShown(r) == \A n, m \in Shown(r) : n = m
CacheFits == SameGroup /\ \A r \in Requestors : Sound(r) => OneShown(r)

IInv == TInv /\ RInvs /\ CacheFits

-----------------------------------------------------------------------------
(* Types *)

(* The types by part are the type invariant.                               *)
LEMMA Parts == TInv <=> BundlesFit /\ GroupsFit /\ CachedFit /\ CallsFit /\ RestFits
  BY SMT DEF TInv, TypeOK, Finalized, BundlesFit, GroupsFit, CachedFit, CallsFit, RestFits, StepNames, Calls

(* The same of the next state.                                             *)
LEMMA PartsNext == BundlesFit' /\ GroupsFit' /\ CachedFit' /\ CallsFit' /\ RestFits' => TInv'
  BY SMT DEF TInv, TypeOK, Finalized, BundlesFit, GroupsFit, CachedFit, CallsFit, RestFits, StepNames, Calls

(* What the cache shows keeps its type until it catches up.                *)
LEMMA CachedStays == TInv /\ UNCHANGED cached => CachedFit'
  BY Parts DEF CachedFit

(* A list of names and hashes, and one entry more.                         *)
LEMMA ListOfItems ==
  /\ <<>> \in Items
  /\ \A items \in Items, n \in BundleNames, c \in Contents :
       Append(items, [name |-> n, hash |-> c]) \in Items
  <1>1. <<>> \in Items
    BY DEF Items
  <1>2. ASSUME NEW items \in Items, NEW n \in BundleNames, NEW c \in Contents
        PROVE  Append(items, [name |-> n, hash |-> c]) \in Items
    <2> DEFINE S == [name : BundleNames, hash : Contents]
               e == [name |-> n, hash |-> c]
    <2>1. e \in S /\ items \in Seq(S)
      BY DEF Items
    <2>2. ASSUME NEW T, NEW q \in Seq(T), NEW x \in T PROVE Append(q, x) \in Seq(T)
      OBVIOUS
    <2> HIDE DEF S, e
    <2>3. Append(items, e) \in Seq(S)
      BY <2>1, <2>2
    <2> QED
      BY <2>3 DEF Items, S, e
  <1> QED
    BY <1>1, <1>2

(* Every requestor has its key in the staging area.                        *)
LEMMA KeyIn == \A r \in Requestors : GeKey(r) \in Keys
  BY DEF Keys

(* One index of a call that is left is asked for, with some content.       *)
LEMMA AskedFor ==
  ASSUME CallsFit, NEW r \in Requestors, NEW k \in work[r].todo
  PROVE  k \in Indexes /\ work[r].want \in Wants /\ work[r].want[k] \in Contents
  <1>1. work[r] \in Calls
    BY DEF CallsFit
  <1>2. k \in Indexes
    BY <1>1 DEF Calls
  <1>3. work[r].want \in Wants /\ work[r].want[k] # Nil
    BY DEF CallsFit, TodoFits
  <1>4. work[r].want \in [Indexes -> Contents \cup {Nil}]
    BY <1>3, PullModeAssumption
  <1> QED
    BY <1>2, <1>3, <1>4

(* reconcileConfigurationBundle writes one bundle, which is there already  *)
(* or has a name nothing refers to.                                        *)
LEMMA OneBundleWritten ==
  ASSUME BundlesFit, CallsFit, NEW r \in Requestors, NEW k \in work[r].todo,
         NEW n \in BundleNames, ReconcileBundle(r, k, n)
  PROVE  \E b \in Bundle :
           /\ bundles' = [bundles EXCEPT ![n] = b]
           /\ b.owner = r /\ b.index = k /\ b.content = work[r].want[k]
           /\ \/ SeenAt(r, k) = {n} /\ b.seen
              \/ SeenAt(r, k) = {} /\ n \in FreeBundles /\ b.seen \in Visible
  <1>1. k \in Indexes /\ work[r].want[k] \in Contents
    BY AskedFor
  <1>2. CASE SeenAt(r, k) = {n} /\ bundles' = [bundles EXCEPT ![n].content = work[r].want[k]]
    <2>1. bundles[n] # Nil /\ bundles[n].owner = r /\ bundles[n].index = k /\ bundles[n].seen
      BY <1>2 DEF SeenAt, Seen, Owned
    <2>2. bundles[n] \in Bundle
      BY <2>1 DEF BundlesFit
    <2> DEFINE b == [bundles[n] EXCEPT !.content = work[r].want[k]]
    <2>3. /\ b \in Bundle
          /\ b.owner = bundles[n].owner /\ b.index = bundles[n].index /\ b.seen = bundles[n].seen
          /\ b.content = work[r].want[k]
      BY <1>1, <2>2 DEF Bundle
    <2>4. bundles' = [bundles EXCEPT ![n] = b]
      BY <1>2
    <2> HIDE DEF b
    <2> QED
      BY <1>2, <2>1, <2>3, <2>4
  <1>3. CASE /\ SeenAt(r, k) = {} /\ FreeBundles # {} /\ n \in Random(FreeBundles)
             /\ \E seen \in Visible :
                  bundles' = [bundles EXCEPT ![n] = [owner |-> r, index |-> k,
                                                     content |-> work[r].want[k], seen |-> seen]]
    <2>1. PICK seen \in Visible :
            bundles' = [bundles EXCEPT ![n] = [owner |-> r, index |-> k,
                                               content |-> work[r].want[k], seen |-> seen]]
      BY <1>3
    <2>2. seen \in BOOLEAN
      BY DEF Visible
    <2>3. n \in FreeBundles
      <3>1. FreeBundles \in ((SUBSET BundleNames) \cup (SUBSET GroupNames)) \ {{}}
        BY <1>3 DEF FreeBundles
      <3> QED
        BY <1>3, <3>1, PullModeAssumption
    <2> DEFINE b == [owner |-> r, index |-> k, content |-> work[r].want[k], seen |-> seen]
    <2>4. /\ b \in Bundle
          /\ b.owner = r /\ b.index = k /\ b.content = work[r].want[k] /\ b.seen = seen
      BY <1>1, <2>2 DEF Bundle
    <2>5. bundles' = [bundles EXCEPT ![n] = b]
      BY <2>1
    <2> HIDE DEF b
    <2> QED
      BY <1>3, <2>1, <2>3, <2>4, <2>5
  <1> QED
    BY <1>2, <1>3 DEF ReconcileBundle

(* Whether r goes by what it sees or is misled, it is a requestor.         *)
LEMMA GoByTyped ==
  ASSUME NEW r \in Requestors, misled \subseteq Requestors,
         misled' = misled \/ \E shown : GoBy(r, shown)
  PROVE  misled' \subseteq Requestors
  BY DEF GoBy

(* Writing one bundle keeps the types.                                     *)
LEMMA BundleWriteTyped ==
  ASSUME BundlesFit, NEW n \in BundleNames, NEW b \in Bundle, bundles' = [bundles EXCEPT ![n] = b]
  PROVE  BundlesFit'
  BY DEF BundlesFit

(* Deleting bundles keeps the types.                                      *)
LEMMA BundleDeleteTyped ==
  ASSUME BundlesFit, NEW ns, DeleteBundles(ns)
  PROVE  BundlesFit'
  BY DEF BundlesFit, DeleteBundles

(* A change of a group's spec: what it keeps, and that a new generation is *)
(* not observed, nor current for the agent.                                *)
LEMMA SpecIsSet ==
  ASSUME GroupsFit, NEW n \in GroupNames, groups[n] # Nil, NEW phase \in {"Ready", "Preparing"},
         NEW action \in {"Deploy", "Remove"}, NEW items \in Items, SetSpec(n, phase, action, items)
  PROVE  \E h \in Group, new \in BOOLEAN :
           /\ groups' = [groups EXCEPT ![n] = h]
           /\ h.owner = groups[n].owner /\ h.deleting = groups[n].deleting
           /\ h.finalizer = groups[n].finalizer /\ h.status = groups[n].status
           /\ h.phase = phase /\ h.action = action /\ h.items = items
           /\ h.observed => groups[n].observed /\ ~new
           /\ DOMAIN agent' = GroupNames
           /\ \A m \in GroupNames : m # n \/ ~new \/ agent[m] = Nil => agent'[m] = agent[m]
           /\ agent[n] # Nil => /\ agent'[n] \in Version
                                /\ agent'[n].items = agent[n].items /\ agent'[n].action = agent[n].action
                                /\ agent'[n].deleting = agent[n].deleting
                                /\ agent'[n].current => agent[n].current /\ ~new
           /\ ~new => /\ phase = groups[n].phase /\ action = groups[n].action
                      /\ items = groups[n].items /\ torn' = torn
           /\ new => torn' = torn \ {groups[n].owner}
  <1> DEFINE g == groups[n]
             new == phase # g.phase \/ action # g.action \/ items # g.items
             h == [g EXCEPT !.phase = phase, !.action = action, !.items = items, !.observed = @ /\ ~new]
  <1>1. g \in Group
    BY DEF GroupsFit
  <1>2. new \in BOOLEAN
    OBVIOUS
  <1>3. /\ groups' = [groups EXCEPT ![n] = h]
        /\ agent' = IF new /\ agent[n] # Nil THEN [agent EXCEPT ![n].current = FALSE] ELSE agent
        /\ torn' = IF new THEN torn \ {g.owner} ELSE torn
    BY DEF SetSpec
  <1>4. ~new => phase = g.phase /\ action = g.action /\ items = g.items
    OBVIOUS
  <1> HIDE DEF new
  <1>5. /\ h \in Group
        /\ h.owner = g.owner /\ h.deleting = g.deleting
        /\ h.finalizer = g.finalizer /\ h.status = g.status
        /\ h.phase = phase /\ h.action = action /\ h.items = items
        /\ h.observed => g.observed /\ ~new
    BY <1>1, <1>2 DEF Group
  <1>6. /\ DOMAIN agent' = GroupNames
        /\ \A m \in GroupNames : m # n \/ ~new \/ agent[m] = Nil => agent'[m] = agent[m]
    BY <1>3 DEF GroupsFit
  <1>7. agent[n] # Nil => /\ agent'[n] \in Version
                          /\ agent'[n].items = agent[n].items /\ agent'[n].action = agent[n].action
                          /\ agent'[n].deleting = agent[n].deleting
                          /\ agent'[n].current => agent[n].current /\ ~new
    <2>1. CASE ~new
      BY <1>3, <2>1 DEF GroupsFit
    <2>2. CASE new /\ agent[n] # Nil
      <3>1. agent[n] \in Version
        BY <2>2 DEF GroupsFit
      <3>2. agent'[n] = [agent[n] EXCEPT !.current = FALSE]
        BY <1>3, <2>2 DEF GroupsFit
      <3> QED
        BY <3>1, <3>2 DEF Version
    <2> QED
      BY <2>1, <2>2
  <1>8. /\ ~new => torn' = torn
        /\ new => torn' = torn \ {g.owner}
    BY <1>3
  <1> HIDE DEF h
  <1> QED
    BY <1>2, <1>3, <1>4, <1>5, <1>6, <1>7, <1>8

(* A group that is created has a name that no group has.                   *)
LEMMA GroupIsCreated ==
  ASSUME GroupsFit, NEW r \in Requestors, NEW action \in {"Deploy", "Remove"}, NEW items \in Items,
         CreateGroup(r, action, items)
  PROVE  \E n \in GroupNames, h \in Group :
           /\ groups[n] = Nil /\ cached[n] = Nil /\ groups' = [groups EXCEPT ![n] = h]
           /\ h.owner = r /\ ~h.deleting /\ ~h.finalizer /\ h.phase = "Ready"
           /\ h.action = action /\ h.items = items /\ ~h.observed /\ h.status = "None"
           /\ torn' = torn \ {r} /\ agent' = agent
  <1>1. FreeGroups \in ((SUBSET BundleNames) \cup (SUBSET GroupNames)) \ {{}}
    BY DEF FreeGroups, CreateGroup
  <1>2. PICK n \in Random(FreeGroups) :
          groups' = [groups EXCEPT ![n] =
                       [owner |-> r, deleting |-> FALSE, finalizer |-> FALSE,
                        phase |-> "Ready", action |-> action, items |-> items,
                        observed |-> FALSE, status |-> "None"]]
    BY DEF CreateGroup
  <1>3. n \in FreeGroups
    BY <1>1, <1>2, PullModeAssumption
  <1> DEFINE h == [owner |-> r, deleting |-> FALSE, finalizer |-> FALSE,
                   phase |-> "Ready", action |-> action, items |-> items,
                   observed |-> FALSE, status |-> "None"]
  <1>5. /\ h \in Group
        /\ h.owner = r /\ ~h.deleting /\ ~h.finalizer /\ h.phase = "Ready"
        /\ h.action = action /\ h.items = items /\ ~h.observed /\ h.status = "None"
    BY DEF Group
  <1>6. groups' = [groups EXCEPT ![n] = h] /\ torn' = torn \ {r} /\ agent' = agent
    BY <1>2 DEF CreateGroup
  <1>7. n \in GroupNames /\ groups[n] = Nil /\ cached[n] = Nil
    BY <1>3 DEF FreeGroups
  <1> HIDE DEF h
  <1> QED
    BY <1>2, <1>5, <1>6, <1>7

(* A change of a group's spec keeps the types.                             *)
LEMMA SpecTyped ==
  ASSUME GroupsFit, NEW n \in GroupNames, groups[n] # Nil, NEW phase \in {"Ready", "Preparing"},
         NEW action \in {"Deploy", "Remove"}, NEW items \in Items, SetSpec(n, phase, action, items)
  PROVE  GroupsFit' /\ torn' \subseteq torn
  <1>1. PICK h \in Group, new \in BOOLEAN :
           /\ groups' = [groups EXCEPT ![n] = h] /\ h.finalizer = groups[n].finalizer
           /\ DOMAIN agent' = GroupNames
           /\ \A m \in GroupNames : m # n \/ ~new \/ agent[m] = Nil => agent'[m] = agent[m]
           /\ agent[n] # Nil => agent'[n] \in Version
           /\ ~new => torn' = torn
           /\ new => torn' = torn \ {groups[n].owner}
    BY SpecIsSet
  <1>2. h # Nil
    BY PullModeAssumption
  <1> QED
    BY <1>1, <1>2 DEF GroupsFit

(* A group that is created has the type of groups.                         *)
LEMMA CreateTyped ==
  ASSUME GroupsFit, NEW r \in Requestors, NEW action \in {"Deploy", "Remove"}, NEW items \in Items,
         CreateGroup(r, action, items)
  PROVE  GroupsFit' /\ torn' \subseteq torn
  <1>1. PICK n \in GroupNames, h \in Group :
           /\ groups[n] = Nil /\ groups' = [groups EXCEPT ![n] = h]
           /\ torn' = torn \ {r} /\ agent' = agent
    BY GroupIsCreated
  <1>2. h # Nil
    BY PullModeAssumption
  <1> QED
    BY <1>1, <1>2 DEF GroupsFit

(* A requestor with one group has a group.                                 *)
LEMMA OneIsSome == \A r : OneGroup(r) => Shown(r) # {}
  BY FS_EmptySet DEF OneGroup

(* The group that the cache shows is the requestor's, and so is the group  *)
(* that it updates.                                                        *)
LEMMA TheGroupIs ==
  ASSUME CachedFit, NEW r \in Requestors, OneGroup(r)
  PROVE  /\ TheGroup(r) \in GroupNames /\ cached[TheGroup(r)] # Nil /\ cached[TheGroup(r)].owner = r
         /\ CurrentGroup(r) => groups[TheGroup(r)] # Nil /\ groups[TheGroup(r)].owner = r
  <1>1. TheGroup(r) \in Shown(r)
    BY OneIsSome DEF TheGroup
  <1> QED
    BY <1>1 DEF Shown, Owned, CachedFit, CurrentGroup

LEMMA CurrentIsOne == \A r : CurrentGroup(r) => OneGroup(r)
  BY DEF CurrentGroup

(* A group that is deleted keeps the finalizer that the agent relies on.   *)
LEMMA DeleteTyped ==
  ASSUME GroupsFit, NEW ns, DeleteGroups(ns), UNCHANGED agent
  PROVE  GroupsFit'
  <1>1. ASSUME NEW n \in GroupNames, AfterDelete(groups[n]) # Nil
        PROVE  AfterDelete(groups[n]) \in Group /\ AfterDelete(groups[n]).finalizer
    <2>1. groups[n] # Nil /\ groups[n] \in Group /\ groups[n].finalizer
      BY <1>1 DEF GroupsFit, AfterDelete
    <2>2. AfterDelete(groups[n]) = [groups[n] EXCEPT !.deleting = TRUE]
      BY <2>1 DEF AfterDelete
    <2> QED
      BY <2>1, <2>2 DEF Group
  <1>2. \A n \in GroupNames : groups[n] # Nil /\ groups[n].finalizer => AfterDelete(groups[n]) # Nil
    <2> TAKE n \in GroupNames
    <2> HAVE groups[n] # Nil /\ groups[n].finalizer
    <2>1. groups[n] \in Group /\ AfterDelete(groups[n]) = [groups[n] EXCEPT !.deleting = TRUE]
      BY DEF GroupsFit, AfterDelete
    <2>2. AfterDelete(groups[n]) \in Group
      BY <2>1 DEF Group
    <2> QED
      BY <2>2, PullModeAssumption
  <1>3. /\ DOMAIN groups' = GroupNames /\ agent' = agent
        /\ \A n \in GroupNames : groups'[n] = IF n \in ns THEN AfterDelete(groups[n]) ELSE groups[n]
    BY DEF DeleteGroups
  <1>4. ASSUME NEW n \in GroupNames, groups'[n] # Nil PROVE groups'[n] \in Group
    BY <1>1, <1>3, <1>4 DEF GroupsFit
  <1>5. ASSUME NEW n \in GroupNames, agent[n] # Nil
        PROVE  agent[n] \in Version /\ groups'[n] # Nil /\ groups'[n].finalizer
    BY <1>1, <1>2, <1>3, <1>5 DEF GroupsFit
  <1> QED
    BY <1>3, <1>4, <1>5 DEF GroupsFit

(* How a call begins, goes on and ends.                                    *)
LEMMA CallIs ==
  ASSUME CallsFit, NEW r \in Requestors, NEW step \in StepNames, NEW want \in Wants,
         Call(r, step, want)
  PROVE  \E c \in Calls : /\ work' = [work EXCEPT ![r] = c]
                          /\ c.step = step /\ c.want = want /\ c.items = <<>>
                          /\ c.todo = Given(want)
  <1> DEFINE c == [step |-> step, want |-> want, todo |-> {k \in Indexes : want[k] # Nil}, items |-> <<>>]
  <1>1. c \in Calls /\ c.step = step /\ c.want = want /\ c.items = <<>> /\ c.todo = Given(want)
    BY ListOfItems DEF Calls, Given
  <1>2. work' = [work EXCEPT ![r] = c]
    BY DEF Call
  <1> HIDE DEF c
  <1> QED
    BY <1>1, <1>2

(* A call that goes over to its clean up forgets what it was given.        *)
LEMMA SweepingIs ==
  ASSUME CallsFit, NEW r \in Requestors, NEW step \in StepNames, NEW items \in Items,
         Sweeping(r, step, items)
  PROVE  \E c \in Calls : /\ work' = [work EXCEPT ![r] = c]
                          /\ c.step = step /\ c.want = Nil /\ c.items = items /\ c.todo = {}
  <1> DEFINE c == [Idle EXCEPT !.step = step, !.items = items]
  <1>1. c \in Calls /\ c.step = step /\ c.want = Nil /\ c.items = items /\ c.todo = {}
    BY DEF Calls, Idle
  <1>2. work' = [work EXCEPT ![r] = c]
    BY DEF Sweeping
  <1> HIDE DEF c
  <1> QED
    BY <1>1, <1>2

(* A call that returns leaves nothing.                                     *)
LEMMA ReturnIs ==
  ASSUME CallsFit, NEW r \in Requestors, Return(r)
  PROVE  \E c \in Calls : /\ work' = [work EXCEPT ![r] = c]
                          /\ c.step = "idle" /\ c.want = Nil /\ c.items = <<>> /\ c.todo = {}
  <1>1. /\ Idle \in Calls
        /\ Idle.step = "idle" /\ Idle.want = Nil /\ Idle.items = <<>> /\ Idle.todo = {}
    BY ListOfItems DEF Calls, Idle, StepNames, LooksForGroup
  <1> QED
    BY <1>1 DEF Return

(* A call that goes on keeps what it was given.                            *)
LEMMA GotoIs ==
  ASSUME CallsFit, NEW r \in Requestors, NEW step \in StepNames, Goto(r, step)
  PROVE  \E c \in Calls : /\ work' = [work EXCEPT ![r] = c]
                          /\ c.step = step /\ c.want = work[r].want /\ c.items = work[r].items
                          /\ c.todo = work[r].todo
  <1> DEFINE c == [work[r] EXCEPT !.step = step]
  <1>1. work[r] \in Calls
    BY DEF CallsFit
  <1>2. /\ c \in Calls
        /\ c.step = step /\ c.want = work[r].want /\ c.items = work[r].items /\ c.todo = work[r].todo
    BY <1>1 DEF Calls
  <1>3. work' = [work EXCEPT ![r] = c]
    BY DEF Goto
  <1> HIDE DEF c
  <1> QED
    BY <1>2, <1>3

(* Each keeps the types, and so does what it does to its staging area.     *)
LEMMA CallTyped ==
  ASSUME CallsFit, NEW r \in Requestors, NEW c \in Calls, work' = [work EXCEPT ![r] = c],
         \A k \in c.todo : c.want \in Wants /\ c.want[k] # Nil,
         staged' = staged \/ \E items \in Items : staged' = [staged EXCEPT ![GeKey(r)] = items]
  PROVE  CallsFit'
  <1>1. work' \in [Requestors -> Calls]
    BY DEF CallsFit
  <1>2. staged' \in [Keys -> Items]
    BY KeyIn DEF CallsFit
  <1>3. TodoFits'
    BY DEF TodoFits, CallsFit
  <1> QED
    BY <1>1, <1>2, <1>3 DEF CallsFit

(* The bundle that is written is staged, or recorded in the call.          *)
StagesEntry(r, k, n, next) ==
  /\ staged' = [staged EXCEPT ![GeKey(r)] = Append(@, [name |-> n, hash |-> work[r].want[k]])]
  /\ work' = [work EXCEPT ![r].todo = @ \ {k}, ![r].step = next]

StagesOne(r, k, n) ==
  \E next \in IF work[r].todo = {k} THEN {"staged"} ELSE {"stage", "mark"} : StagesEntry(r, k, n, next)

(* Staging writes a bundle, and then stages it or returns an error.        *)
LEMMA StageBundleIs ==
  ASSUME NEW r, StageBundle(r)
  PROVE  \E k \in work[r].todo, n \in BundleNames :
            /\ ReconcileBundle(r, k, n)
            /\ \/ StagesOne(r, k, n)
               \/ Return(r) /\ UNCHANGED staged
  BY DEF StageBundle, StagesOne, StagesEntry

(* What staging does to the call and to the staging area.                  *)
LEMMA StagedIs ==
  ASSUME CallsFit, NEW r \in Requestors, NEW k \in work[r].todo, NEW n \in BundleNames,
         NEW next \in StepNames, StagesEntry(r, k, n, next)
  PROVE  \E c \in Calls, items \in Items :
           /\ work' = [work EXCEPT ![r] = c] /\ staged' = [staged EXCEPT ![GeKey(r)] = items]
           /\ c.step = next /\ c.want = work[r].want /\ c.items = work[r].items
           /\ c.todo = work[r].todo \ {k}
           /\ items = Append(staged[GeKey(r)], [name |-> n, hash |-> work[r].want[k]])
  <1> DEFINE c == [work[r] EXCEPT !.todo = @ \ {k}, !.step = next]
             items == Append(staged[GeKey(r)], [name |-> n, hash |-> work[r].want[k]])
  <1>1. work[r] \in Calls /\ GeKey(r) \in Keys /\ staged[GeKey(r)] \in Items
    BY KeyIn DEF CallsFit
  <1>2. items \in Items
    BY <1>1, AskedFor, ListOfItems
  <1>3. /\ c \in Calls
        /\ c.step = next /\ c.want = work[r].want /\ c.items = work[r].items
        /\ c.todo = work[r].todo \ {k}
    BY <1>1 DEF Calls
  <1>4. work' = [work EXCEPT ![r] = c] /\ staged' = [staged EXCEPT ![GeKey(r)] = items]
    BY <1>1 DEF CallsFit, StagesEntry
  <1> HIDE DEF c
  <1> QED
    BY <1>2, <1>3, <1>4

(* The same of RecordResourcesForDeployment.                               *)
RecordsEntry(r, k, n) ==
  work' = [work EXCEPT ![r].todo = @ \ {k},
                       ![r].items = Append(@, [name |-> n, hash |-> work[r].want[k]])]

(* What recording does to the call.                                        *)
LEMMA RecordedIs ==
  ASSUME CallsFit, NEW r \in Requestors, NEW k \in work[r].todo, NEW n \in BundleNames,
         RecordsEntry(r, k, n)
  PROVE  \E c \in Calls :
           /\ work' = [work EXCEPT ![r] = c]
           /\ c.step = work[r].step /\ c.want = work[r].want /\ c.todo = work[r].todo \ {k}
           /\ c.items = Append(work[r].items, [name |-> n, hash |-> work[r].want[k]])
  <1> DEFINE e == [name |-> n, hash |-> work[r].want[k]]
             c == [work[r] EXCEPT !.todo = @ \ {k}, !.items = Append(@, e)]
  <1>1. work[r] \in Calls
    BY DEF CallsFit
  <1>2. Append(work[r].items, e) \in Items
    BY <1>1, AskedFor, ListOfItems DEF Calls
  <1>3. work' = [work EXCEPT ![r] = c]
    BY <1>1 DEF CallsFit, RecordsEntry
  <1> HIDE DEF e
  <1>4. /\ c \in Calls
        /\ c.step = work[r].step /\ c.want = work[r].want /\ c.items = Append(work[r].items, e)
        /\ c.todo = work[r].todo \ {k}
    BY <1>1, <1>2 DEF Calls
  <1> HIDE DEF c
  <1> QED
    BY <1>3, <1>4 DEF e

(* The types hold at first.                                                *)
LEMMA TInvInit == Init => TInv
  <1> SUFFICES ASSUME Init PROVE TInv
    OBVIOUS
  <1>1. Idle \in Calls /\ Idle.todo = {}
    BY ListOfItems DEF Calls, Idle, StepNames, LooksForGroup
  <1>2. BundlesFit
    BY DEF Init, BundlesFit
  <1>3. GroupsFit
    BY DEF Init, GroupsFit
  <1>4. CallsFit
    BY <1>1, ListOfItems DEF Init, CallsFit, TodoFits
  <1>5. RestFits
    BY PullModeAssumption DEF Init, RestFits
  <1>6. CachedFit
    BY DEF Init, CachedFit
  <1> QED
    BY <1>2, <1>3, <1>4, <1>5, <1>6, Parts

(* A call of a requestor that begins keeps them.                           *)
LEMMA TypedBegin ==
  ASSUME TInv, NEW r \in Requestors, NEW want \in Wants,
         Stage(r, want) \/ Record(r, want)
  PROVE  TInv'
  <1>1. BundlesFit /\ GroupsFit /\ CachedFit /\ CallsFit /\ RestFits
    BY Parts
  <1>2. PICK step \in {"mark", "group"} : Call(r, step, want)
    BY DEF Stage, Record
  <1>3. PICK c \in Calls : /\ work' = [work EXCEPT ![r] = c]
                           /\ c.want = want /\ c.todo = Given(want)
    BY <1>1, <1>2, CallIs DEF StepNames, LooksForGroup
  <1>4. staged' = staged
    BY DEF Stage, Record
  <1>5. CallsFit'
    BY <1>1, <1>3, <1>4, CallTyped DEF Given
  <1>6. BundlesFit' /\ GroupsFit'
    BY <1>1 DEF Stage, Record, BundlesFit, GroupsFit
  <1>7. RestFits'
    BY <1>1 DEF Stage, Record, RestFits
  <1>c. CachedFit'
    BY CachedStays DEF Stage, Record
  <1> QED
    BY <1>5, <1>6, <1>7, <1>c, PartsNext

(* A call that returns early, having changed at most groups or bundles.    *)
LEMMA TypedReturn ==
  ASSUME TInv, NEW r \in Requestors, Return(r), staged' = staged
  PROVE  CallsFit'
  <1>1. CallsFit
    BY Parts
  <1>2. PICK c \in Calls : /\ work' = [work EXCEPT ![r] = c]
                           /\ c.step = "idle" /\ c.want = Nil /\ c.items = <<>> /\ c.todo = {}
    BY <1>1, ReturnIs
  <1> QED
    BY <1>1, <1>2, CallTyped

(* The steps that end a call where it stands.                              *)
LEMMA TypedEnd ==
  ASSUME TInv, NEW r \in Requestors,
         \/ Fail(r) \/ RecoverGroups(r) \/ RecoverBundles(r) \/ Refused(r)
         \/ DeleteConfigurationGroup(r)
  PROVE  TInv'
  <1>1. BundlesFit /\ GroupsFit /\ CachedFit /\ CallsFit /\ RestFits
    BY Parts
  <1>2. CallsFit'
    BY TypedReturn
       DEF Fail, RecoverGroups, RecoverBundles, Refused, DeleteConfigurationGroup, history
  <1>3. BundlesFit'
    <2>1. CASE RecoverBundles(r)
      BY <1>1, <2>1, BundleDeleteTyped DEF RecoverBundles
    <2>2. CASE ~RecoverBundles(r)
      <3>1. bundles' = bundles
        BY <2>2 DEF Fail, RecoverGroups, Refused, DeleteConfigurationGroup
      <3> QED
        BY <1>1, <3>1 DEF BundlesFit
    <2> QED
      BY <2>1, <2>2
  <1>4. GroupsFit'
    <2>1. CASE UNCHANGED <<groups, agent>>
      BY <1>1, <2>1 DEF GroupsFit
    <2>2. CASE RecoverGroups(r)
      BY <1>1, <2>2, DeleteTyped DEF RecoverGroups
    <2>3. CASE DeleteConfigurationGroup(r)
      BY <1>1, <2>1, <2>3, DeleteTyped DEF DeleteConfigurationGroup
    <2> QED
      BY <2>1, <2>2, <2>3 DEF Fail, RecoverBundles, Refused
  <1>5. RestFits'
    <2>1. /\ failures' \in 0..MaxFailures
          /\ torn' = torn \/ torn' = torn \cup {r}
          /\ swept' = swept \/ swept' = swept \ {r} \/ swept' = swept \cup {r}
          /\ UNCHANGED <<applied, pending, committed>>
          /\ misled' \subseteq Requestors
      <3>1. failures' \in 0..MaxFailures
        <4>1. failures \in 0..MaxFailures
          BY <1>1 DEF RestFits
        <4>2. failures' = failures \/ (failures < MaxFailures /\ failures' = failures + 1)
          BY DEF Fail, RecoverGroups, RecoverBundles, Refused, DeleteConfigurationGroup
        <4> QED
          BY <4>1, <4>2, PullModeAssumption
      <3>2. UNCHANGED <<applied, pending, committed>>
        BY DEF Fail, RecoverGroups, RecoverBundles, Refused, DeleteConfigurationGroup, history
      <3>3. torn' = torn \/ torn' = torn \cup {r}
        BY DEF Fail, RecoverGroups, RecoverBundles, Refused, DeleteConfigurationGroup, history
      <3>4. swept' = swept \/ swept' = swept \ {r} \/ swept' = swept \cup {r}
        BY DEF Fail, RecoverGroups, RecoverBundles, Refused, DeleteConfigurationGroup, history
      <3>5. misled' \subseteq Requestors
        <4>1. misled' = misled \/ \E shown : GoBy(r, shown)
          BY DEF Fail, RecoverGroups, RecoverBundles, Refused, DeleteConfigurationGroup, history
        <4> QED
          BY <1>1, <4>1, GoByTyped DEF RestFits
      <3> QED
        BY <3>1, <3>2, <3>3, <3>4, <3>5
    <2> QED
      BY <1>1, <2>1 DEF RestFits
  <1>c. CachedFit'
    BY CachedStays DEF Fail, RecoverGroups, RecoverBundles, Refused, DeleteConfigurationGroup
  <1> QED
    BY <1>2, <1>3, <1>4, <1>5, <1>c, PartsNext

(* deleteStaleConfigurationBundles.                                        *)
LEMMA TypedSweep ==
  ASSUME TInv, NEW r \in Requestors, Sweep(r)
  PROVE  TInv'
  <1>1. BundlesFit /\ GroupsFit /\ CachedFit /\ CallsFit /\ RestFits
    BY Parts
  <1>2. UNCHANGED <<groups, staged, failures, agent, applied, pending, committed, torn>>
    BY DEF Sweep
  <1>3. GroupsFit'
    BY <1>1, <1>2 DEF GroupsFit
  <1>4. BundlesFit'
    <2>1. CASE bundles' = bundles
      BY <1>1, <2>1 DEF BundlesFit
    <2> QED
      BY <1>1, <2>1, BundleDeleteTyped DEF Sweep
  <1>5. CallsFit'
    <2>1. CASE work' = work
      BY <1>1, <1>2, <2>1 DEF CallsFit, TodoFits
    <2>2. CASE Return(r)
      BY <1>2, <2>2, TypedReturn
    <2>3. CASE Goto(r, "delete")
      <3>1. PICK c \in Calls : /\ work' = [work EXCEPT ![r] = c]
                               /\ c.want = work[r].want /\ c.todo = work[r].todo
        BY <1>1, <2>3, GotoIs DEF StepNames, LooksForGroup
      <3> QED
        BY <1>1, <1>2, <3>1, CallTyped DEF CallsFit, TodoFits
    <2> QED
      BY <2>1, <2>2, <2>3 DEF Sweep
  <1>6. RestFits'
    <2>1. swept' = swept \/ swept' = swept \cup {r}
      BY DEF Sweep
    <2>2. misled' = misled \/ \E shown : GoBy(r, shown)
      BY DEF Sweep
    <2>3. misled' \subseteq Requestors
      BY <1>1, <2>2, GoByTyped DEF RestFits
    <2> QED
      BY <1>1, <1>2, <2>1, <2>3 DEF RestFits
  <1>c. CachedFit'
    BY CachedStays DEF Sweep
  <1> QED
    BY <1>3, <1>4, <1>5, <1>6, <1>c, PartsNext

(* The steps that write bundles.                                           *)
LEMMA TypedBundle ==
  ASSUME TInv, NEW r \in Requestors, StageBundle(r) \/ RecordBundle(r)
  PROVE  TInv'
  <1>1. BundlesFit /\ GroupsFit /\ CachedFit /\ CallsFit /\ RestFits
    BY Parts
  <1>2. UNCHANGED <<groups, agent, applied, pending, committed, swept>>
    BY DEF StageBundle, RecordBundle
  <1>3. BundlesFit'
    <2>1. PICK k \in work[r].todo, n \in BundleNames : ReconcileBundle(r, k, n)
      BY DEF StageBundle, RecordBundle
    <2>2. PICK b \in Bundle : bundles' = [bundles EXCEPT ![n] = b]
      BY <1>1, <2>1, OneBundleWritten
    <2> QED
      BY <1>1, <2>2, BundleWriteTyped
  <1>4. GroupsFit'
    BY <1>1, <1>2 DEF GroupsFit
  <1>5. CallsFit'
    <2>1. CASE RecordBundle(r)
      <3>1. PICK k \in work[r].todo, n \in BundleNames : RecordsEntry(r, k, n)
        BY <2>1 DEF RecordBundle, RecordsEntry
      <3>2. PICK c \in Calls : /\ work' = [work EXCEPT ![r] = c]
                               /\ c.want = work[r].want /\ c.todo = work[r].todo \ {k}
        <4>1. \E c \in Calls :
                /\ work' = [work EXCEPT ![r] = c]
                /\ c.step = work[r].step /\ c.want = work[r].want /\ c.todo = work[r].todo \ {k}
                /\ c.items = Append(work[r].items, [name |-> n, hash |-> work[r].want[k]])
          BY <1>1, <3>1, RecordedIs
        <4> QED
          BY <4>1
      <3>3. staged' = staged
        BY <2>1 DEF RecordBundle
      <3> QED
        BY <1>1, <3>2, <3>3, CallTyped DEF CallsFit, TodoFits
    <2>2. CASE StageBundle(r)
      <3>1. PICK k \in work[r].todo, n \in BundleNames :
               \/ StagesOne(r, k, n)
               \/ Return(r) /\ UNCHANGED staged
        BY <2>2, StageBundleIs
      <3>2. CASE Return(r) /\ UNCHANGED staged
        BY <3>2, TypedReturn
      <3>3. CASE StagesOne(r, k, n)
        <4>1. PICK next \in StepNames : StagesEntry(r, k, n, next)
          BY <3>3 DEF StagesOne, StepNames, LooksForGroup
        <4>2. PICK c \in Calls, items \in Items :
                   /\ work' = [work EXCEPT ![r] = c] /\ staged' = [staged EXCEPT ![GeKey(r)] = items]
                   /\ c.want = work[r].want /\ c.todo = work[r].todo \ {k}
          <5>1. CallsFit /\ StagesEntry(r, k, n, next)
            BY <1>1, <4>1
          <5>2. k \in work[r].todo /\ n \in BundleNames /\ next \in StepNames
            BY <3>1, <4>1
          <5>3. \E c \in Calls, items \in Items :
                   /\ work' = [work EXCEPT ![r] = c] /\ staged' = [staged EXCEPT ![GeKey(r)] = items]
                   /\ c.step = next /\ c.want = work[r].want /\ c.items = work[r].items
                   /\ c.todo = work[r].todo \ {k}
                   /\ items = Append(staged[GeKey(r)], [name |-> n, hash |-> work[r].want[k]])
            BY <5>1, <5>2, StagedIs
          <5> QED
            BY <5>3
        <4> QED
          BY <1>1, <4>2, CallTyped DEF CallsFit, TodoFits
      <3> QED
        BY <3>1, <3>2, <3>3
    <2> QED
      BY <2>1, <2>2
  <1>6. RestFits'
    <2>1. failures' \in 0..MaxFailures
      <3>1. failures \in 0..MaxFailures
        BY <1>1 DEF RestFits
      <3>2. failures' = failures \/ (failures < MaxFailures /\ failures' = failures + 1)
        BY DEF StageBundle, RecordBundle
      <3> QED
        BY <3>1, <3>2, PullModeAssumption
    <2>2. torn' = torn \/ torn' = torn \cup {r}
      BY DEF StageBundle, RecordBundle
    <2>3. misled' \subseteq Requestors
      <3>1. \E shown : GoBy(r, shown)
        BY DEF StageBundle, RecordBundle, ReconcileBundle
      <3> QED
        BY <1>1, <3>1, GoByTyped DEF RestFits
    <2> QED
      BY <1>1, <1>2, <2>1, <2>2, <2>3 DEF RestFits
  <1>c. CachedFit'
    BY CachedStays DEF StageBundle, RecordBundle
  <1> QED
    BY <1>3, <1>4, <1>5, <1>6, <1>c, PartsNext

(* The items of a requestor's group are items.                             *)
LEMMA GroupItems ==
  ASSUME GroupsFit, NEW n \in GroupNames, groups[n] # Nil
  PROVE  /\ groups[n].items \in Items /\ groups[n].owner \in Requestors
         /\ groups[n].phase \in {"Ready", "Preparing"} /\ groups[n].action \in {"Deploy", "Remove"}
  BY DEF GroupsFit, Group

(* reconcileConfigurationGroup.                                            *)
LEMMA ReconcileTyped ==
  ASSUME GroupsFit, CachedFit, NEW r \in Requestors, NEW items \in Items, ReconcileGroup(r, items)
  PROVE  GroupsFit' /\ torn' \subseteq torn
  <1>1. CASE CreateGroup(r, "Deploy", items)
    BY <1>1, CreateTyped
  <1>2. CASE CurrentGroup(r) /\ SetSpec(TheGroup(r), "Ready", "Deploy", items)
    <2>1. TheGroup(r) \in GroupNames /\ groups[TheGroup(r)] # Nil
      BY <1>2, CurrentIsOne, TheGroupIs
    <2> QED
      BY <1>2, <2>1, SpecTyped
  <1> QED
    BY <1>1, <1>2 DEF ReconcileGroup

(* markConfigurationGroupAsPreparing.                                      *)
LEMMA TypedMark ==
  ASSUME TInv, NEW r \in Requestors, MarkConfigurationGroupAsPreparing(r)
  PROVE  TInv'
  <1>1. BundlesFit /\ GroupsFit /\ CachedFit /\ CallsFit /\ RestFits
    BY Parts
  <1>2. UNCHANGED <<bundles, staged, failures, applied, pending, committed, swept>>
    BY DEF MarkConfigurationGroupAsPreparing
  <1>3. GroupsFit' /\ torn' \subseteq torn
    <2>1. CASE UNCHANGED <<groups, agent, torn>>
      BY <1>1, <2>1 DEF GroupsFit
    <2>2. CASE CurrentGroup(r) /\ Preparing(TheGroup(r))
      <3>1. TheGroup(r) \in GroupNames /\ groups[TheGroup(r)] # Nil
        BY <1>1, <2>2, CurrentIsOne, TheGroupIs
      <3>2. SetSpec(TheGroup(r), "Preparing", groups[TheGroup(r)].action, groups[TheGroup(r)].items)
        BY <2>2 DEF Preparing
      <3>3. groups[TheGroup(r)].items \in Items /\ groups[TheGroup(r)].action \in {"Deploy", "Remove"}
        BY <1>1, <3>1, GroupItems
      <3> QED
        BY <1>1, <3>1, <3>2, <3>3, SpecTyped
    <2> QED
      BY <2>1, <2>2 DEF MarkConfigurationGroupAsPreparing
  <1>4. BundlesFit'
    BY <1>1, <1>2 DEF BundlesFit
  <1>5. CallsFit'
    <2>1. PICK step \in StepNames : Goto(r, step)
      BY DEF MarkConfigurationGroupAsPreparing, StepNames, LooksForGroup
    <2>2. PICK c \in Calls : /\ work' = [work EXCEPT ![r] = c]
                             /\ c.want = work[r].want /\ c.todo = work[r].todo
      BY <1>1, <2>1, GotoIs
    <2> QED
      BY <1>1, <1>2, <2>2, CallTyped DEF CallsFit, TodoFits
  <1>6. RestFits'
    <2>1. misled' \subseteq Requestors
      BY <1>1, GoByTyped DEF RestFits, MarkConfigurationGroupAsPreparing
    <2> QED
      BY <1>1, <1>2, <1>3, <2>1 DEF RestFits
  <1>c. CachedFit'
    BY CachedStays DEF MarkConfigurationGroupAsPreparing
  <1> QED
    BY <1>3, <1>4, <1>5, <1>6, <1>c, PartsNext

(* A call that goes over to its clean up.                                  *)
LEMMA TypedSweeping ==
  ASSUME CallsFit, NEW r \in Requestors, NEW step \in {"sweep", "terminate"}, NEW items \in Items,
         Sweeping(r, step, items), staged' = staged \/ staged' = Cleared(r)
  PROVE  CallsFit'
  <1>1. PICK c \in Calls : /\ work' = [work EXCEPT ![r] = c]
                           /\ c.want = Nil /\ c.todo = {}
    BY SweepingIs DEF StepNames
  <1>2. staged' = staged \/ \E list \in Items : staged' = [staged EXCEPT ![GeKey(r)] = list]
    BY ListOfItems DEF Cleared
  <1> QED
    BY <1>1, <1>2, CallTyped

(* What a call that makes something available keeps.                       *)
LEMMA TypedCommit ==
  ASSUME TInv, NEW r \in Requestors,
         CommitStagedResources(r) \/ RecordGroup(r)
  PROVE  TInv'
  <1>1. BundlesFit /\ GroupsFit /\ CachedFit /\ CallsFit /\ RestFits
    BY Parts
  <1>2. UNCHANGED <<bundles, cached, applied, swept>>
    BY DEF CommitStagedResources, RecordGroup
  <1>3. PICK items \in Items : /\ ReconcileGroup(r, items)
                               /\ Sweeping(r, "sweep", items) \/ (Return(r) /\ staged' = staged)
                               /\ staged' = staged \/ staged' = Cleared(r)
    <2>1. work[r].items \in Items /\ staged[GeKey(r)] \in Items
      BY <1>1, KeyIn DEF CallsFit, Calls
    <2> QED
      BY <2>1 DEF CommitStagedResources, RecordGroup
  <1>4. GroupsFit' /\ torn' \subseteq torn
    BY <1>1, <1>3, ReconcileTyped
  <1>5. CallsFit'
    BY <1>1, <1>3, TypedSweeping, TypedReturn
  <1>6. BundlesFit'
    BY <1>1, <1>2 DEF BundlesFit
  <1>7. RestFits'
    <2>1. committed' = [committed EXCEPT ![r] = work[r].want] /\ work[r].want \in Wants \cup {Nil}
      BY <1>1 DEF CommitStagedResources, RecordGroup, CallsFit, Calls
    <2>2. pending' \subseteq pending
      BY DEF CommitStagedResources, RecordGroup
    <2>3. misled' \subseteq Requestors
      BY <1>1, <1>3, GoByTyped DEF RestFits, ReconcileGroup
    <2>4. failures' \in 0..MaxFailures
      <3>1. failures \in 0..MaxFailures
        BY <1>1 DEF RestFits
      <3>2. failures' = failures \/ (failures < MaxFailures /\ failures' = failures + 1)
        BY DEF CommitStagedResources, RecordGroup
      <3> QED
        BY <3>1, <3>2, PullModeAssumption
    <2> QED
      BY <1>1, <1>2, <1>4, <2>1, <2>2, <2>3, <2>4 DEF RestFits
  <1>c. CachedFit'
    BY CachedStays DEF CommitStagedResources, RecordGroup
  <1> QED
    BY <1>4, <1>5, <1>6, <1>7, <1>c, PartsNext

(* DiscardStagedResources and TerminateDeploymentTracking.                 *)
LEMMA TypedDiscard ==
  ASSUME TInv, NEW r \in Requestors,
         DiscardStagedResources(r) \/ TerminateDeploymentTracking(r)
  PROVE  TInv'
  <1>1. BundlesFit /\ GroupsFit /\ CachedFit /\ CallsFit /\ RestFits
    BY Parts
  <1>2. UNCHANGED <<bundles, groups, failures, agent, applied, torn>>
    BY DEF DiscardStagedResources, TerminateDeploymentTracking
  <1>3. BundlesFit' /\ GroupsFit'
    BY <1>1, <1>2 DEF BundlesFit, GroupsFit
  <1>4. PICK step \in {"sweep", "terminate"}, items \in Items :
           Sweeping(r, step, items) /\ (staged' = staged \/ staged' = Cleared(r))
    <2>1. CASE DiscardStagedResources(r) /\ OneGroup(r)
      <3>1. cached[TheGroup(r)].items \in Items
        BY <1>1, <2>1, TheGroupIs DEF CachedFit, Group
      <3>2. OneGroup(r) => ~NoGroup(r)
        BY OneIsSome DEF NoGroup
      <3> QED
        BY <2>1, <3>1, <3>2 DEF DiscardStagedResources
    <2> QED
      BY <2>1, ListOfItems DEF DiscardStagedResources, TerminateDeploymentTracking
  <1>5. CallsFit'
    BY <1>1, <1>4, TypedSweeping
  <1>6. RestFits'
    <2>1. committed' = committed \/ committed' = [committed EXCEPT ![r] = Nil]
      BY DEF DiscardStagedResources, TerminateDeploymentTracking
    <2>2. pending' \subseteq pending /\ swept' \subseteq swept
      BY DEF DiscardStagedResources, TerminateDeploymentTracking
    <2>3. misled' = misled \/ GoBy(r, ItemsShown(r))
      BY DEF DiscardStagedResources, TerminateDeploymentTracking
    <2>4. misled' \subseteq Requestors
      BY <1>1, <2>3, GoByTyped DEF RestFits
    <2> QED
      BY <1>1, <1>2, <2>1, <2>2, <2>4 DEF RestFits
  <1>c. CachedFit'
    BY CachedStays DEF DiscardStagedResources, TerminateDeploymentTracking
  <1> QED
    BY <1>3, <1>5, <1>6, <1>c, PartsNext

(* RemoveDeployedResources.                                                *)
LEMMA TypedRemove ==
  ASSUME TInv, NEW r \in Requestors, RemoveDeployedResources(r)
  PROVE  TInv'
  <1>1. BundlesFit /\ GroupsFit /\ CachedFit /\ CallsFit /\ RestFits
    BY Parts
  <1>2. UNCHANGED <<bundles, staged, failures, applied, pending>>
    BY DEF RemoveDeployedResources
  <1>3. GroupsFit' /\ torn' \subseteq torn
    <2>1. CASE CreateGroup(r, "Remove", <<>>)
      BY <1>1, <2>1, CreateTyped, ListOfItems
    <2>2. CASE CurrentGroup(r) /\ SetSpec(TheGroup(r), "Ready", "Remove", <<>>)
      <3>1. TheGroup(r) \in GroupNames /\ groups[TheGroup(r)] # Nil
        BY <1>1, <2>2, CurrentIsOne, TheGroupIs
      <3> QED
        BY <1>1, <2>2, <3>1, SpecTyped, ListOfItems
    <2> QED
      BY <2>1, <2>2 DEF RemoveDeployedResources
  <1>4. BundlesFit'
    BY <1>1, <1>2 DEF BundlesFit
  <1>5. CallsFit'
    <2>1. Sweeping(r, "sweep", <<>>) /\ staged' = staged
      BY DEF RemoveDeployedResources
    <2> QED
      BY <1>1, <2>1, ListOfItems, TypedSweeping
  <1>6. RestFits'
    <2>1. committed' = [committed EXCEPT ![r] = Nil] /\ swept' = swept \ {r}
      BY DEF RemoveDeployedResources
    <2>2. misled' \subseteq Requestors
      BY <1>1, GoByTyped DEF RestFits, RemoveDeployedResources
    <2> QED
      BY <1>1, <1>2, <1>3, <2>1, <2>2 DEF RestFits
  <1>c. CachedFit'
    BY CachedStays DEF RemoveDeployedResources
  <1> QED
    BY <1>3, <1>4, <1>5, <1>6, <1>c, PartsNext

(* The restart of the process.                                             *)
LEMMA TypedRestart ==
  ASSUME TInv, Restart
  PROVE  TInv'
  <1>1. BundlesFit /\ GroupsFit /\ CachedFit /\ CallsFit /\ RestFits
    BY Parts
  <1>2. BundlesFit' /\ GroupsFit'
    BY <1>1 DEF Restart, BundlesFit, GroupsFit
  <1>3. CallsFit'
    <2>1. Idle \in Calls /\ Idle.todo = {}
      BY ListOfItems DEF Calls, Idle, StepNames, LooksForGroup
    <2> QED
      BY <2>1, ListOfItems DEF Restart, CallsFit, TodoFits
  <1>4. RestFits'
    <2>1. failures' \in 0..MaxFailures
      BY <1>1, PullModeAssumption DEF Restart, RestFits
    <2> QED
      BY <1>1, <2>1 DEF Restart, RestFits
  <1>c. CachedFit'
    BY CachedStays DEF Restart
  <1> QED
    BY <1>2, <1>3, <1>4, <1>c, PartsNext

(* The names of a list are names of bundles.                               *)
LEMMA NamesIn ==
  ASSUME NEW items \in Items, NEW i \in DOMAIN items
  PROVE  items[i] \in [name : BundleNames, hash : Contents] /\ items[i].name \in BundleNames
  <1> DEFINE S == [name : BundleNames, hash : Contents]
  <1>1. ASSUME NEW T, NEW q \in Seq(T), NEW j \in DOMAIN q PROVE q[j] \in T
    OBVIOUS
  <1>2. items \in Seq(S)
    BY DEF Items
  <1>3. items[i] \in S
    BY <1>1, <1>2
  <1> QED
    BY <1>3

(* The agent fetches the version of the group as it is now.                *)
LEMMA FetchIs ==
  ASSUME GroupsFit, NEW n \in GroupNames, AgentFetch(n)
  PROVE  \E h \in Group, v \in Version :
           /\ groups[n] # Nil /\ agent[n] = Nil
           /\ groups' = [groups EXCEPT ![n] = h] /\ agent' = [agent EXCEPT ![n] = v]
           /\ h.owner = groups[n].owner /\ h.deleting = groups[n].deleting
           /\ h.finalizer /\ h.status = groups[n].status /\ h.phase = groups[n].phase
           /\ h.action = groups[n].action /\ h.items = groups[n].items /\ h.observed = groups[n].observed
           /\ v.action = groups[n].action /\ v.items = groups[n].items /\ v.deleting = groups[n].deleting
  <1> DEFINE h == [groups[n] EXCEPT !.finalizer = TRUE]
             v == [action |-> groups[n].action, items |-> groups[n].items,
                   deleting |-> groups[n].deleting, current |-> TRUE]
  <1>1. groups[n] # Nil /\ agent[n] = Nil /\ groups[n] \in Group
    BY DEF AgentFetch, GroupsFit
  <1>2. groups' = [groups EXCEPT ![n] = h] /\ agent' = [agent EXCEPT ![n] = v]
    BY <1>1 DEF AgentFetch, GroupsFit
  <1>3. /\ h \in Group
        /\ h.owner = groups[n].owner /\ h.deleting = groups[n].deleting
        /\ h.finalizer /\ h.status = groups[n].status /\ h.phase = groups[n].phase
        /\ h.action = groups[n].action /\ h.items = groups[n].items /\ h.observed = groups[n].observed
    BY <1>1 DEF Group
  <1>4. /\ v \in Version
        /\ v.action = groups[n].action /\ v.items = groups[n].items /\ v.deleting = groups[n].deleting
    BY <1>1 DEF Group, Version
  <1> HIDE DEF h, v
  <1> QED
    BY <1>1, <1>2, <1>3, <1>4

(* What the agent writes when it has processed a version.                  *)
LEMMA ReportIs ==
  ASSUME GroupsFit, NEW n \in GroupNames, agent[n] # Nil,
         NEW status \in {"None", "Provisioned", "Failed", "Removed"}, AgentReport(n, status)
  PROVE  \E h \in Group :
           /\ groups' = [groups EXCEPT ![n] = h] /\ agent' = [agent EXCEPT ![n] = Nil]
           /\ h.owner = groups[n].owner /\ h.deleting = groups[n].deleting
           /\ h.finalizer = groups[n].finalizer /\ h.status = status /\ h.phase = groups[n].phase
           /\ h.action = groups[n].action /\ h.items = groups[n].items
           /\ h.observed = agent[n].current
  <1> DEFINE h == [groups[n] EXCEPT !.status = status, !.observed = agent[n].current]
  <1>1. groups[n] \in Group /\ agent[n] \in Version
    BY DEF GroupsFit
  <1>2. agent[n].current \in BOOLEAN
    BY <1>1 DEF Version
  <1>3. groups' = [groups EXCEPT ![n] = h] /\ agent' = [agent EXCEPT ![n] = Nil]
    BY <1>1 DEF AgentReport, GroupsFit
  <1>4. /\ h \in Group
        /\ h.owner = groups[n].owner /\ h.deleting = groups[n].deleting
        /\ h.finalizer = groups[n].finalizer /\ h.status = status /\ h.phase = groups[n].phase
        /\ h.action = groups[n].action /\ h.items = groups[n].items
        /\ h.observed = agent[n].current
    BY <1>1, <1>2 DEF Group
  <1> HIDE DEF h
  <1> QED
    BY <1>3, <1>4

(* The four ways to process a version.                                     *)
Cleans(n) == /\ agent[n].deleting
             /\ applied' = [applied EXCEPT ![groups[n].owner] = {}]
             /\ groups' = [groups EXCEPT ![n] = Nil]
             /\ agent' = [agent EXCEPT ![n] = Nil]
Removes(n) == /\ applied' = [applied EXCEPT ![groups[n].owner] = {}]
              /\ AgentReport(n, "Removed")
Deploys(n) == /\ ~agent[n].deleting /\ agent[n].action = "Deploy"
              /\ \A b \in Names(agent[n].items) : bundles[b] # Nil
              /\ applied' = [applied EXCEPT ![groups[n].owner] = ContentOf(bundles, agent[n].items)]
              /\ AgentReport(n, "Provisioned")
Misses(n) == AgentReport(n, "Failed") /\ UNCHANGED applied

(* There is no fifth.                                                      *)
LEMMA ProcessIs ==
  ASSUME NEW n, AgentProcess(n)
  PROVE  /\ agent[n] # Nil
         /\ Cleans(n) \/ Removes(n) \/ Deploys(n) \/ Misses(n)
         /\ UNCHANGED <<bundles, staged, work, failures, history>>
  <1>1. agent[n] # Nil /\ UNCHANGED <<bundles, staged, work, failures, history>>
    BY DEF AgentProcess
  <1>2. \/ /\ agent[n].deleting
           /\ applied' = [applied EXCEPT ![groups[n].owner] = {}]
           /\ groups' = [groups EXCEPT ![n] = Nil]
           /\ agent' = [agent EXCEPT ![n] = Nil]
        \/ /\ applied' = [applied EXCEPT ![groups[n].owner] = {}]
           /\ AgentReport(n, "Removed")
        \/ /\ ~agent[n].deleting /\ agent[n].action = "Deploy"
           /\ \A b \in Names(agent[n].items) : bundles[b] # Nil
           /\ applied' = [applied EXCEPT ![groups[n].owner] =
                            {<<bundles[b].index, bundles[b].content>> : b \in Names(agent[n].items)}]
           /\ AgentReport(n, "Provisioned")
        \/ AgentReport(n, "Failed") /\ UNCHANGED applied
    BY Zenon DEF AgentProcess
  <1> QED
    BY <1>1, <1>2, Zenon DEF Cleans, Removes, Deploys, Misses, ContentOf

(* The agent.                                                              *)
LEMMA TypedAgent ==
  ASSUME TInv, NEW n \in GroupNames, AgentFetch(n) \/ AgentProcess(n)
  PROVE  TInv'
  <1>1. BundlesFit /\ GroupsFit /\ CachedFit /\ CallsFit /\ RestFits
    BY Parts
  <1>2. UNCHANGED <<bundles, staged, work, failures, pending, committed, torn, swept, misled>>
    BY ProcessIs DEF AgentFetch, history
  <1>3. BundlesFit' /\ CallsFit'
    BY <1>1, <1>2 DEF BundlesFit, CallsFit, TodoFits
  <1>4. ASSUME agent[n] # Nil
        PROVE  /\ groups[n] # Nil /\ groups[n].owner \in Requestors
               /\ ContentOf(bundles, agent[n].items) \subseteq Indexes \X Contents
                  \/ ~ \A b \in Names(agent[n].items) : bundles[b] # Nil
    <2>1. agent[n] \in Version /\ groups[n] \in Group /\ groups[n] # Nil
      BY <1>1, <1>4 DEF GroupsFit
    <2>2. agent[n].items \in Items /\ groups[n].owner \in Requestors
      BY <2>1 DEF Version, Group
    <2>3. Names(agent[n].items) \subseteq BundleNames
      BY <2>2, NamesIn DEF Names
    <2>4. \A b \in BundleNames : bundles[b] # Nil =>
            bundles[b].index \in Indexes /\ bundles[b].content \in Contents
      BY <1>1 DEF BundlesFit, Bundle
    <2> QED
      BY <2>1, <2>2, <2>3, <2>4 DEF ContentOf
  <1>5. RestFits'
    <2>1. applied' \in [Requestors -> SUBSET (Indexes \X Contents)]
      <3>1. CASE UNCHANGED applied
        BY <1>1, <3>1 DEF RestFits
      <3>2. CASE AgentProcess(n)
        <4>1. agent[n] # Nil
          BY <3>2, ProcessIs
        <4> QED
          BY <1>1, <1>4, <3>1, <3>2, <4>1, ProcessIs DEF RestFits, Cleans, Removes, Deploys, Misses
      <3> QED
        BY <3>1, <3>2 DEF AgentFetch
    <2> QED
      BY <1>1, <1>2, <2>1 DEF RestFits
  <1>6. GroupsFit'
    <2>1. CASE AgentFetch(n)
      <3>1. PICK h \in Group, v \in Version :
               /\ groups' = [groups EXCEPT ![n] = h] /\ agent' = [agent EXCEPT ![n] = v]
               /\ h.finalizer
        BY <1>1, <2>1, FetchIs
      <3>2. h # Nil
        BY PullModeAssumption
      <3> QED
        BY <1>1, <3>1, <3>2 DEF GroupsFit
    <2>2. CASE Cleans(n)
      BY <1>1, <2>2 DEF GroupsFit, Cleans
    <2>3. CASE AgentProcess(n) /\ ~Cleans(n)
      <3>1. agent[n] # Nil
        BY <2>3, ProcessIs
      <3>2. PICK status \in {"None", "Provisioned", "Failed", "Removed"} : AgentReport(n, status)
        BY <2>3, ProcessIs DEF Removes, Deploys, Misses
      <3>3. PICK h \in Group :
               groups' = [groups EXCEPT ![n] = h] /\ agent' = [agent EXCEPT ![n] = Nil]
        BY <1>1, <3>1, <3>2, ReportIs
      <3>4. h # Nil
        BY PullModeAssumption
      <3> QED
        BY <1>1, <3>3, <3>4 DEF GroupsFit
    <2> QED
      BY <2>1, <2>2, <2>3
  <1>c. CachedFit'
    BY CachedStays DEF AgentFetch, AgentProcess
  <1> QED
    BY <1>3, <1>5, <1>6, <1>c, PartsNext

(* The cache catches up.                                                   *)
LEMMA TypedSync ==
  ASSUME TInv, Sync
  PROVE  TInv'
  <1>1. BundlesFit /\ GroupsFit /\ CachedFit /\ CallsFit /\ RestFits
    BY Parts
  <1>2. UNCHANGED <<groups, staged, work, failures, agent, applied, history>>
    BY DEF Sync
  <1>3. GroupsFit' /\ CallsFit' /\ RestFits'
    BY <1>1, <1>2 DEF GroupsFit, CallsFit, TodoFits, RestFits, history
  <1>4. BundlesFit' /\ CachedFit'
    <2>1. CASE \E n \in BundleNames : /\ bundles[n] # Nil /\ bundles' = [bundles EXCEPT ![n].seen = TRUE]
                                      /\ UNCHANGED cached
      <3>1. PICK n \in BundleNames : /\ bundles[n] # Nil /\ bundles' = [bundles EXCEPT ![n].seen = TRUE]
                                     /\ UNCHANGED cached
        BY <2>1
      <3> DEFINE b == [bundles[n] EXCEPT !.seen = TRUE]
      <3>2. bundles[n] \in Bundle
        BY <1>1, <3>1 DEF BundlesFit
      <3>3. b \in Bundle
        BY <3>2 DEF Bundle
      <3>4. bundles' = [bundles EXCEPT ![n] = b]
        BY <1>1, <3>1 DEF BundlesFit
      <3> HIDE DEF b
      <3>5. BundlesFit'
        BY <1>1, <3>3, <3>4, BundleWriteTyped
      <3> QED
        BY <3>1, <3>5, CachedStays
    <2>2. CASE cached' = groups /\ UNCHANGED bundles
      BY <1>1, <2>2 DEF BundlesFit, CachedFit, GroupsFit
    <2> QED
      BY <2>1, <2>2 DEF Sync
  <1> QED
    BY <1>3, <1>4, PartsNext

(* Every step keeps the types.                                             *)
LEMMA TInvNext == TInv /\ [Next]_vars => TInv'
  <1> SUFFICES ASSUME TInv, [Next]_vars PROVE TInv'
    OBVIOUS
  <1>1. CASE UNCHANGED vars
    BY <1>1 DEF vars, history, TInv, TypeOK, Finalized, TodoFits
  <1>2. ASSUME NEW r \in Requestors, NEW want \in Wants, Stage(r, want) \/ Record(r, want)
        PROVE  TInv'
    BY <1>2, TypedBegin
  <1>3. ASSUME NEW r \in Requestors,
               \/ DiscardStagedResources(r) \/ RemoveDeployedResources(r)
               \/ TerminateDeploymentTracking(r) \/ RecoverGroups(r) \/ Steps(r) \/ Fail(r)
        PROVE  TInv'
    BY <1>3, TypedDiscard, TypedRemove, TypedEnd, TypedSweep, TypedMark, TypedBundle, TypedCommit
       DEF Steps
  <1>4. ASSUME NEW n \in GroupNames, AgentFetch(n) \/ AgentProcess(n)
        PROVE  TInv'
    BY <1>4, TypedAgent
  <1> QED
    BY <1>1, <1>2, <1>3, <1>4, TypedSync, TypedRestart DEF Next

(* The state has its type, and the agent's versions are of groups that are *)
(* still there: no requestor can delete a group under the agent, whose     *)
(* finalizer holds it (deleteConfigurationGroup, apis.go).                 *)
THEOREM TypeCorrect == Spec => []TypeOK
  <1>1. Spec => []TInv
    BY TInvInit, TInvNext, PTL DEF Spec
  <1>2. TInv => TypeOK
    BY DEF TInv
  <1> QED
    BY <1>1, <1>2, PTL

-----------------------------------------------------------------------------
(* What a step of one requestor leaves to the others *)

(* Bundles and groups that change are, and become, those of r; a bundle    *)
(* that appears has a name that no list had.  The staging area that        *)
(* changes is the one of the key of r.                                     *)
BundleStep(r) ==
  \A b \in BundleNames :
    \/ bundles'[b] = bundles[b]
    \/ /\ bundles[b] # Nil => bundles[b].owner = r
       /\ bundles[b] = Nil => b \notin Remembered
       /\ bundles'[b] # Nil => bundles'[b].owner = r
GroupStep(r) ==
  \A n \in GroupNames :
    \/ groups'[n] = groups[n] /\ agent'[n] = agent[n]
    \/ /\ groups[n] # Nil => groups[n].owner = r
       /\ groups'[n] # Nil => groups'[n].owner = r
CallStep(r) ==
  \A s \in Requestors : s # r =>
    /\ work'[s] = work[s] /\ (GeKey(s) # GeKey(r) => staged'[GeKey(s)] = staged[GeKey(s)])
    /\ applied'[s] = applied[s] /\ committed'[s] = committed[s]
    /\ (s \in pending' <=> s \in pending) /\ (s \in torn' <=> s \in torn)
    /\ (s \in swept' <=> s \in swept) /\ (s \in misled' <=> s \in misled)
StepOf(r) == BundleStep(r) /\ GroupStep(r) /\ CallStep(r) /\ misled \subseteq misled'

(* The names in the lists are remembered.                                  *)
LEMMA ListsRemembered ==
  ASSUME NEW b
  PROVE  /\ \A r \in Requestors : b \in Names(staged[GeKey(r)]) => b \in Remembered
         /\ \A r \in Requestors : b \in Names(work[r].items) => b \in Remembered
         /\ \A n \in GroupNames : groups[n] # Nil /\ b \in Names(groups[n].items) => b \in Remembered
  <1>1. \A r \in Requestors : b \in Names(staged[GeKey(r)]) => b \in Remembered
    BY KeyIn DEF Remembered
  <1>2. \A r \in Requestors : b \in Names(work[r].items) => b \in Remembered
    BY DEF Remembered
  <1>3. \A n \in GroupNames : groups[n] # Nil /\ b \in Names(groups[n].items) => b \in Remembered
    BY DEF Remembered
  <1> QED
    BY <1>1, <1>2, <1>3

(* All lists are of names of bundles.                                      *)
LEMMA ListsIn ==
  ASSUME TInv, NEW r \in Requestors
  PROVE  /\ Names(staged[GeKey(r)]) \subseteq BundleNames
         /\ Names(work[r].items) \subseteq BundleNames
         /\ \A n \in GroupNames : groups[n] # Nil => Names(groups[n].items) \subseteq BundleNames
  <1>1. \A items \in Items : Names(items) \subseteq BundleNames
    BY NamesIn DEF Names
  <1>2. GroupsFit /\ CallsFit
    BY Parts
  <1>3. staged[GeKey(r)] \in Items /\ work[r].items \in Items
    BY <1>2, KeyIn DEF CallsFit, Calls
  <1>4. \A n \in GroupNames : groups[n] # Nil => groups[n].items \in Items
    BY <1>2, GroupItems
  <1> QED
    BY <1>1, <1>3, <1>4

(* A list of bundles that do not change says the same as before.           *)
LEMMA SameList ==
  ASSUME NEW old, NEW new, NEW r, NEW items, \A b \in Names(items) : new[b] = old[b]
  PROVE  /\ Listed(old, r, items) => Listed(new, r, items)
         /\ ContentOf(new, items) = ContentOf(old, items)
  BY DEF Listed, ContentOf, Names

(* What is listed for r is r's.                                            *)
LEMMA ListedAreOwned ==
  ASSUME NEW store, NEW r, NEW items, Listed(store, r, items), NEW b \in Names(items)
  PROVE  store[b] # Nil /\ store[b].owner = r
  BY DEF Listed, Names

(* The invariant of a requestor that does not move and has a key to itself. *)
LEMMA Others ==
  ASSUME TInv, TInv', NEW r \in Requestors, NEW s \in Requestors, s # r, RInv(s), Alone(s),
         StepOf(r)
  PROVE  RInv(s)'
  <1>1. /\ DOMAIN bundles = BundleNames /\ DOMAIN groups = GroupNames
        /\ DOMAIN bundles' = BundleNames /\ DOMAIN groups' = GroupNames
    BY DEF TInv, TypeOK
  <1>2. /\ Owned(groups', s) = Owned(groups, s)
        /\ \A n \in Owned(groups, s) : /\ n \in GroupNames /\ groups[n] # Nil /\ groups[n].owner = s
                                       /\ groups'[n] = groups[n] /\ agent'[n] = agent[n]
    <2>1. \A n \in Owned(groups, s) : /\ n \in GroupNames /\ groups[n] # Nil /\ groups[n].owner = s
                                      /\ groups'[n] = groups[n] /\ agent'[n] = agent[n]
      BY <1>1 DEF Owned, StepOf, GroupStep
    <2>2. \A n \in Owned(groups', s) : n \in Owned(groups, s)
      BY <1>1 DEF Owned, StepOf, GroupStep
    <2>3. \A n \in Owned(groups, s) : n \in Owned(groups', s)
      BY <1>1, <2>1 DEF Owned
    <2> QED
      BY <2>1, <2>2, <2>3
  <1>3. /\ Owned(bundles', s) = Owned(bundles, s)
        /\ \A b \in Owned(bundles, s) : b \in BundleNames /\ bundles'[b] = bundles[b]
    <2>1. \A b \in Owned(bundles, s) : b \in BundleNames /\ bundles'[b] = bundles[b]
      BY <1>1 DEF Owned, StepOf, BundleStep
    <2>2. \A b \in Owned(bundles', s) : b \in Owned(bundles, s)
      BY <1>1 DEF Owned, StepOf, BundleStep
    <2>3. \A b \in Owned(bundles, s) : b \in Owned(bundles', s)
      BY <1>1, <2>1 DEF Owned
    <2> QED
      BY <2>1, <2>2, <2>3
  <1>4. /\ work'[s] = work[s] /\ staged'[GeKey(s)] = staged[GeKey(s)]
        /\ applied'[s] = applied[s] /\ committed'[s] = committed[s]
        /\ (s \in pending' <=> s \in pending) /\ (s \in torn' <=> s \in torn)
        /\ (s \in swept' <=> s \in swept)
    BY DEF StepOf, CallStep, Alone
  <1>5. \A b \in BundleNames :
           /\ bundles[b] = Nil /\ b \in Remembered => bundles'[b] = Nil
           /\ bundles[b] # Nil /\ bundles[b].owner = s => bundles'[b] = bundles[b]
    BY DEF StepOf, BundleStep
  <1>6. \A n \in Owned(groups, s) : Available(n)' <=> Available(n)
    BY <1>2 DEF Available
  <1>7. ASSUME NEW items, Names(items) \subseteq BundleNames, Listed(bundles, s, items)
        PROVE  Listed(bundles', s, items) /\ ContentOf(bundles', items) = ContentOf(bundles, items)
    <2>1. \A b \in Names(items) : bundles'[b] = bundles[b]
      BY <1>5, <1>7, ListedAreOwned
    <2> QED
      BY <1>7, <2>1, SameList
  <1>8. OneEach(s)'
    BY <1>2, <1>3 DEF RInv, OneEach
  <1>9. Mine(s)'
    <2>1. \A b \in Names(staged[GeKey(s)]) : b \in BundleNames /\ b \in Remembered
      BY ListsIn, ListsRemembered
    <2>2. \A b \in Names(work[s].items) : b \in BundleNames /\ b \in Remembered
      BY ListsIn, ListsRemembered
    <2>3. \A n \in Owned(groups, s) : \A b \in Names(groups[n].items) : b \in BundleNames /\ b \in Remembered
      BY <1>2, ListsIn, ListsRemembered
    <2> QED
      BY <1>2, <1>4, <1>5, <2>1, <2>2, <2>3 DEF RInv, Mine
  <1>10. StagingFits(s)'
    BY <1>2, <1>4, <1>7, ListsIn DEF RInv, StagingFits, Asked
  <1>11. RecordFits(s)'
    BY <1>4, <1>7, ListsIn DEF RInv, RecordFits, Asked
  <1>12. SweepFits(s)'
    <2>1. \A b \in Names(work[s].items) : b \in BundleNames /\ b \in Remembered
      BY ListsIn, ListsRemembered
    <2> QED
      BY <1>2, <1>4, <1>5, <1>6, <2>1 DEF RInv, SweepFits
  <1>13. EndFits(s)'
    BY <1>3, <1>4 DEF RInv, EndFits
  <1>14. SweptFits(s)'
    BY <1>2, <1>3, <1>4 DEF RInv, SweptFits
  <1>15. GroupFits(s)'
    <2> SUFFICES ASSUME NEW n \in Owned(groups, s)
                 PROVE  /\ Available(n) /\ committed[s] # Nil /\ s \notin torn =>
                             /\ Listed(bundles', s, groups[n].items)
                             /\ ContentOf(bundles', groups[n].items) = Pairs(committed[s])
                        /\ Available(n) /\ s \notin torn => Kept(bundles', groups[n].items)
                        /\ groups[n].deleting => \A b \in Names(groups[n].items) : bundles'[b] = Nil
      BY <1>2, <1>4, <1>6 DEF GroupFits
    <2>1. Names(groups[n].items) \subseteq BundleNames
      BY <1>2, ListsIn
    <2>2. \A b \in Names(groups[n].items) : b \in Remembered
      BY <1>2, ListsRemembered
    <2>3. Mine(s) /\ \A b \in Names(groups[n].items) : bundles[b] # Nil => bundles[b].owner = s
      BY DEF RInv, Mine
    <2>4. \A b \in Names(groups[n].items) : bundles'[b] = bundles[b]
      BY <1>5, <2>1, <2>2, <2>3
    <2>5. Kept(bundles, groups[n].items) => Kept(bundles', groups[n].items)
      BY <2>4 DEF Kept, Names
    <2> QED
      BY <1>5, <1>7, <2>1, <2>2, <2>5 DEF RInv, GroupFits
  <1>16. ReportFits(s)'
    BY <1>2, <1>4, <1>6 DEF RInv, ReportFits
  <1> QED
    BY <1>8, <1>9, <1>10, <1>11, <1>12, <1>13, <1>14, <1>15, <1>16 DEF RInv

(* The invariant of all, from that of the one that moves.                  *)
LEMMA Stepped ==
  ASSUME TInv, TInv', RInvs, NEW r \in Requestors, StepOf(r),
         RInv(r) /\ Alone(r) /\ r \notin misled' => RInv(r)'
  PROVE  RInvs'
  <1> SUFFICES ASSUME NEW s \in Requestors, Alone(s), s \notin misled' PROVE RInv(s)'
    BY DEF RInvs, Sound, Alone, GeKey
  <1>1. RInv(s)
    BY DEF RInvs, Sound, StepOf
  <1>2. CASE s = r
    BY <1>1, <1>2
  <1>3. CASE s # r
    BY <1>1, <1>3, Others
  <1> QED
    BY <1>2, <1>3

-----------------------------------------------------------------------------
(* Every step of a requestor, sound or not, leaves the others alone. *)

(* Who goes by what it sees misleads no one but itself.                    *)
LEMMA GoByStep ==
  ASSUME NEW r, NEW shown, GoBy(r, shown)
  PROVE  /\ misled \subseteq misled'
         /\ \A s : s # r => (s \in misled' <=> s \in misled)
         /\ r \notin misled' => shown
  BY DEF GoBy

(* A bundle that is written is r's or has a name nobody refers to.         *)
LEMMA WriteStep ==
  ASSUME TInv, NEW r \in Requestors, NEW k \in work[r].todo, NEW n \in BundleNames,
         ReconcileBundle(r, k, n)
  PROVE  /\ BundleStep(r) /\ misled \subseteq misled'
         /\ \A s : s # r => (s \in misled' <=> s \in misled)
         /\ r \notin misled' => BundleShown(r, k)
  <1>1. BundlesFit /\ CallsFit
    BY Parts
  <1>2. PICK b \in Bundle :
           /\ bundles' = [bundles EXCEPT ![n] = b]
           /\ b.owner = r
           /\ SeenAt(r, k) = {n} \/ (SeenAt(r, k) = {} /\ n \in FreeBundles)
    BY <1>1, OneBundleWritten
  <1>3. /\ bundles'[n] = b /\ \A a \in BundleNames : a # n => bundles'[a] = bundles[a]
    BY <1>1, <1>2 DEF BundlesFit
  <1>4. \/ bundles[n] # Nil /\ bundles[n].owner = r
        \/ bundles[n] = Nil /\ n \notin Remembered
    BY <1>2 DEF FreeBundles, SeenAt, Seen, Owned
  <1>5. BundleStep(r)
    BY <1>2, <1>3, <1>4 DEF BundleStep
  <1> QED
    BY <1>5, GoByStep DEF ReconcileBundle

(* The bundles r deletes are its own.                                      *)
LEMMA DeleteStep ==
  ASSUME TInv, NEW r \in Requestors, NEW ns, ns \subseteq Owned(bundles, r), DeleteBundles(ns)
  PROVE  BundleStep(r)
  <1>1. \A n \in BundleNames : bundles'[n] = IF n \in ns THEN Nil ELSE bundles[n]
    BY DEF DeleteBundles
  <1> QED
    BY <1>1 DEF BundleStep, Owned

(* So are the groups, those that are still there.                          *)
LEMMA DeleteGroupsStep ==
  ASSUME TInv, SameGroup, NEW r \in Requestors, NEW ns, ns \subseteq Shown(r), DeleteGroups(ns), UNCHANGED agent
  PROVE  GroupStep(r)
  <1>1. \A n \in GroupNames : groups'[n] = IF n \in ns THEN AfterDelete(groups[n]) ELSE groups[n]
    BY DEF DeleteGroups
  <1>2. ASSUME NEW n \in ns
        PROVE  /\ groups[n] # Nil => groups[n].owner = r
               /\ AfterDelete(groups[n]) # Nil => AfterDelete(groups[n]).owner = r
    <2>1. n \in GroupNames /\ cached[n] # Nil /\ cached[n].owner = r
      BY DEF Shown, Owned, TInv, TypeOK
    <2>2. groups[n] # Nil => groups[n].owner = r /\ groups[n] \in Group
      BY <2>1 DEF SameGroup, TInv, TypeOK
    <2>3. CASE groups[n] # Nil /\ groups[n].finalizer
      <3>1. AfterDelete(groups[n]) = [groups[n] EXCEPT !.deleting = TRUE]
        BY <2>3 DEF AfterDelete
      <3> QED
        BY <2>2, <2>3, <3>1 DEF Group
    <2>4. CASE ~(groups[n] # Nil /\ groups[n].finalizer)
      BY <2>2, <2>4 DEF AfterDelete
    <2> QED
      BY <2>3, <2>4
  <1> QED
    BY <1>1, <1>2 DEF GroupStep

(* The group whose spec r changes is its own.                              *)
LEMMA SpecStep ==
  ASSUME TInv, NEW r \in Requestors, CurrentGroup(r), NEW phase \in {"Ready", "Preparing"},
         NEW action \in {"Deploy", "Remove"}, NEW items \in Items, SetSpec(TheGroup(r), phase, action, items)
  PROVE  GroupStep(r) /\ \A s : s # r => (s \in torn' <=> s \in torn)
  <1> DEFINE n == TheGroup(r)
  <1>1. GroupsFit /\ CachedFit
    BY Parts
  <1>2. n \in GroupNames /\ groups[n] # Nil /\ groups[n].owner = r
    BY <1>1, CurrentIsOne, TheGroupIs
  <1>3. SetSpec(n, phase, action, items)
    OBVIOUS
  <1> HIDE DEF n
  <1>4. PICK h \in Group, new \in BOOLEAN :
           /\ groups' = [groups EXCEPT ![n] = h] /\ h.owner = groups[n].owner
           /\ \A m \in GroupNames : m # n \/ ~new \/ agent[m] = Nil => agent'[m] = agent[m]
           /\ ~new => torn' = torn
           /\ new => torn' = torn \ {groups[n].owner}
    BY <1>1, <1>2, <1>3, SpecIsSet
  <1>5. groups'[n] = h /\ \A m \in GroupNames : m # n => groups'[m] = groups[m]
    BY <1>1, <1>2, <1>4 DEF GroupsFit
  <1>6. GroupStep(r)
    BY <1>2, <1>4, <1>5 DEF GroupStep
  <1> QED
    BY <1>2, <1>4, <1>6

(* And the one it creates, under a name that no group has.                 *)
LEMMA CreateStep ==
  ASSUME TInv, NEW r \in Requestors, NEW action \in {"Deploy", "Remove"}, NEW items \in Items,
         CreateGroup(r, action, items)
  PROVE  GroupStep(r) /\ \A s : s # r => (s \in torn' <=> s \in torn)
  <1>1. GroupsFit
    BY Parts
  <1>2. PICK n \in GroupNames, h \in Group :
           /\ groups[n] = Nil /\ groups' = [groups EXCEPT ![n] = h]
           /\ h.owner = r /\ torn' = torn \ {r} /\ agent' = agent
    BY <1>1, GroupIsCreated
  <1>3. groups'[n] = h /\ \A m \in GroupNames : m # n => groups'[m] = groups[m]
    BY <1>1, <1>2 DEF GroupsFit
  <1> QED
    BY <1>2, <1>3 DEF GroupStep

(* The call, and the staging area, are r's.                                *)
LEMMA OwnCall ==
  ASSUME TInv, NEW r \in Requestors,
         work' = work \/ \E c : work' = [work EXCEPT ![r] = c],
         staged' = staged \/ \E list : staged' = [staged EXCEPT ![GeKey(r)] = list],
         applied' = applied, committed' = committed \/ \E w : committed' = [committed EXCEPT ![r] = w],
         \A s : s # r => /\ (s \in pending' <=> s \in pending) /\ (s \in torn' <=> s \in torn)
                         /\ (s \in swept' <=> s \in swept) /\ (s \in misled' <=> s \in misled)
  PROVE  CallStep(r)
  <1>1. /\ work \in [Requestors -> Calls] /\ staged \in [Keys -> Items]
        /\ committed \in [Requestors -> Wants \cup {Nil}]
    BY Parts DEF CallsFit, RestFits
  <1> QED
    BY <1>1, KeyIn DEF CallStep

(* The steps that change neither bundles nor groups.                       *)
LEMMA StepAside ==
  ASSUME TInv, NEW r \in Requestors,
         \/ \E want \in Wants : Stage(r, want) \/ Record(r, want)
         \/ DiscardStagedResources(r) \/ TerminateDeploymentTracking(r)
         \/ Fail(r) \/ Refused(r)
  PROVE  StepOf(r)
  <1>1. UNCHANGED <<bundles, groups, agent, applied, torn>>
    BY DEF Stage, Record, DiscardStagedResources, TerminateDeploymentTracking, Fail, Refused, history
  <1>2. BundleStep(r) /\ GroupStep(r)
    BY <1>1 DEF BundleStep, GroupStep
  <1>3. \E c : work' = [work EXCEPT ![r] = c]
    BY DEF Stage, Record, DiscardStagedResources, TerminateDeploymentTracking, Fail, Refused,
           Call, Sweeping, Return
  <1>4. staged' = staged \/ staged' = Cleared(r)
    BY DEF Stage, Record, DiscardStagedResources, TerminateDeploymentTracking, Fail, Refused
  <1>5. committed' = committed \/ committed' = [committed EXCEPT ![r] = Nil]
    BY DEF Stage, Record, DiscardStagedResources, TerminateDeploymentTracking, Fail, Refused, history
  <1>6. /\ pending' = pending \/ pending' = pending \cup {r} \/ pending' = pending \ {r}
        /\ swept' = swept \/ swept' = swept \ {r}
    BY DEF Stage, Record, DiscardStagedResources, TerminateDeploymentTracking, Fail, Refused, history
  <1>7. misled \subseteq misled' /\ \A s : s # r => (s \in misled' <=> s \in misled)
    <2>1. misled' = misled \/ GoBy(r, ItemsShown(r))
      BY DEF Stage, Record, DiscardStagedResources, TerminateDeploymentTracking, Fail, Refused, history
    <2> QED
      BY <2>1, GoByStep
  <1>8. CallStep(r)
    BY <1>1, <1>3, <1>4, <1>5, <1>6, <1>7, OwnCall DEF Cleared
  <1> QED
    BY <1>2, <1>7, <1>8 DEF StepOf

(* Those that write or delete bundles, the recovery included.              *)
LEMMA StepOnBundles ==
  ASSUME TInv, NEW r \in Requestors,
         Sweep(r) \/ RecoverBundles(r) \/ StageBundle(r) \/ RecordBundle(r)
  PROVE  StepOf(r)
  <1>1. UNCHANGED <<groups, agent, applied, committed, pending>>
    BY DEF Sweep, RecoverBundles, StageBundle, RecordBundle
  <1>2. GroupStep(r)
    BY <1>1 DEF GroupStep
  <1>3. /\ torn' = torn \/ torn' = torn \cup {r}
        /\ swept' = swept \/ swept' = swept \cup {r}
    BY DEF Sweep, RecoverBundles, StageBundle, RecordBundle
  <1>4. BundleStep(r) /\ misled \subseteq misled' /\ \A s : s # r => (s \in misled' <=> s \in misled)
    <2>1. CASE RecoverBundles(r)
      <3>1. PICK k : DeleteBundles(SeenAt(r, k)) /\ misled' = misled
        BY <2>1 DEF RecoverBundles
      <3>2. SeenAt(r, k) \subseteq Owned(bundles, r)
        BY DEF SeenAt, Seen
      <3> QED
        BY <3>1, <3>2, DeleteStep
    <2>2. CASE Sweep(r)
      <3>1. CASE bundles' = bundles
        <4>1. misled' = misled \/ GoBy(r, StaleShown(r))
          BY <2>2 DEF Sweep
        <4> QED
          BY <3>1, <4>1, GoByStep DEF BundleStep
      <3>2. CASE (\E n \in Stale(r) : DeleteBundles({n})) /\ misled' = misled
        <4>1. \A n \in Stale(r) : {n} \subseteq Owned(bundles, r)
          BY DEF Stale, Seen
        <4> QED
          BY <3>2, <4>1, DeleteStep
      <3> QED
        BY <2>2, <3>1, <3>2 DEF Sweep
    <2>3. CASE StageBundle(r) \/ RecordBundle(r)
      <3>1. PICK k \in work[r].todo, n \in BundleNames : ReconcileBundle(r, k, n)
        BY <2>3 DEF StageBundle, RecordBundle
      <3> QED
        BY <3>1, WriteStep
    <2> QED
      BY <2>1, <2>2, <2>3
  <1>5. /\ work' = work \/ \E c : work' = [work EXCEPT ![r] = c]
        /\ staged' = staged \/ \E list : staged' = [staged EXCEPT ![GeKey(r)] = list]
    <2>1. CASE StageBundle(r)
      BY <2>1 DEF StageBundle, Return
    <2>2. CASE RecordBundle(r)
      BY <2>2 DEF RecordBundle
    <2>3. CASE Sweep(r) \/ RecoverBundles(r)
      BY <2>3 DEF Sweep, RecoverBundles, Return, Goto
    <2> QED
      BY <2>1, <2>2, <2>3
  <1>6. CallStep(r)
    BY <1>1, <1>3, <1>4, <1>5, OwnCall
  <1> QED
    BY <1>2, <1>4, <1>6 DEF StepOf

(* And those that write, create or delete groups.                          *)
LEMMA StepOnGroups ==
  ASSUME TInv, SameGroup, NEW r \in Requestors,
         \/ MarkConfigurationGroupAsPreparing(r) \/ CommitStagedResources(r) \/ RecordGroup(r)
         \/ RemoveDeployedResources(r) \/ DeleteConfigurationGroup(r) \/ RecoverGroups(r)
  PROVE  StepOf(r)
  <1>1. UNCHANGED <<bundles, applied>>
    BY DEF MarkConfigurationGroupAsPreparing, CommitStagedResources, RecordGroup, RemoveDeployedResources,
           DeleteConfigurationGroup, RecoverGroups
  <1>2. BundleStep(r)
    BY <1>1 DEF BundleStep
  <1>3. GroupsFit /\ CachedFit /\ CallsFit
    BY Parts
  <1>4. GroupStep(r) /\ \A s : s # r => (s \in torn' <=> s \in torn)
    <2>1. CASE CommitStagedResources(r) \/ RecordGroup(r)
      <3>1. PICK items \in Items : ReconcileGroup(r, items)
        <4>1. work[r].items \in Items /\ staged[GeKey(r)] \in Items
          BY <1>3, KeyIn DEF CallsFit, Calls
        <4> QED
          BY <2>1, <4>1 DEF CommitStagedResources, RecordGroup
      <3>2. \/ CreateGroup(r, "Deploy", items)
            \/ CurrentGroup(r) /\ SetSpec(TheGroup(r), "Ready", "Deploy", items)
        BY <3>1 DEF ReconcileGroup
      <3> QED
        BY <3>2, CreateStep, SpecStep
    <2>2. CASE RemoveDeployedResources(r)
      <3>1. \/ CreateGroup(r, "Remove", <<>>)
            \/ CurrentGroup(r) /\ SetSpec(TheGroup(r), "Ready", "Remove", <<>>)
        BY <2>2 DEF RemoveDeployedResources
      <3> QED
        BY <3>1, CreateStep, SpecStep, ListOfItems
    <2>3. CASE UNCHANGED <<groups, agent, torn>>
      BY <2>3 DEF GroupStep
    <2>4. CASE MarkConfigurationGroupAsPreparing(r)
      <3>1. CASE CurrentGroup(r) /\ Preparing(TheGroup(r))
        <4>1. TheGroup(r) \in GroupNames /\ groups[TheGroup(r)] # Nil
          BY <1>3, <3>1, CurrentIsOne, TheGroupIs
        <4>2. groups[TheGroup(r)].items \in Items /\ groups[TheGroup(r)].action \in {"Deploy", "Remove"}
          BY <1>3, <4>1, GroupItems
        <4>3. SetSpec(TheGroup(r), "Preparing", groups[TheGroup(r)].action, groups[TheGroup(r)].items)
          BY <3>1 DEF Preparing
        <4> QED
          BY <3>1, <4>2, <4>3, SpecStep
      <3> QED
        BY <2>3, <2>4, <3>1 DEF MarkConfigurationGroupAsPreparing
    <2>5. CASE DeleteConfigurationGroup(r)
      <3>1. UNCHANGED <<agent, torn>>
        BY <2>5 DEF DeleteConfigurationGroup
      <3>2. CASE OneGroup(r) /\ DeleteGroups({TheGroup(r)})
        <4>1. {TheGroup(r)} \subseteq Shown(r)
          BY <3>2, OneIsSome DEF TheGroup
        <4> QED
          BY <3>1, <3>2, <4>1, DeleteGroupsStep
      <3> QED
        BY <2>3, <2>5, <3>1, <3>2 DEF DeleteConfigurationGroup
    <2>6. CASE RecoverGroups(r)
      <3>1. DeleteGroups(Shown(r)) /\ UNCHANGED <<agent, torn>>
        BY <2>6 DEF RecoverGroups
      <3> QED
        BY <3>1, DeleteGroupsStep
    <2> QED
      BY <2>1, <2>2, <2>4, <2>5, <2>6
  <1>5. misled \subseteq misled' /\ \A s : s # r => (s \in misled' <=> s \in misled)
    <2>1. misled' = misled \/ GoBy(r, GroupShown(r))
      BY DEF MarkConfigurationGroupAsPreparing, CommitStagedResources, RecordGroup, RemoveDeployedResources,
             DeleteConfigurationGroup, RecoverGroups, ReconcileGroup
    <2> QED
      BY <2>1, GoByStep
  <1>6. /\ \E c : work' = [work EXCEPT ![r] = c]
        /\ staged' = staged \/ staged' = Cleared(r)
        /\ committed' = committed \/ \E w : committed' = [committed EXCEPT ![r] = w]
    <2>1. \E c : work' = [work EXCEPT ![r] = c]
      <3>1. CASE MarkConfigurationGroupAsPreparing(r)
        BY <3>1 DEF MarkConfigurationGroupAsPreparing, Goto
      <3>2. CASE ~MarkConfigurationGroupAsPreparing(r)
        BY <3>2 DEF CommitStagedResources, RecordGroup, RemoveDeployedResources,
                    DeleteConfigurationGroup, RecoverGroups, Sweeping, Return
      <3> QED
        BY <3>1, <3>2
    <2>2. staged' = staged \/ staged' = Cleared(r)
      BY DEF MarkConfigurationGroupAsPreparing, CommitStagedResources, RecordGroup, RemoveDeployedResources,
             DeleteConfigurationGroup, RecoverGroups
    <2>3. committed' = committed \/ \E w : committed' = [committed EXCEPT ![r] = w]
      BY DEF MarkConfigurationGroupAsPreparing, CommitStagedResources, RecordGroup, RemoveDeployedResources,
             DeleteConfigurationGroup, RecoverGroups
    <2> QED
      BY <2>1, <2>2, <2>3
  <1>7. /\ pending' = pending \/ pending' = pending \ {r}
        /\ swept' = swept \/ swept' = swept \cup {r} \/ swept' = swept \ {r}
    BY DEF MarkConfigurationGroupAsPreparing, CommitStagedResources, RecordGroup, RemoveDeployedResources,
           DeleteConfigurationGroup, RecoverGroups
  <1>8. CallStep(r)
    BY <1>1, <1>4, <1>5, <1>6, <1>7, OwnCall DEF Cleared
  <1> QED
    BY <1>2, <1>4, <1>5, <1>8 DEF StepOf

-----------------------------------------------------------------------------
(* Duplicates, and who is misled *)

(* An object stays what it is until it is deleted; one that appears is the *)
(* only one of its owner, unless that was misled.                          *)
BundleStays(b) ==
  bundles'[b] # Nil => /\ bundles[b] # Nil /\ bundles'[b].owner = bundles[b].owner
                       /\ bundles'[b].index = bundles[b].index
GroupStays(n) ==
  groups'[n] # Nil => groups[n] # Nil /\ groups'[n].owner = groups[n].owner
BundleAppears(b) ==
  bundles'[b].owner \notin misled' =>
    \A a \in Owned(bundles, bundles'[b].owner) : bundles[a].index # bundles'[b].index
GroupAppears(n) ==
  /\ cached[n] = Nil
  /\ groups'[n].owner \notin misled' => Owned(groups, groups'[n].owner) = {}
BundlesMove == \/ \A b \in BundleNames : BundleStays(b)
               \/ \E b \in BundleNames : /\ BundleAppears(b)
                                         /\ \A a \in BundleNames : a # b => BundleStays(a)
GroupsMove == \/ \A n \in GroupNames : GroupStays(n)
              \/ \E n \in GroupNames : /\ GroupAppears(n)
                                       /\ \A m \in GroupNames : m # n => GroupStays(m)

(* A bundle that is written.                                               *)
LEMMA WriteMoves ==
  ASSUME TInv, NEW r \in Requestors, NEW k \in work[r].todo, NEW n \in BundleNames,
         ReconcileBundle(r, k, n)
  PROVE  BundlesMove
  <1>1. BundlesFit /\ CallsFit
    BY Parts
  <1>2. PICK b \in Bundle :
           /\ bundles' = [bundles EXCEPT ![n] = b]
           /\ b.owner = r /\ b.index = k
           /\ \/ SeenAt(r, k) = {n} /\ b.seen
              \/ SeenAt(r, k) = {} /\ n \in FreeBundles /\ b.seen \in Visible
    BY <1>1, OneBundleWritten
  <1>3. bundles'[n] = b /\ \A a \in BundleNames : a # n => bundles'[a] = bundles[a]
    BY <1>1, <1>2 DEF BundlesFit
  <1>4. b # Nil /\ \A a \in BundleNames : a # n => BundleStays(a)
    BY <1>3, PullModeAssumption DEF BundleStays
  <1>5. CASE SeenAt(r, k) = {n}
    <2>1. bundles[n] # Nil /\ bundles[n].owner = r /\ bundles[n].index = k
      BY <1>5 DEF SeenAt, Seen, Owned
    <2>2. BundleStays(n)
      BY <1>2, <1>3, <1>5, <2>1 DEF BundleStays
    <2> QED
      BY <1>4, <2>2 DEF BundlesMove
  <1>6. CASE SeenAt(r, k) = {}
    <2>1. r \notin misled' => BundleShown(r, k)
      BY WriteStep
    <2>2. r \notin misled' => \A a \in Owned(bundles, r) : bundles[a].index # k
      BY <1>6, <2>1 DEF BundleShown
    <2>3. BundleAppears(n)
      BY <1>2, <1>3, <1>6, <2>2 DEF BundleAppears
    <2> QED
      BY <1>4, <2>3 DEF BundlesMove
  <1> QED
    BY <1>2, <1>5, <1>6

(* Bundles that are deleted.                                               *)
LEMMA DeleteMoves ==
  ASSUME NEW ns, DeleteBundles(ns)
  PROVE  BundlesMove
  <1>1. \A n \in BundleNames : bundles'[n] = IF n \in ns THEN Nil ELSE bundles[n]
    BY DEF DeleteBundles
  <1> QED
    BY <1>1 DEF BundlesMove, BundleStays

(* A group that changes keeps its owner.                                   *)
LEMMA ChangeMoves ==
  ASSUME GroupsFit, NEW n \in GroupNames, groups[n] # Nil, NEW h,
         groups' = [groups EXCEPT ![n] = h], h.owner = groups[n].owner
  PROVE  GroupsMove
  <1>1. groups'[n] = h /\ \A m \in GroupNames : m # n => groups'[m] = groups[m]
    BY DEF GroupsFit
  <1> QED
    BY <1>1 DEF GroupsMove, GroupStays

(* So do those that are deleted.                                           *)
LEMMA DeleteGroupsMoves ==
  ASSUME GroupsFit, NEW ns, DeleteGroups(ns)
  PROVE  GroupsMove
  <1>1. \A n \in GroupNames : groups'[n] = IF n \in ns THEN AfterDelete(groups[n]) ELSE groups[n]
    BY DEF DeleteGroups
  <1>2. ASSUME NEW n \in GroupNames, n \in ns, AfterDelete(groups[n]) # Nil
        PROVE  groups[n] # Nil /\ AfterDelete(groups[n]).owner = groups[n].owner
    <2>1. groups[n] # Nil /\ groups[n] \in Group
      BY <1>2 DEF GroupsFit, AfterDelete
    <2>2. AfterDelete(groups[n]) = [groups[n] EXCEPT !.deleting = TRUE]
      BY <1>2 DEF AfterDelete
    <2> QED
      BY <2>1, <2>2 DEF Group
  <1> QED
    BY <1>1, <1>2 DEF GroupsMove, GroupStays

(* And the one whose spec r changes.                                       *)
LEMMA SpecMoves ==
  ASSUME GroupsFit, CachedFit, NEW r \in Requestors, CurrentGroup(r), NEW phase \in {"Ready", "Preparing"},
         NEW action \in {"Deploy", "Remove"}, NEW items \in Items, SetSpec(TheGroup(r), phase, action, items)
  PROVE  GroupsMove
  <1> DEFINE n == TheGroup(r)
  <1>1. n \in GroupNames /\ groups[n] # Nil
    BY CurrentIsOne, TheGroupIs
  <1>2. SetSpec(n, phase, action, items)
    OBVIOUS
  <1> HIDE DEF n
  <1>3. PICK h \in Group, new \in BOOLEAN :
           /\ groups' = [groups EXCEPT ![n] = h]
           /\ h.owner = groups[n].owner
    BY <1>1, <1>2, SpecIsSet
  <1> QED
    BY <1>1, <1>3, ChangeMoves

(* One is created only if none is seen.                                    *)
LEMMA CreateMoves ==
  ASSUME GroupsFit, NEW r \in Requestors, NEW action \in {"Deploy", "Remove"}, NEW items \in Items,
         NoGroup(r), GoBy(r, GroupShown(r)), CreateGroup(r, action, items)
  PROVE  GroupsMove
  <1>1. PICK n \in GroupNames, h \in Group :
           /\ groups' = [groups EXCEPT ![n] = h] /\ h.owner = r /\ cached[n] = Nil
    BY GroupIsCreated
  <1>2. groups'[n] = h /\ \A m \in GroupNames : m # n => groups'[m] = groups[m]
    BY <1>1 DEF GroupsFit
  <1>3. r \notin misled' => Owned(groups, r) = {}
    BY GoByStep DEF NoGroup, GroupShown
  <1> QED
    BY <1>1, <1>2, <1>3 DEF GroupsMove, GroupStays, GroupAppears

(* Of the steps of a call.                                                 *)
LEMMA CallMoves ==
  ASSUME TInv, NEW r \in Requestors,
         \/ DiscardStagedResources(r) \/ RemoveDeployedResources(r) \/ TerminateDeploymentTracking(r)
         \/ RecoverGroups(r) \/ Fail(r) \/ Steps(r)
         \/ \E want \in Wants : Stage(r, want) \/ Record(r, want)
  PROVE  BundlesMove /\ GroupsMove
  <1>1. GroupsFit /\ CachedFit /\ CallsFit
    BY Parts
  <1>2. bundles' = bundles => BundlesMove
    BY DEF BundlesMove, BundleStays
  <1>3. groups' = groups => GroupsMove
    BY DEF GroupsMove, GroupStays
  <1>4. CASE \/ DiscardStagedResources(r) \/ TerminateDeploymentTracking(r)
             \/ Fail(r) \/ Refused(r)
             \/ \E want \in Wants : Stage(r, want) \/ Record(r, want)
    <2>1. UNCHANGED <<bundles, groups>>
      BY <1>4 DEF Stage, Record, DiscardStagedResources, TerminateDeploymentTracking, Fail, Refused
    <2> QED
      BY <1>2, <1>3, <2>1
  <1>5. CASE StageBundle(r) \/ RecordBundle(r)
    <2>1. groups' = groups
      BY <1>5 DEF StageBundle, RecordBundle
    <2>2. PICK k \in work[r].todo, n \in BundleNames : ReconcileBundle(r, k, n)
      BY <1>5 DEF StageBundle, RecordBundle
    <2> QED
      BY <1>3, <2>1, <2>2, WriteMoves
  <1>6. CASE Sweep(r) \/ RecoverBundles(r)
    <2>1. groups' = groups
      BY <1>6 DEF Sweep, RecoverBundles
    <2>2. bundles' = bundles \/ \E ns : DeleteBundles(ns)
      BY <1>6 DEF Sweep, RecoverBundles
    <2> QED
      BY <1>2, <1>3, <2>1, <2>2, DeleteMoves
  <1>7. CASE CommitStagedResources(r) \/ RecordGroup(r)
    <2>1. bundles' = bundles
      BY <1>7 DEF CommitStagedResources, RecordGroup
    <2>2. PICK items \in Items : ReconcileGroup(r, items)
      <3>1. work[r].items \in Items /\ staged[GeKey(r)] \in Items
        BY <1>1, KeyIn DEF CallsFit, Calls
      <3> QED
        BY <1>7, <3>1 DEF CommitStagedResources, RecordGroup
    <2>3. \/ NoGroup(r) /\ GoBy(r, GroupShown(r)) /\ CreateGroup(r, "Deploy", items)
          \/ CurrentGroup(r) /\ SetSpec(TheGroup(r), "Ready", "Deploy", items)
      BY <2>2 DEF ReconcileGroup
    <2> QED
      BY <1>1, <1>2, <2>1, <2>3, CreateMoves, SpecMoves
  <1>8. CASE RemoveDeployedResources(r)
    <2>1. bundles' = bundles
      BY <1>8 DEF RemoveDeployedResources
    <2>2. \/ NoGroup(r) /\ GoBy(r, GroupShown(r)) /\ CreateGroup(r, "Remove", <<>>)
          \/ CurrentGroup(r) /\ SetSpec(TheGroup(r), "Ready", "Remove", <<>>)
      BY <1>8 DEF RemoveDeployedResources
    <2> QED
      BY <1>1, <1>2, <2>1, <2>2, CreateMoves, SpecMoves, ListOfItems
  <1>9. CASE MarkConfigurationGroupAsPreparing(r)
    <2>1. bundles' = bundles
      BY <1>9 DEF MarkConfigurationGroupAsPreparing
    <2>2. CASE CurrentGroup(r) /\ Preparing(TheGroup(r))
      <3>1. TheGroup(r) \in GroupNames /\ groups[TheGroup(r)] # Nil
        BY <1>1, <2>2, CurrentIsOne, TheGroupIs
      <3>2. groups[TheGroup(r)].items \in Items /\ groups[TheGroup(r)].action \in {"Deploy", "Remove"}
        BY <1>1, <3>1, GroupItems
      <3>3. SetSpec(TheGroup(r), "Preparing", groups[TheGroup(r)].action, groups[TheGroup(r)].items)
        BY <2>2 DEF Preparing
      <3> QED
        BY <1>1, <1>2, <2>1, <2>2, <3>2, <3>3, SpecMoves
    <2>3. groups' = groups \/ (CurrentGroup(r) /\ Preparing(TheGroup(r)))
      BY <1>9 DEF MarkConfigurationGroupAsPreparing
    <2> QED
      BY <1>2, <1>3, <2>1, <2>2, <2>3
  <1>10. CASE DeleteConfigurationGroup(r) \/ RecoverGroups(r)
    <2>1. bundles' = bundles
      BY <1>10 DEF DeleteConfigurationGroup, RecoverGroups
    <2>2. OneGroup(r) => TheGroup(r) \in Shown(r)
      BY OneIsSome DEF TheGroup
    <2>3. groups' = groups \/ \E ns : ns \subseteq Shown(r) /\ DeleteGroups(ns)
      BY <1>10, <2>2 DEF DeleteConfigurationGroup, RecoverGroups
    <2> QED
      BY <1>1, <1>2, <1>3, <2>1, <2>3, DeleteGroupsMoves
  <1> QED
    BY <1>4, <1>5, <1>6, <1>7, <1>8, <1>9, <1>10 DEF Steps

(* Of every step.                                                          *)
LEMMA Moves ==
  ASSUME TInv, [Next]_vars
  PROVE  BundlesMove /\ GroupsMove
  <1>1. BundlesFit /\ GroupsFit
    BY Parts
  <1>2. bundles' = bundles => BundlesMove
    BY DEF BundlesMove, BundleStays
  <1>3. groups' = groups => GroupsMove
    BY DEF GroupsMove, GroupStays
  <1>4. CASE UNCHANGED vars \/ Restart
    BY <1>2, <1>3, <1>4 DEF vars, Restart
  <1>5. CASE \E n \in GroupNames : AgentFetch(n)
    <2>1. PICK n \in GroupNames : AgentFetch(n)
      BY <1>5
    <2>2. PICK h \in Group, v \in Version :
             /\ groups[n] # Nil /\ groups' = [groups EXCEPT ![n] = h]
             /\ h.owner = groups[n].owner
      BY <1>1, <2>1, FetchIs
    <2>3. bundles' = bundles
      BY <2>1 DEF AgentFetch
    <2> QED
      BY <1>1, <1>2, <2>2, <2>3, ChangeMoves
  <1>6. CASE \E n \in GroupNames : AgentProcess(n)
    <2>1. PICK n \in GroupNames : AgentProcess(n)
      BY <1>6
    <2>2. bundles' = bundles /\ agent[n] # Nil /\ groups[n] # Nil
      BY <1>1, <2>1, ProcessIs DEF GroupsFit
    <2>3. CASE Cleans(n)
      BY <1>1, <1>2, <2>2, <2>3 DEF Cleans, GroupsMove, GroupStays, GroupsFit
    <2>4. CASE ~Cleans(n)
      <3>1. PICK status \in {"None", "Provisioned", "Failed", "Removed"} : AgentReport(n, status)
        BY <2>1, <2>4, ProcessIs DEF Removes, Deploys, Misses
      <3>2. PICK h \in Group : /\ groups' = [groups EXCEPT ![n] = h]
                               /\ h.owner = groups[n].owner
        BY <1>1, <2>2, <3>1, ReportIs
      <3> QED
        BY <1>1, <1>2, <2>2, <3>2, ChangeMoves
    <2> QED
      BY <2>3, <2>4
  <1>7. CASE Sync
    <2>1. CASE \E n \in BundleNames : /\ bundles[n] # Nil /\ bundles' = [bundles EXCEPT ![n].seen = TRUE]
                                      /\ groups' = groups
      <3>1. PICK n \in BundleNames : /\ bundles[n] # Nil /\ bundles' = [bundles EXCEPT ![n].seen = TRUE]
                                     /\ groups' = groups
        BY <2>1
      <3>2. bundles[n] \in Bundle
        BY <1>1, <3>1 DEF BundlesFit
      <3>3. /\ bundles'[n].owner = bundles[n].owner /\ bundles'[n].index = bundles[n].index /\ bundles'[n].seen
            /\ \A m \in BundleNames : m # n => bundles'[m] = bundles[m]
        BY <1>1, <3>1, <3>2 DEF BundlesFit, Bundle
      <3> QED
        BY <1>3, <3>1, <3>3 DEF BundlesMove, BundleStays
    <2>2. CASE UNCHANGED <<bundles, groups>>
      BY <1>2, <1>3, <2>2
    <2> QED
      BY <1>7, <2>1, <2>2 DEF Sync
  <1> QED
    BY <1>4, <1>5, <1>6, <1>7, CallMoves DEF Next

(* Who is misled has gone by what it saw of its group, of a bundle, or of   *)
(* those it does not keep.                                                 *)
LEMMA Looks ==
  ASSUME [Next]_vars
  PROVE  \/ misled' = misled
         \/ \E r \in Requestors : \/ GoBy(r, GroupShown(r)) \/ GoBy(r, ItemsShown(r)) \/ GoBy(r, StaleShown(r))
                                 \/ \E k : GoBy(r, BundleShown(r, k))
  <1>1. CASE UNCHANGED vars \/ Sync \/ Restart \/ \E n \in GroupNames : AgentFetch(n) \/ AgentProcess(n)
    BY <1>1, ProcessIs DEF vars, history, Sync, Restart, AgentFetch
  <1>2. ASSUME NEW r \in Requestors,
               \/ DiscardStagedResources(r) \/ RemoveDeployedResources(r) \/ TerminateDeploymentTracking(r)
               \/ RecoverGroups(r) \/ Fail(r) \/ \E want \in Wants : Stage(r, want) \/ Record(r, want)
        PROVE  misled' = misled \/ GoBy(r, GroupShown(r)) \/ GoBy(r, ItemsShown(r))
    BY <1>2 DEF DiscardStagedResources, RemoveDeployedResources, TerminateDeploymentTracking,
                RecoverGroups, Fail, Stage, Record, history
  <1>3. ASSUME NEW r \in Requestors,
               \/ MarkConfigurationGroupAsPreparing(r) \/ CommitStagedResources(r) \/ RecordGroup(r)
               \/ DeleteConfigurationGroup(r) \/ Refused(r) \/ RecoverBundles(r)
        PROVE  misled' = misled \/ GoBy(r, GroupShown(r))
    BY <1>3 DEF MarkConfigurationGroupAsPreparing, CommitStagedResources, RecordGroup, ReconcileGroup,
                DeleteConfigurationGroup, Refused, RecoverBundles, history
  <1>4. ASSUME NEW r \in Requestors, Sweep(r)
        PROVE  misled' = misled \/ GoBy(r, StaleShown(r))
    BY <1>4 DEF Sweep
  <1>5. ASSUME NEW r \in Requestors, StageBundle(r) \/ RecordBundle(r)
        PROVE  \E k : GoBy(r, BundleShown(r, k))
    <2>1. PICK k \in work[r].todo, n \in BundleNames : ReconcileBundle(r, k, n)
      BY <1>5 DEF StageBundle, RecordBundle
    <2> QED
      BY <2>1 DEF ReconcileBundle
  <1> QED
    BY <1>1, <1>2, <1>3, <1>4, <1>5 DEF Next, Steps

(* A requestor that is not misled does not get a second object of a kind.  *)
LEMMA OneEachKept ==
  ASSUME TInv, TInv', [Next]_vars, NEW r \in Requestors, r \notin misled => OneEach(r), r \notin misled'
  PROVE  OneEach(r)'
  <1>1. r \notin misled
    BY Looks DEF GoBy
  <1>2. DOMAIN bundles' = BundleNames /\ DOMAIN groups' = GroupNames
        /\ DOMAIN bundles = BundleNames /\ DOMAIN groups = GroupNames
    BY DEF TInv, TypeOK
  <1>3. OneEach(r) /\ BundlesMove /\ GroupsMove
    BY <1>1, Moves
  <1>4. ASSUME NEW n \in Owned(groups', r), NEW m \in Owned(groups', r), n # m
        PROVE  FALSE
    <2>1. /\ n \in GroupNames /\ groups'[n] # Nil /\ groups'[n].owner = r
          /\ m \in GroupNames /\ groups'[m] # Nil /\ groups'[m].owner = r
      BY <1>2, <1>4 DEF Owned
    <2>2. GroupStays(n) => n \in Owned(groups, r)
      BY <1>2, <2>1 DEF GroupStays, Owned
    <2>3. GroupStays(m) => m \in Owned(groups, r)
      BY <1>2, <2>1 DEF GroupStays, Owned
    <2>4. ~(GroupStays(n) /\ GroupStays(m))
      BY <1>3, <1>4, <2>2, <2>3 DEF OneEach
    <2>5. GroupAppears(n) => Owned(groups, r) = {}
      BY <2>1 DEF GroupAppears
    <2>6. GroupAppears(m) => Owned(groups, r) = {}
      BY <2>1 DEF GroupAppears
    <2> QED
      BY <1>3, <1>4, <2>1, <2>2, <2>3, <2>4, <2>5, <2>6 DEF GroupsMove
  <1>5. ASSUME NEW a \in Owned(bundles', r), NEW b \in Owned(bundles', r),
               bundles'[a].index = bundles'[b].index, a # b
        PROVE  FALSE
    <2>1. /\ a \in BundleNames /\ bundles'[a] # Nil /\ bundles'[a].owner = r
          /\ b \in BundleNames /\ bundles'[b] # Nil /\ bundles'[b].owner = r
      BY <1>2, <1>5 DEF Owned
    <2>2. BundleStays(a) => a \in Owned(bundles, r) /\ bundles[a].index = bundles'[a].index
      BY <1>2, <2>1 DEF BundleStays, Owned
    <2>3. BundleStays(b) => b \in Owned(bundles, r) /\ bundles[b].index = bundles'[b].index
      BY <1>2, <2>1 DEF BundleStays, Owned
    <2>4. ~(BundleStays(a) /\ BundleStays(b))
      BY <1>3, <1>5, <2>2, <2>3 DEF OneEach
    <2>5. BundleAppears(a) => \A c \in Owned(bundles, r) : bundles[c].index # bundles'[a].index
      BY <2>1 DEF BundleAppears
    <2>6. BundleAppears(b) => \A c \in Owned(bundles, r) : bundles[c].index # bundles'[b].index
      BY <2>1 DEF BundleAppears
    <2> QED
      BY <1>3, <1>5, <2>1, <2>2, <2>3, <2>4, <2>5, <2>6 DEF BundlesMove
  <1> QED
    BY <1>4, <1>5 DEF OneEach

(* What the cache shows stays, or is what there is.                        *)
LEMMA CacheMoves ==
  ASSUME [Next]_vars
  PROVE  cached' = cached \/ (cached' = groups /\ groups' = groups)
  <1>1. CASE UNCHANGED vars \/ Sync \/ Restart \/ \E n \in GroupNames : AgentFetch(n) \/ AgentProcess(n)
    BY <1>1 DEF vars, Sync, Restart, AgentFetch, AgentProcess
  <1>2. ASSUME NEW r \in Requestors,
               \/ DiscardStagedResources(r) \/ RemoveDeployedResources(r) \/ TerminateDeploymentTracking(r)
               \/ RecoverGroups(r) \/ Fail(r) \/ \E want \in Wants : Stage(r, want) \/ Record(r, want)
        PROVE  cached' = cached
    BY <1>2 DEF DiscardStagedResources, RemoveDeployedResources, TerminateDeploymentTracking,
                RecoverGroups, Fail, Stage, Record
  <1>3. ASSUME NEW r \in Requestors,
               \/ MarkConfigurationGroupAsPreparing(r) \/ CommitStagedResources(r) \/ RecordGroup(r)
               \/ DeleteConfigurationGroup(r) \/ Refused(r) \/ RecoverBundles(r)
        PROVE  cached' = cached
    BY <1>3 DEF MarkConfigurationGroupAsPreparing, CommitStagedResources, RecordGroup,
                DeleteConfigurationGroup, Refused, RecoverBundles
  <1>4. ASSUME NEW r \in Requestors, Sweep(r) \/ StageBundle(r) \/ RecordBundle(r)
        PROVE  cached' = cached
    BY <1>4 DEF Sweep, StageBundle, RecordBundle
  <1> QED
    BY <1>1, <1>2, <1>3, <1>4 DEF Next, Steps

(* So that it does not show two groups of a requestor that was not misled, *)
(* nor one under a name that has become another's.                         *)
LEMMA CacheFitsKept ==
  ASSUME TInv, [Next]_vars, RInvs, CacheFits
  PROVE  CacheFits'
  <1>1. cached' = cached \/ (cached' = groups /\ groups' = groups)
    BY CacheMoves
  <1>2. SameGroup'
    <2>1. CASE cached' = groups /\ groups' = groups
      BY <2>1 DEF SameGroup
    <2>2. CASE cached' = cached
      <3>1. GroupsMove
        BY Moves
      <3>2. ASSUME NEW n \in GroupNames, cached[n] # Nil, groups'[n] # Nil
            PROVE  cached[n].owner = groups'[n].owner
        <4>1. GroupStays(n)
          BY <3>1, <3>2 DEF GroupsMove, GroupAppears
        <4> QED
          BY <3>2, <4>1 DEF GroupStays, CacheFits, SameGroup
      <3> QED
        BY <2>2, <3>2 DEF SameGroup
    <2> QED
      BY <1>1, <2>1, <2>2
  <1>3. ASSUME NEW r \in Requestors, Alone(r), r \notin misled'
        PROVE  OneShown(r)'
    <2>1. Sound(r)
      BY <1>3, Looks DEF GoBy, Sound
    <2>2. CASE cached' = cached
      BY <2>1, <2>2 DEF CacheFits, OneShown, Shown
    <2>3. CASE cached' = groups
      BY <2>1, <2>3 DEF RInvs, RInv, OneEach, OneShown, Shown
    <2> QED
      BY <1>1, <2>2, <2>3
  <1> QED
    BY <1>2, <1>3 DEF CacheFits, Sound, Alone, GeKey

-----------------------------------------------------------------------------
(* What a step of a requestor that is not misled makes of its invariant *)

(* An empty list names nothing.                                            *)
LEMMA EmptyList ==
  /\ Names(<<>>) = {}
  /\ \A store, r : Listed(store, r, <<>>) /\ ContentOf(store, <<>>) = {}
  <1>1. DOMAIN <<>> = {}
    OBVIOUS
  <1> QED
    BY <1>1 DEF Names, Listed, ContentOf

(* Of a requestor's group, if it has one: it updates no other, and creates *)
(* one when there is none.                                                 *)
LEMMA OwnGroup ==
  ASSUME TInv, NEW r \in Requestors, OneEach(r)
  PROVE  /\ NoGroup(r) /\ GroupShown(r) => Owned(groups, r) = {}
         /\ CurrentGroup(r) => Owned(groups, r) = {TheGroup(r)}
         /\ \A n \in Owned(groups, r) : /\ n \in GroupNames /\ groups[n] # Nil /\ groups[n].owner = r
                                        /\ Owned(groups, r) = {n}
  <1>1. NoGroup(r) /\ GroupShown(r) => Owned(groups, r) = {}
    BY DEF NoGroup, GroupShown
  <1>2. \A n \in Owned(groups, r) : Owned(groups, r) = {n}
    BY DEF OneEach
  <1>3. \A n \in Owned(groups, r) : n \in GroupNames /\ groups[n] # Nil /\ groups[n].owner = r
    BY DEF Owned, TInv, TypeOK
  <1>4. CurrentGroup(r) => Owned(groups, r) = {TheGroup(r)}
    <2> HAVE CurrentGroup(r)
    <2>1. /\ TheGroup(r) \in GroupNames
          /\ groups[TheGroup(r)] # Nil /\ groups[TheGroup(r)].owner = r
      BY Parts, CurrentIsOne, TheGroupIs
    <2>2. DOMAIN groups = GroupNames
      BY DEF TInv, TypeOK
    <2>3. TheGroup(r) \in Owned(groups, r)
      BY <2>1, <2>2 DEF Owned
    <2> QED
      BY <1>2, <2>3
  <1> QED
    BY <1>1, <1>2, <1>3, <1>4

(* The client shows no two.                                                *)
LEMMA ShownGroup ==
  ASSUME NEW r \in Requestors, OneShown(r)
  PROVE  /\ OneGroup(r) => Shown(r) = {TheGroup(r)}
         /\ ~(Cardinality(Shown(r)) > 1)
  <1>1. OneGroup(r) => Shown(r) = {TheGroup(r)}
    <2> HAVE OneGroup(r)
    <2>1. TheGroup(r) \in Shown(r)
      BY OneIsSome DEF TheGroup
    <2> QED
      BY <2>1 DEF OneShown
  <1>2. CASE Shown(r) = {}
    <2>1. Cardinality(Shown(r)) = 0
      BY <1>2, FS_EmptySet
    <2> QED
      BY <1>1, <2>1
  <1>3. CASE Shown(r) # {}
    <2>1. PICK n : Shown(r) = {n}
      BY <1>3 DEF OneShown
    <2>2. Cardinality(Shown(r)) = 1
      BY <2>1, FS_Singleton
    <2> QED
      BY <1>1, <2>2
  <1> QED
    BY <1>2, <1>3

(* When nothing of a requestor changes but its call and its staging area.  *)
LEMMA StillFits ==
  ASSUME TInv, NEW r \in Requestors, RInv(r),
         UNCHANGED <<bundles, groups, agent, applied>>,
         committed'[r] = committed[r] \/ committed'[r] = Nil, r \in torn => r \in torn',
         staged'[GeKey(r)] = staged[GeKey(r)] \/ staged'[GeKey(r)] = <<>>,
         \/ work'[r].items = work[r].items \/ work'[r].items = <<>>
         \/ \E n \in Owned(groups, r) : work'[r].items = groups[n].items
  PROVE  OneEach(r)' /\ Mine(r)' /\ GroupFits(r)' /\ ReportFits(r)'
  <1>1. OneEach(r)'
    BY DEF RInv, OneEach, Owned
  <1>2. Mine(r)'
    BY EmptyList DEF RInv, Mine, Owned
  <1>3. Owned(groups', r) = Owned(groups, r) /\ \A n \in Owned(groups, r) : Available(n)' <=> Available(n)
    BY DEF Owned, Available
  <1>4. GroupFits(r)'
    BY <1>3 DEF RInv, GroupFits, Listed, Kept, ContentOf, Pairs
  <1>5. ReportFits(r)'
    BY <1>3 DEF RInv, ReportFits, Pairs
  <1> QED
    BY <1>1, <1>2, <1>4, <1>5

(* A step that changes no bundle and no group.                             *)
LEMMA AsideFits ==
  ASSUME TInv, NEW r \in Requestors, RInv(r),
         UNCHANGED <<bundles, groups, agent, applied>>,
         staged' = staged \/ staged' = Cleared(r),
         committed' = committed \/ committed' = [committed EXCEPT ![r] = Nil],
         torn' = torn,
         \/ work'[r].items = work[r].items \/ work'[r].items = <<>>
         \/ \E n \in Owned(groups, r) : work'[r].items = groups[n].items,
         StagingFits(r)', RecordFits(r)', SweepFits(r)', EndFits(r)', SweptFits(r)'
  PROVE  RInv(r)'
  <1>1. /\ staged \in [Keys -> Items] /\ committed \in [Requestors -> Wants \cup {Nil}]
    BY Parts DEF CallsFit, RestFits
  <1>2. /\ staged'[GeKey(r)] = staged[GeKey(r)] \/ staged'[GeKey(r)] = <<>>
        /\ committed'[r] = committed[r] \/ committed'[r] = Nil
    BY <1>1, KeyIn DEF Cleared
  <1>3. OneEach(r)' /\ Mine(r)' /\ GroupFits(r)' /\ ReportFits(r)'
    BY <1>2, StillFits
  <1> QED
    BY <1>3 DEF RInv

(* StageResourcesForDeployment and RecordResourcesForDeployment begin: for *)
(* nothing of what is asked has a bundle been written.                     *)
LEMMA KeptBegin ==
  ASSUME TInv, TInv', NEW r \in Requestors, RInv(r), r \notin misled', NEW want \in Wants,
         Stage(r, want) \/ Record(r, want)
  PROVE  RInv(r)'
  <1>1. RInv(r) /\ CallsFit
    BY Parts
  <1>2. PICK step \in {"mark", "group"} : Call(r, step, want) /\ (step = "mark" => r \in pending')
    BY DEF Stage, Record
  <1>3. PICK c \in Calls : /\ work' = [work EXCEPT ![r] = c]
                           /\ c.step = step /\ c.want = want /\ c.items = <<>> /\ c.todo = Given(want)
    BY <1>1, <1>2, CallIs DEF StepNames, LooksForGroup
  <1>4. work'[r] = c
    BY <1>1, <1>3 DEF CallsFit
  <1>5. UNCHANGED <<bundles, groups, agent, applied, staged, committed, torn>>
    BY DEF Stage, Record
  <1>6. staged[GeKey(r)] = <<>>
    BY <1>1 DEF RInv, EndFits, Stage, Record
  <1>7. Asked(r)' = {}
    BY <1>3, <1>4 DEF Asked
  <1>8. StagingFits(r)'
    BY <1>2, <1>3, <1>4, <1>5, <1>6, <1>7, EmptyList DEF StagingFits
  <1>9. RecordFits(r)'
    BY <1>2, <1>3, <1>4, <1>7, EmptyList DEF RecordFits
  <1>10. SweepFits(r)' /\ EndFits(r)'
    BY <1>2, <1>3, <1>4, <1>5, <1>6 DEF SweepFits, EndFits
  <1>11. r \notin swept' /\ SweptFits(r)'
    BY DEF Stage, Record, SweptFits
  <1>12. /\ pending' = pending \/ pending' = pending \cup {r}
         /\ swept' = swept \ {r}
    BY DEF Stage, Record
  <1>13. /\ \E d \in Calls : work' = [work EXCEPT ![r] = d]
         /\ work'[r].items = <<>>
    BY <1>3, <1>4
  <1> QED
    BY <1>5, <1>8, <1>9, <1>10, <1>11, <1>12, <1>13, AsideFits

(* A call that returns where it stands leaves what it has written.         *)
LEMMA IdleFits ==
  ASSUME NEW r \in Requestors, RInv(r), work'[r].step = "idle", UNCHANGED <<staged, pending>>,
         r \in swept' => r \in swept, UNCHANGED <<bundles, groups>>
  PROVE  StagingFits(r)' /\ RecordFits(r)' /\ SweepFits(r)' /\ EndFits(r)' /\ SweptFits(r)'
  <1>1. StagingFits(r)' /\ RecordFits(r)' /\ SweepFits(r)'
    BY DEF StagingFits, RecordFits, SweepFits
  <1>2. EndFits(r)'
    BY DEF RInv, EndFits
  <1>3. SweptFits(r)'
    BY DEF RInv, SweptFits, Owned
  <1> QED
    BY <1>1, <1>2, <1>3

(* So do a failed call and one refused as the group is being deleted.      *)
LEMMA KeptReturn ==
  ASSUME TInv, TInv', NEW r \in Requestors, RInv(r), r \notin misled',
         Fail(r) \/ Refused(r)
  PROVE  RInv(r)'
  <1>1. RInv(r) /\ CallsFit
    BY Parts
  <1>2. PICK c \in Calls : /\ work' = [work EXCEPT ![r] = c]
                           /\ c.step = "idle" /\ c.items = <<>>
    BY <1>1, ReturnIs DEF Fail, Refused
  <1>3. work'[r] = c
    BY <1>1, <1>2 DEF CallsFit
  <1>4. UNCHANGED <<bundles, groups, agent, applied, staged, history>>
    BY DEF Fail, Refused
  <1>5. StagingFits(r)' /\ RecordFits(r)' /\ SweepFits(r)' /\ EndFits(r)' /\ SweptFits(r)'
    BY <1>1, <1>2, <1>3, <1>4, IdleFits DEF history
  <1> QED
    BY <1>2, <1>3, <1>4, <1>5, AsideFits DEF history

(* DiscardStagedResources spares the bundles of the group the requestor    *)
(* has, whether the agent may fetch it or not.                             *)
LEMMA KeptDiscard ==
  ASSUME TInv, TInv', NEW r \in Requestors, RInv(r), OneShown(r), r \notin misled',
         DiscardStagedResources(r)
  PROVE  RInv(r)'
  <1>1. RInv(r) /\ CallsFit /\ GroupsFit
    BY Parts
  <1>2. /\ NoGroup(r) => Owned(groups, r) = {}
        /\ OneGroup(r) => /\ Owned(groups, r) = {TheGroup(r)}
                          /\ cached[TheGroup(r)].items = groups[TheGroup(r)].items
        /\ \A n \in Owned(groups, r) : n \in GroupNames /\ groups[n] # Nil
    <2>1. ItemsShown(r)
      BY GoByStep DEF DiscardStagedResources
    <2>2. OneGroup(r) => Shown(r) = {TheGroup(r)}
      BY ShownGroup
    <2>3. \A n \in Owned(groups, r) : n \in GroupNames /\ groups[n] # Nil
      BY <1>1, OwnGroup DEF RInv
    <2> QED
      BY <2>1, <2>2, <2>3 DEF ItemsShown, NoGroup
  <1>3. PICK items \in Items :
           /\ Sweeping(r, "sweep", items)
           /\ \/ Owned(groups, r) = {} /\ items = <<>>
              \/ Owned(groups, r) = {TheGroup(r)} /\ items = groups[TheGroup(r)].items
    <2>1. CASE NoGroup(r) /\ Sweeping(r, "sweep", <<>>)
      BY <1>2, <2>1, ListOfItems
    <2>2. CASE OneGroup(r) /\ Sweeping(r, "sweep", cached[TheGroup(r)].items)
      <3>1. TheGroup(r) \in GroupNames /\ groups[TheGroup(r)] # Nil
        BY <1>2, <2>2
      <3>2. groups[TheGroup(r)].items \in Items
        BY <1>1, <3>1, GroupItems
      <3> QED
        BY <1>2, <2>2, <3>2
    <2> QED
      BY <2>1, <2>2 DEF DiscardStagedResources
  <1>4. PICK c \in Calls : /\ work' = [work EXCEPT ![r] = c]
                           /\ c.step = "sweep" /\ c.items = items
    <2>1. "sweep" \in StepNames /\ Sweeping(r, "sweep", items)
      BY <1>3 DEF StepNames
    <2>2. \E c \in Calls : /\ work' = [work EXCEPT ![r] = c]
                           /\ c.step = "sweep" /\ c.want = Nil /\ c.items = items /\ c.todo = {}
      BY <1>1, <2>1, SweepingIs
    <2> QED
      BY <2>2
  <1>5. work'[r] = c
    BY <1>1, <1>4 DEF CallsFit
  <1>6. /\ UNCHANGED <<bundles, groups, agent, applied, committed, torn, swept>>
        /\ staged' = Cleared(r) /\ pending' = pending \ {r}
    BY DEF DiscardStagedResources
  <1>7. Owned(groups', r) = Owned(groups, r) /\ Owned(bundles', r) = Owned(bundles, r)
    BY <1>6
  <1>8. StagingFits(r)' /\ RecordFits(r)'
    BY <1>4, <1>5 DEF StagingFits, RecordFits
  <1>9. SweepFits(r)'
    BY <1>3, <1>4, <1>5, <1>6, <1>7, EmptyList DEF SweepFits
  <1>10. EndFits(r)'
    <2>1. staged'[GeKey(r)] = <<>>
      BY <1>1, <1>6, KeyIn DEF Cleared, CallsFit
    <2> QED
      BY <1>4, <1>5, <2>1 DEF EndFits
  <1>11. SweptFits(r)'
    BY <1>1, <1>4, <1>5, <1>6, <1>7 DEF RInv, SweptFits
  <1>12. \/ work'[r].items = <<>>
         \/ \E n \in Owned(groups, r) : work'[r].items = groups[n].items
    BY <1>3, <1>4, <1>5
  <1>13. \E d \in Calls : work' = [work EXCEPT ![r] = d]
    BY <1>4
  <1> QED
    BY <1>6, <1>8, <1>9, <1>10, <1>11, <1>12, <1>13, AsideFits

(* TerminateDeploymentTracking: nothing is committed any more.             *)
LEMMA KeptTerminate ==
  ASSUME TInv, TInv', NEW r \in Requestors, RInv(r), r \notin misled',
         TerminateDeploymentTracking(r)
  PROVE  RInv(r)'
  <1>1. RInv(r) /\ CallsFit /\ RestFits
    BY Parts
  <1>2. PICK c \in Calls : /\ work' = [work EXCEPT ![r] = c]
                           /\ c.step = "terminate" /\ c.items = <<>>
    BY <1>1, SweepingIs, ListOfItems DEF TerminateDeploymentTracking, StepNames
  <1>3. work'[r] = c
    BY <1>1, <1>2 DEF CallsFit
  <1>4. /\ UNCHANGED <<bundles, groups, agent, applied, staged, torn, pending>>
        /\ committed' = [committed EXCEPT ![r] = Nil] /\ swept' = swept \ {r}
    BY DEF TerminateDeploymentTracking
  <1>5. StagingFits(r)' /\ RecordFits(r)' /\ SweepFits(r)'
    BY <1>2, <1>3 DEF StagingFits, RecordFits, SweepFits
  <1>6. EndFits(r)'
    <2>1. committed'[r] = Nil
      BY <1>1, <1>4 DEF RestFits
    <2> QED
      BY <1>1, <1>2, <1>3, <1>4, <2>1 DEF RInv, EndFits
  <1>7. SweptFits(r)'
    BY <1>4 DEF SweptFits
  <1>8. \E d \in Calls : work' = [work EXCEPT ![r] = d]
    BY <1>2
  <1> QED
    BY <1>2, <1>3, <1>4, <1>5, <1>6, <1>7, <1>8, AsideFits

(* deleteStaleConfigurationBundles deletes a bundle that nothing the agent *)
(* may fetch refers to.                                                    *)
LEMMA KeptDeleteStale ==
  ASSUME TInv, TInv', NEW r \in Requestors, RInv(r), r \notin misled', NEW n \in Stale(r),
         work[r].step \in {"sweep", "terminate"}, DeleteBundles({n}),
         UNCHANGED <<work, swept, groups, staged, failures, agent, applied, pending, committed, torn>>
  PROVE  RInv(r)'
  <1>1. RInv(r) /\ DOMAIN bundles = BundleNames
    BY DEF TInv, TypeOK
  <1>2. n \in BundleNames /\ bundles[n] # Nil /\ bundles[n].owner = r /\ n \notin Names(work[r].items)
    BY <1>1 DEF Stale, Seen, Owned
  <1>3. bundles' = [b \in BundleNames |-> IF b = n THEN Nil ELSE bundles[b]]
    BY DEF DeleteBundles
  <1>4. /\ Owned(bundles', r) = Owned(bundles, r) \ {n}
        /\ Owned(groups', r) = Owned(groups, r)
        /\ \A b \in BundleNames : b # n => bundles'[b] = bundles[b]
        /\ bundles'[n] = Nil
    BY <1>1, <1>2, <1>3 DEF Owned
  <1>5. \A m \in Owned(groups, r) : m \in GroupNames /\ groups[m] # Nil /\ (Available(m)' <=> Available(m))
    BY DEF Owned, Available, TInv, TypeOK
  <1>6. /\ Names(staged[GeKey(r)]) \subseteq BundleNames
        /\ Names(work[r].items) \subseteq BundleNames
        /\ \A m \in Owned(groups, r) : Names(groups[m].items) \subseteq BundleNames
    BY <1>5, ListsIn
  <1>7. OneEach(r)'
    BY <1>1, <1>4, <1>2 DEF RInv, OneEach, Owned
  <1>8. Mine(r)'
    BY <1>1, <1>4, <1>6 DEF RInv, Mine
  <1>9. StagingFits(r)' /\ RecordFits(r)'
    BY DEF StagingFits, RecordFits
  <1>10. SweepFits(r)'
    BY <1>1, <1>4, <1>5, <1>6 DEF RInv, SweepFits
  <1>11. EndFits(r)'
    BY <1>1 DEF RInv, EndFits
  <1>12. SweptFits(r)'
    BY <1>1, <1>4 DEF RInv, SweptFits
  <1>13. GroupFits(r)'
    <2> SUFFICES ASSUME NEW m \in Owned(groups, r)
                 PROVE  /\ Available(m) /\ committed[r] # Nil /\ r \notin torn =>
                             /\ Listed(bundles', r, groups[m].items)
                             /\ ContentOf(bundles', groups[m].items) = Pairs(committed[r])
                        /\ Available(m) /\ r \notin torn => Kept(bundles', groups[m].items)
                        /\ groups[m].deleting => \A b \in Names(groups[m].items) : bundles'[b] = Nil
      BY <1>4, <1>5 DEF GroupFits
    <2>1. ASSUME Available(m), committed[r] # Nil, r \notin torn
          PROVE  /\ Listed(bundles', r, groups[m].items)
                 /\ ContentOf(bundles', groups[m].items) = Pairs(committed[r])
      <3>1. Names(groups[m].items) \subseteq Names(work[r].items)
        BY <1>1, <2>1 DEF RInv, SweepFits, EndFits
      <3>2. \A b \in Names(groups[m].items) : bundles'[b] = bundles[b]
        BY <1>2, <1>4, <1>6, <3>1
      <3>3. /\ Listed(bundles, r, groups[m].items)
            /\ ContentOf(bundles, groups[m].items) = Pairs(committed[r])
        BY <1>1, <2>1 DEF RInv, GroupFits
      <3> QED
        BY <3>2, <3>3, SameList
    <2>2. groups[m].deleting => \A b \in Names(groups[m].items) : bundles'[b] = Nil
      BY <1>1, <1>4, <1>6 DEF RInv, GroupFits
    <2>3. Kept(bundles, groups[m].items) => Kept(bundles', groups[m].items)
      <3>1. \A b \in Names(groups[m].items) : bundles'[b] # Nil => bundles'[b] = bundles[b]
        BY <1>4, <1>6
      <3> QED
        BY <3>1 DEF Kept, Names
    <2>4. Available(m) /\ r \notin torn => Kept(bundles', groups[m].items)
      BY <1>1, <2>3 DEF RInv, GroupFits
    <2> QED
      BY <2>1, <2>2, <2>4
  <1>14. ReportFits(r)'
    BY <1>1, <1>4, <1>5 DEF RInv, ReportFits
  <1> QED
    BY <1>7, <1>8, <1>9, <1>10, <1>11, <1>12, <1>13, <1>14 DEF RInv

(* The clean up, as a whole: when nothing is stale, nothing is left but    *)
(* what the group lists.                                                   *)
LEMMA KeptSweep ==
  ASSUME TInv, TInv', NEW r \in Requestors, RInv(r), r \notin misled', Sweep(r)
  PROVE  RInv(r)'
  <1>1. RInv(r) /\ CallsFit
    BY Parts
  <1>2. /\ UNCHANGED <<groups, staged, failures, agent, applied, pending, committed, torn>>
        /\ work[r].step \in {"sweep", "terminate"}
    BY DEF Sweep
  <1>3. CASE /\ \E n \in Stale(r) : DeleteBundles({n})
             /\ UNCHANGED <<work, swept, misled>>
    BY <1>2, <1>3, KeptDeleteStale
  <1>4. CASE /\ Stale(r) = {} /\ work[r].step = "sweep"
             /\ Return(r)
             /\ swept' = swept \cup {r}
             /\ GoBy(r, StaleShown(r))
             /\ UNCHANGED bundles
    <2>1. PICK c \in Calls : /\ work' = [work EXCEPT ![r] = c]
                             /\ c.step = "idle" /\ c.items = <<>>
      BY <1>1, <1>4, ReturnIs
    <2>2. work'[r] = c
      BY <1>1, <2>1 DEF CallsFit
    <2>3. StagingFits(r)' /\ RecordFits(r)' /\ SweepFits(r)'
      BY <2>1, <2>2 DEF StagingFits, RecordFits, SweepFits
    <2>4. EndFits(r)'
      BY <1>1, <1>2, <2>1, <2>2 DEF RInv, EndFits
    <2>5. \A b \in Owned(bundles, r) : \E n \in Owned(groups, r) : b \in Names(groups[n].items)
      <3>1. \A b \in Owned(bundles, r) : b \in Names(work[r].items) /\ bundles[b] # Nil
        BY <1>4, GoByStep DEF Stale, StaleShown, Owned
      <3> QED
        BY <1>1, <1>4, <3>1 DEF RInv, SweepFits
    <2>6. SweptFits(r)'
      BY <1>2, <1>4, <2>1, <2>2, <2>5 DEF SweptFits
    <2> QED
      BY <1>2, <1>4, <2>1, <2>2, <2>3, <2>4, <2>6, AsideFits
  <1>5. CASE /\ Stale(r) = {} /\ work[r].step = "terminate"
             /\ Goto(r, "delete")
             /\ GoBy(r, StaleShown(r))
             /\ UNCHANGED <<bundles, swept>>
    <2>1. PICK c \in Calls : /\ work' = [work EXCEPT ![r] = c]
                             /\ c.step = "delete" /\ c.items = work[r].items
      BY <1>1, <1>5, GotoIs DEF StepNames, LooksForGroup
    <2>2. work'[r] = c
      BY <1>1, <2>1 DEF CallsFit
    <2>3. work[r].items = <<>> /\ committed[r] = Nil /\ r \notin swept
      BY <1>1, <1>5 DEF RInv, EndFits, SweptFits
    <2>4. Owned(bundles, r) = {}
      BY <1>5, <2>3, GoByStep, EmptyList DEF Stale, StaleShown
    <2>5. StagingFits(r)' /\ RecordFits(r)' /\ SweepFits(r)'
      BY <2>1, <2>2 DEF StagingFits, RecordFits, SweepFits
    <2>6. EndFits(r)'
      BY <1>1, <1>2, <1>5, <2>1, <2>2, <2>3, <2>4 DEF RInv, EndFits
    <2>7. SweptFits(r)'
      BY <1>5, <2>3 DEF SweptFits
    <2> QED
      BY <1>2, <1>5, <2>1, <2>2, <2>5, <2>6, <2>7, AsideFits
  <1> QED
    BY <1>3, <1>4, <1>5 DEF Sweep

(* deleteConfigurationGroup: the agent, if it has seen the group, still    *)
(* holds it, but none of its bundles is left.                              *)
LEMMA KeptDeleteGroup ==
  ASSUME TInv, TInv', NEW r \in Requestors, RInv(r), SameGroup, r \notin misled',
         DeleteConfigurationGroup(r)
  PROVE  RInv(r)'
  <1>1. RInv(r) /\ CallsFit /\ GroupsFit /\ CachedFit
    BY Parts
  <1>2. PICK c \in Calls : /\ work' = [work EXCEPT ![r] = c]
                           /\ c.step = "idle" /\ c.items = <<>> /\ c.want = Nil /\ c.todo = {}
    BY <1>1, ReturnIs DEF DeleteConfigurationGroup
  <1>3. work'[r] = c
    BY <1>1, <1>2 DEF CallsFit
  <1>4. /\ UNCHANGED <<bundles, staged, failures, agent, applied, pending, committed, torn>>
        /\ swept' = swept \/ swept' = swept \cup {r}
    BY DEF DeleteConfigurationGroup
  <1>5. Owned(bundles, r) = {} /\ committed[r] = Nil /\ Owned(bundles', r) = {}
    BY <1>1, <1>4 DEF RInv, EndFits, DeleteConfigurationGroup
  <1>6. StagingFits(r)' /\ RecordFits(r)' /\ SweepFits(r)'
    BY <1>2, <1>3 DEF StagingFits, RecordFits, SweepFits
  <1>7. EndFits(r)'
    BY <1>1, <1>2, <1>3, <1>4 DEF RInv, EndFits
  <1>8. SweptFits(r)'
    BY <1>2, <1>3, <1>5 DEF SweptFits
  <1>9. CASE groups' = groups
    <2>1. work'[r].items = <<>> /\ committed' = committed /\ torn' = torn
      BY <1>2, <1>3, <1>4
    <2> QED
      BY <1>2, <1>4, <1>6, <1>7, <1>8, <1>9, <2>1, AsideFits
  <1>10. CASE OneGroup(r) /\ DeleteGroups({TheGroup(r)}) /\ groups[TheGroup(r)] # Nil
    <2> DEFINE n == TheGroup(r)
    <2>a. n \in GroupNames /\ groups[n] # Nil /\ groups[n].owner = r
      BY <1>1, <1>10, TheGroupIs DEF SameGroup
    <2>b. n \in Owned(groups, r)
      BY <1>1, <2>a DEF GroupsFit, Owned
    <2>1. /\ Owned(groups, r) = {n}
          /\ n \in GroupNames /\ groups[n] # Nil /\ groups[n].owner = r
      BY <1>1, <2>a, <2>b DEF RInv, OneEach
    <2> HIDE DEF n
    <2>2. \A m \in GroupNames : groups'[m] = IF m = n THEN AfterDelete(groups[n]) ELSE groups[m]
      BY <1>10 DEF DeleteGroups, n
    <2>3. groups[n] \in Group /\ DOMAIN groups' = GroupNames /\ DOMAIN groups = GroupNames
      BY <1>1, <1>10, <2>1 DEF GroupsFit, DeleteGroups
    <2>4. groups'[n] # Nil => /\ groups'[n].owner = r /\ groups'[n].deleting
                              /\ groups'[n].items = groups[n].items /\ groups'[n].action = groups[n].action
                              /\ groups'[n].observed = groups[n].observed
                              /\ groups'[n].status = groups[n].status
      <3> HAVE groups'[n] # Nil
      <3>1. groups'[n] = [groups[n] EXCEPT !.deleting = TRUE]
        BY <2>1, <2>2 DEF AfterDelete
      <3> QED
        BY <2>1, <2>3, <3>1 DEF Group
    <2>5. Owned(groups', r) \subseteq {n} /\ (n \in Owned(groups', r) => groups'[n] # Nil)
      BY <2>1, <2>2, <2>3 DEF Owned
    <2>6. OneEach(r)'
      BY <1>5, <2>5 DEF OneEach
    <2>7. \A b \in Names(groups[n].items) : bundles[b] = Nil
      <3>1. \A b \in Names(groups[n].items) : b \in BundleNames /\ (bundles[b] # Nil => bundles[b].owner = r)
        BY <1>1, <2>1, ListsIn DEF RInv, Mine
      <3>2. DOMAIN bundles = BundleNames
        BY DEF TInv, TypeOK
      <3> QED
        BY <1>5, <3>1, <3>2 DEF Owned
    <2>8. Mine(r)'
      <3>1. \A b \in Names(staged'[GeKey(r)]) : bundles'[b] # Nil => bundles'[b].owner = r
        BY <1>1, <1>4 DEF RInv, Mine
      <3>2. \A b \in Names(work'[r].items) : bundles'[b] # Nil => bundles'[b].owner = r
        BY <1>2, <1>3, EmptyList
      <3>3. \A m \in Owned(groups', r) : \A b \in Names(groups'[m].items) :
               bundles'[b] # Nil => bundles'[b].owner = r
        BY <1>4, <2>4, <2>5, <2>7
      <3> QED
        BY <3>1, <3>2, <3>3 DEF Mine
    <2>9. GroupFits(r)'
      BY <1>4, <1>5, <2>4, <2>5, <2>7 DEF GroupFits, Available
    <2>10. ReportFits(r)'
      <3> SUFFICES ASSUME n \in Owned(groups', r)
                   PROVE  /\ agent[n] # Nil /\ agent[n].current =>
                              agent[n].items = groups'[n].items /\ agent[n].action = groups'[n].action
                          /\ groups'[n].observed /\ groups'[n].status = "Provisioned" /\ groups'[n].action = "Deploy" =>
                               (groups'[n].items = <<>> => applied[r] = {})
                          /\ groups'[n].deleting
        BY <1>4, <1>5, <2>5 DEF ReportFits
      <3>1. groups'[n] # Nil
        BY <2>5
      <3> QED
        BY <1>1, <2>1, <2>4, <3>1 DEF RInv, ReportFits
    <2> QED
      BY <1>6, <1>7, <1>8, <2>6, <2>8, <2>9, <2>10 DEF RInv
  <1>11. CASE OneGroup(r) /\ DeleteGroups({TheGroup(r)}) /\ groups[TheGroup(r)] = Nil
    <2>1. DOMAIN groups' = GroupNames /\ DOMAIN groups = GroupNames
      BY <1>1, <1>11 DEF DeleteGroups, GroupsFit
    <2>2. \A m \in GroupNames : groups'[m] = groups[m]
      BY <1>11 DEF DeleteGroups, AfterDelete
    <2>3. Owned(groups', r) = Owned(groups, r) /\ \A m \in GroupNames : Available(m)' <=> Available(m)
      BY <2>1, <2>2 DEF Owned, Available
    <2>4. \A m \in Owned(groups, r) : m \in GroupNames /\ groups'[m] = groups[m]
      BY <2>1, <2>2 DEF Owned
    <2>5. OneEach(r)'
      BY <1>4, <2>3 DEF RInv, OneEach
    <2>6. Mine(r)'
      BY <1>2, <1>3, <1>4, <2>3, <2>4, EmptyList DEF RInv, Mine
    <2>7. GroupFits(r)'
      BY <1>4, <2>3, <2>4 DEF RInv, GroupFits
    <2>8. ReportFits(r)'
      BY <1>4, <2>3, <2>4 DEF RInv, ReportFits
    <2> QED
      BY <1>6, <1>7, <1>8, <2>5, <2>6, <2>7, <2>8 DEF RInv
  <1> QED
    BY <1>9, <1>10, <1>11 DEF DeleteConfigurationGroup

(* The restart of the process: what was staged is not referred to any more, *)
(* and what the agent may fetch stays as it is.                            *)
LEMMA KeptRestart ==
  ASSUME TInv, RInvs, Restart
  PROVE  RInvs'
  <1> SUFFICES ASSUME NEW r \in Requestors, Alone(r), r \notin misled' PROVE RInv(r)'
    BY DEF RInvs, Sound, Alone, GeKey
  <1>1. RInv(r)
    BY DEF RInvs, Sound, Restart
  <1>2. /\ UNCHANGED <<bundles, groups, agent, applied, committed, torn, swept>>
        /\ pending' = {} /\ work'[r] = Idle /\ staged'[GeKey(r)] = <<>>
    BY KeyIn DEF Restart
  <1>3. Idle.step = "idle" /\ Idle.items = <<>>
    BY DEF Idle
  <1>4. OneEach(r)' /\ Mine(r)' /\ GroupFits(r)' /\ ReportFits(r)'
    BY <1>1, <1>2, <1>3, StillFits
  <1>5. StagingFits(r)' /\ RecordFits(r)' /\ SweepFits(r)' /\ EndFits(r)'
    BY <1>2, <1>3 DEF StagingFits, RecordFits, SweepFits, EndFits
  <1>6. SweptFits(r)'
    BY <1>1, <1>2, <1>3 DEF RInv, SweptFits, Owned
  <1> QED
    BY <1>4, <1>5, <1>6 DEF RInv

(* The agent writes to a group: its finalizer and its status only.         *)
LEMMA KeptByAgent ==
  ASSUME TInv, TInv', NEW n \in GroupNames, groups[n] # Nil, NEW h \in Group,
         NEW r \in Requestors, r = groups[n].owner, RInv(r),
         groups' = [groups EXCEPT ![n] = h],
         h.owner = groups[n].owner, h.deleting = groups[n].deleting,
         h.phase = groups[n].phase, h.action = groups[n].action, h.items = groups[n].items,
         UNCHANGED <<bundles, staged, work, failures, history>>,
         ReportFits(r)'
  PROVE  RInv(r)'
  <1>1. DOMAIN groups = GroupNames
    BY Parts DEF GroupsFit
  <1>2. RInv(r)
    OBVIOUS
  <1>3. h # Nil
    BY PullModeAssumption
  <1>4. /\ \A m \in GroupNames : m # n => groups'[m] = groups[m]
        /\ groups'[n] = h
    BY <1>1
  <1>5. Owned(groups', r) = Owned(groups, r) /\ Owned(bundles', r) = Owned(bundles, r)
    BY <1>1, <1>3, <1>4 DEF Owned
  <1>6. \A m \in Owned(groups, r) : /\ m \in GroupNames /\ groups[m] # Nil
                                    /\ groups'[m].items = groups[m].items
                                    /\ groups'[m].phase = groups[m].phase
                                    /\ groups'[m].deleting = groups[m].deleting
                                    /\ (Available(m)' <=> Available(m))
    BY <1>1, <1>3, <1>4 DEF Owned, Available
  <1>7. OneEach(r)' /\ Mine(r)'
    <2>1. OneEach(r)'
      BY <1>2, <1>5 DEF RInv, OneEach
    <2>2. Mine(r)'
      BY <1>2, <1>5, <1>6 DEF RInv, Mine
    <2> QED
      BY <2>1, <2>2
  <1>8. StagingFits(r)'
    BY <1>2, <1>5, <1>6 DEF RInv, StagingFits, Asked, history
  <1>9. RecordFits(r)'
    BY <1>2 DEF RInv, RecordFits, Asked, history
  <1>10. SweepFits(r)' /\ EndFits(r)' /\ SweptFits(r)'
    <2>1. SweepFits(r)'
      <3>1. work' = work /\ bundles' = bundles /\ committed' = committed
        BY DEF history
      <3>2. CASE work[r].step = "sweep"
        <4>1. /\ \A m \in Owned(groups, r) : Available(m) /\ committed[r] # Nil =>
                    Names(groups[m].items) \subseteq Names(work[r].items)
              /\ \A b \in Names(work[r].items) : bundles[b] # Nil =>
                    \E m \in Owned(groups, r) : b \in Names(groups[m].items)
          BY <1>2, <3>2 DEF RInv, SweepFits
        <4>2. \A m \in Owned(groups, r) : /\ Names(groups'[m].items) = Names(groups[m].items)
                                          /\ Available(m)' <=> Available(m)
          BY <1>6
        <4>3. \A m \in Owned(groups', r) : Available(m)' /\ committed'[r] # Nil =>
                 Names(groups'[m].items) \subseteq Names(work'[r].items)
          BY <1>5, <3>1, <4>1, <4>2
        <4>4. \A b \in Names(work'[r].items) : bundles'[b] # Nil =>
                 \E m \in Owned(groups', r) : b \in Names(groups'[m].items)
          BY <1>5, <3>1, <4>1, <4>2
        <4> QED
          BY <4>3, <4>4 DEF SweepFits
      <3>3. CASE work[r].step # "sweep"
        BY <3>1, <3>3 DEF SweepFits
      <3> QED
        BY <3>2, <3>3
    <2>2. EndFits(r)'
      BY <1>2, <1>5 DEF RInv, EndFits, history
    <2>3. SweptFits(r)'
      BY <1>2, <1>5, <1>6 DEF RInv, SweptFits, history
    <2> QED
      BY <2>1, <2>2, <2>3
  <1>11. GroupFits(r)'
    BY <1>2, <1>5, <1>6 DEF RInv, GroupFits, history
  <1> QED
    BY <1>7, <1>8, <1>9, <1>10, <1>11 DEF RInv

(* It fetches what the group says now.                                     *)
LEMMA KeptFetch ==
  ASSUME TInv, TInv', NEW n \in GroupNames, AgentFetch(n), NEW r \in Requestors,
         r = groups[n].owner, RInv(r)
  PROVE  RInv(r)'
  <1>1. GroupsFit
    BY Parts
  <1>2. PICK h \in Group, v \in Version :
           /\ groups[n] # Nil /\ agent[n] = Nil
           /\ groups' = [groups EXCEPT ![n] = h] /\ agent' = [agent EXCEPT ![n] = v]
           /\ h.owner = groups[n].owner /\ h.deleting = groups[n].deleting
           /\ h.finalizer /\ h.status = groups[n].status /\ h.phase = groups[n].phase
           /\ h.action = groups[n].action /\ h.items = groups[n].items /\ h.observed = groups[n].observed
           /\ v.action = groups[n].action /\ v.items = groups[n].items /\ v.deleting = groups[n].deleting
    BY <1>1, FetchIs
  <1>3. UNCHANGED <<bundles, staged, work, failures, applied, history>>
    BY DEF AgentFetch
  <1>4. /\ Owned(groups, r) = {n} /\ groups'[n] = h /\ agent'[n] = v
        /\ \A m \in GroupNames : m # n => agent'[m] = agent[m]
    <2>1. n \in Owned(groups, r)
      BY <1>1, <1>2 DEF Owned, GroupsFit
    <2> QED
      BY <1>1, <1>2, <2>1, OwnGroup DEF RInv, GroupsFit
  <1>5. h # Nil
    BY PullModeAssumption
  <1>6. Owned(groups', r) = {n}
    BY <1>1, <1>2, <1>4, <1>5 DEF Owned, GroupsFit
  <1>7. Available(n)' <=> Available(n)
    BY <1>2, <1>4, <1>5 DEF Available
  <1>8. ReportFits(r)'
    BY <1>2, <1>3, <1>4, <1>6, <1>7 DEF RInv, ReportFits, history
  <1> QED
    BY <1>2, <1>3, <1>8, KeptByAgent

(* It reports on the version it has processed, which need not be the       *)
(* group's any more.                                                       *)
LEMMA KeptReport ==
  ASSUME TInv, TInv', NEW n \in GroupNames, agent[n] # Nil, NEW r \in Requestors,
         r = groups[n].owner, RInv(r),
         Removes(n) \/ Deploys(n) \/ Misses(n),
         UNCHANGED <<bundles, staged, work, failures, history>>
  PROVE  RInv(r)'
  <1>1. GroupsFit /\ RestFits
    BY Parts
  <1>2. PICK status \in {"Removed", "Provisioned", "Failed"} :
           AgentReport(n, status) /\ (status = "Provisioned" => Deploys(n))
    BY DEF Removes, Deploys, Misses
  <1>3. PICK h \in Group :
           /\ groups' = [groups EXCEPT ![n] = h] /\ agent' = [agent EXCEPT ![n] = Nil]
           /\ h.owner = groups[n].owner /\ h.deleting = groups[n].deleting
           /\ h.finalizer = groups[n].finalizer /\ h.status = status /\ h.phase = groups[n].phase
           /\ h.action = groups[n].action /\ h.items = groups[n].items
           /\ h.observed = agent[n].current
    BY <1>1, <1>2, ReportIs
  <1>4. RInv(r) /\ groups[n] # Nil
    BY <1>1 DEF GroupsFit
  <1>5. /\ Owned(groups, r) = {n} /\ groups'[n] = h /\ agent'[n] = Nil
        /\ \A m \in GroupNames : m # n => agent'[m] = agent[m]
    <2>1. n \in Owned(groups, r)
      BY <1>1, <1>4 DEF Owned, GroupsFit
    <2> QED
      BY <1>1, <1>3, <1>4, <2>1, OwnGroup DEF RInv, GroupsFit
  <1>6. h # Nil
    BY PullModeAssumption
  <1>7. Owned(groups', r) = {n}
    BY <1>1, <1>3, <1>5, <1>6 DEF Owned, GroupsFit
  <1>8. Available(n)' <=> Available(n)
    BY <1>3, <1>4, <1>5, <1>6 DEF Available
  <1>9. ASSUME groups'[n].observed, groups'[n].status = "Provisioned", groups'[n].action = "Deploy"
         PROVE  /\ Available(n) /\ committed[r] # Nil /\ r \notin torn => applied'[r] = Pairs(committed[r])
                /\ groups'[n].items = <<>> => applied'[r] = {}
    <2>1. Deploys(n)
      BY <1>2, <1>3, <1>5, <1>9
    <2>2. applied'[r] = ContentOf(bundles, agent[n].items)
      BY <1>1, <2>1 DEF Deploys, RestFits
    <2>3. agent[n].items = groups[n].items
      BY <1>3, <1>4, <1>5, <1>9 DEF RInv, ReportFits
    <2>4. Available(n) /\ committed[r] # Nil /\ r \notin torn =>
             ContentOf(bundles, groups[n].items) = Pairs(committed[r])
      BY <1>4, <1>5 DEF RInv, GroupFits
    <2>5. groups[n].items = <<>> => ContentOf(bundles, groups[n].items) = {}
      BY EmptyList
    <2> QED
      BY <1>3, <1>5, <2>2, <2>3, <2>4, <2>5
  <1>10. ReportFits(r)'
    BY <1>5, <1>7, <1>8, <1>9 DEF ReportFits, history
  <1> QED
    BY <1>3, <1>4, <1>10, KeptByAgent

(* It lets a group go that is being deleted: no bundle of it is left.      *)
LEMMA KeptClean ==
  ASSUME TInv, TInv', NEW n \in GroupNames, agent[n] # Nil, Cleans(n), NEW r \in Requestors,
         r = groups[n].owner, RInv(r),
         UNCHANGED <<bundles, staged, work, failures, history>>
  PROVE  RInv(r)'
  <1>1. GroupsFit /\ RestFits
    BY Parts
  <1>2. RInv(r) /\ groups[n] # Nil
    BY <1>1 DEF GroupsFit
  <1>3. /\ applied' = [applied EXCEPT ![r] = {}]
        /\ groups' = [groups EXCEPT ![n] = Nil] /\ agent' = [agent EXCEPT ![n] = Nil]
    BY DEF Cleans
  <1>4. Owned(groups, r) = {n}
    <2>1. n \in Owned(groups, r)
      BY <1>1, <1>2 DEF Owned, GroupsFit
    <2> QED
      BY <1>2, <2>1, OwnGroup DEF RInv
  <1>5. /\ groups'[n] = Nil /\ \A m \in GroupNames : m # n => groups'[m] = groups[m] /\ agent'[m] = agent[m]
    BY <1>1, <1>3 DEF GroupsFit
  <1>6. Owned(groups', r) = {} /\ Owned(bundles', r) = Owned(bundles, r)
    BY <1>1, <1>3, <1>4, <1>5 DEF Owned, GroupsFit
  <1>7. \A b \in Names(groups[n].items) : bundles[b] = Nil
    BY <1>2, <1>4 DEF RInv, ReportFits, GroupFits, Cleans
  <1>8. OneEach(r)' /\ Mine(r)' /\ GroupFits(r)' /\ ReportFits(r)'
    BY <1>2, <1>6 DEF RInv, OneEach, Mine, GroupFits, ReportFits
  <1>9. StagingFits(r)'
    BY <1>2, <1>6 DEF RInv, StagingFits, Asked, history
  <1>10. RecordFits(r)' /\ EndFits(r)'
    BY <1>2, <1>6 DEF RInv, RecordFits, EndFits, Asked, history
  <1>11. SweepFits(r)'
    BY <1>2, <1>4, <1>6, <1>7 DEF RInv, SweepFits
  <1>12. SweptFits(r)'
    <2>1. \A b \in Owned(bundles, r) : bundles[b] # Nil
      BY DEF Owned
    <2> QED
      BY <1>2, <1>4, <1>6, <1>7, <2>1 DEF RInv, SweptFits, history
  <1> QED
    BY <1>8, <1>9, <1>10, <1>11, <1>12 DEF RInv

(* The cache catches up with a bundle, of which it changes nothing else.   *)
LEMMA KeptSeen ==
  ASSUME TInv, TInv', NEW n \in BundleNames, bundles[n] # Nil, NEW b \in Bundle,
         NEW r \in Requestors, RInv(r),
         bundles' = [bundles EXCEPT ![n] = b],
         b.owner = bundles[n].owner, b.index = bundles[n].index, b.content = bundles[n].content,
         UNCHANGED <<groups, staged, work, failures, agent, applied, history>>
  PROVE  RInv(r)'
  <1>1. /\ DOMAIN bundles = BundleNames /\ DOMAIN bundles' = BundleNames
        /\ b # Nil /\ bundles'[n] = b
        /\ \A m \in BundleNames : m # n => bundles'[m] = bundles[m]
    BY PullModeAssumption DEF TInv, TypeOK
  <1>2. /\ \A m \in BundleNames : bundles'[m] # Nil <=> bundles[m] # Nil
        /\ \A m \in BundleNames : bundles[m] # Nil =>
              /\ bundles'[m].owner = bundles[m].owner /\ bundles'[m].index = bundles[m].index
              /\ bundles'[m].content = bundles[m].content
    BY <1>1
  <1>3. Owned(bundles', r) = Owned(bundles, r) /\ Owned(groups', r) = Owned(groups, r)
    BY <1>1, <1>2 DEF Owned
  <1>4. /\ Names(staged[GeKey(r)]) \subseteq BundleNames
        /\ Names(work[r].items) \subseteq BundleNames
        /\ \A m \in Owned(groups, r) : groups[m] # Nil /\ Names(groups[m].items) \subseteq BundleNames
    BY ListsIn DEF Owned, TInv, TypeOK
  <1>5. ASSUME NEW items, Names(items) \subseteq BundleNames, Listed(bundles, r, items)
        PROVE  Listed(bundles', r, items) /\ ContentOf(bundles', items) = ContentOf(bundles, items)
    <2>1. \A m \in Names(items) : m \in BundleNames /\ bundles[m] # Nil
      BY <1>5, ListedAreOwned
    <2>2. \A i \in DOMAIN items : items[i].name \in Names(items)
      BY DEF Names
    <2>3. Listed(bundles', r, items)
      BY <1>2, <1>5, <2>1, <2>2 DEF Listed
    <2>4. ContentOf(bundles', items) = ContentOf(bundles, items)
      BY <1>2, <2>1 DEF ContentOf
    <2> QED
      BY <2>3, <2>4
  <1>6. OneEach(r)'
    BY <1>1, <1>2, <1>3 DEF RInv, OneEach, Owned
  <1>7. Mine(r)'
    BY <1>2, <1>3, <1>4 DEF RInv, Mine
  <1>8. StagingFits(r)' /\ RecordFits(r)'
    <2>1. StagingFits(r)'
      BY <1>3, <1>4, <1>5 DEF RInv, StagingFits, Asked, history
    <2>2. RecordFits(r)'
      BY <1>4, <1>5 DEF RInv, RecordFits, Asked, history
    <2> QED
      BY <2>1, <2>2
  <1>9. \A m \in GroupNames : Available(m)' <=> Available(m)
    BY DEF Available
  <1>10. \A m \in Owned(groups, r) : m \in GroupNames
    BY DEF Owned, TInv, TypeOK
  <1>11. SweepFits(r)'
    BY <1>2, <1>3, <1>4, <1>9, <1>10 DEF RInv, SweepFits, history
  <1>12. EndFits(r)' /\ SweptFits(r)'
    BY <1>3 DEF RInv, EndFits, SweptFits, history
  <1>13. GroupFits(r)'
    <2>1. ASSUME NEW items, Names(items) \subseteq BundleNames, Kept(bundles, items)
          PROVE  Kept(bundles', items)
      BY <1>2, <2>1 DEF Kept, Names
    <2> QED
      BY <1>2, <1>3, <1>4, <1>5, <1>9, <1>10, <2>1 DEF RInv, GroupFits, history
  <1>14. ReportFits(r)'
    BY <1>3, <1>9, <1>10 DEF RInv, ReportFits, history
  <1> QED
    BY <1>6, <1>7, <1>8, <1>11, <1>12, <1>13, <1>14 DEF RInv

(* What a change of its group's spec, or its creation, means to r.         *)
SpecWritten(r, n, new, phase, action, items) ==
  /\ Owned(groups', r) = {n}
  /\ groups'[n] # Nil /\ groups'[n].phase = phase /\ groups'[n].action = action /\ groups'[n].items = items
  /\ groups'[n].deleting => n \in Owned(groups, r) /\ groups[n].deleting
  /\ agent'[n] # Nil /\ agent'[n].deleting => groups'[n].deleting
  /\ new => ~groups'[n].observed /\ r \notin torn' /\ (agent'[n] # Nil => ~agent'[n].current)
  /\ ~new => /\ n \in Owned(groups, r) /\ phase = groups[n].phase /\ action = groups[n].action
             /\ items = groups[n].items /\ torn' = torn /\ agent'[n] = agent[n]
             /\ groups'[n].deleting = groups[n].deleting
             /\ groups'[n].observed => groups[n].observed
             /\ groups'[n].status = groups[n].status

(* So it is when the requestor has a group,                                *)
LEMMA SpecOfOne ==
  ASSUME TInv, NEW r \in Requestors, RInv(r), UNCHANGED bundles,
         NEW phase \in {"Ready", "Preparing"}, NEW action \in {"Deploy", "Remove"}, NEW items \in Items,
         CurrentGroup(r), SetSpec(TheGroup(r), phase, action, items)
  PROVE  \E n \in GroupNames, new \in BOOLEAN : SpecWritten(r, n, new, phase, action, items)
  <1> DEFINE n == TheGroup(r)
  <1>1. /\ Owned(groups, r) = {n}
        /\ n \in GroupNames /\ groups[n] # Nil /\ groups[n].owner = r
    BY OwnGroup DEF RInv
  <1>2. SetSpec(n, phase, action, items)
    OBVIOUS
  <1> HIDE DEF n
  <1>3. GroupsFit
    BY Parts
  <1>4. \E h \in Group, new \in BOOLEAN :
           /\ groups' = [groups EXCEPT ![n] = h]
           /\ h.owner = groups[n].owner /\ h.deleting = groups[n].deleting
           /\ h.finalizer = groups[n].finalizer /\ h.status = groups[n].status
           /\ h.phase = phase /\ h.action = action /\ h.items = items
           /\ h.observed => groups[n].observed /\ ~new
           /\ DOMAIN agent' = GroupNames
           /\ \A m \in GroupNames : m # n \/ ~new \/ agent[m] = Nil => agent'[m] = agent[m]
           /\ agent[n] # Nil => /\ agent'[n] \in Version
                                /\ agent'[n].items = agent[n].items /\ agent'[n].action = agent[n].action
                                /\ agent'[n].deleting = agent[n].deleting
                                /\ agent'[n].current => agent[n].current /\ ~new
           /\ ~new => /\ phase = groups[n].phase /\ action = groups[n].action
                      /\ items = groups[n].items /\ torn' = torn
           /\ new => torn' = torn \ {groups[n].owner}
    BY <1>1, <1>2, <1>3, SpecIsSet
  <1>5. PICK h \in Group, new \in BOOLEAN :
           /\ groups' = [groups EXCEPT ![n] = h]
           /\ h.owner = r /\ h.deleting = groups[n].deleting
           /\ h.status = groups[n].status
           /\ h.phase = phase /\ h.action = action /\ h.items = items
           /\ h.observed => groups[n].observed /\ ~new
           /\ \A m \in GroupNames : m # n \/ ~new \/ agent[m] = Nil => agent'[m] = agent[m]
           /\ agent[n] # Nil => /\ agent'[n].deleting = agent[n].deleting
                                /\ agent'[n].current => agent[n].current /\ ~new
           /\ ~new => /\ phase = groups[n].phase /\ action = groups[n].action
                      /\ items = groups[n].items /\ torn' = torn
           /\ new => torn' = torn \ {r}
    BY <1>1, <1>4
  <1>6. h # Nil
    BY PullModeAssumption
  <1>7. /\ groups'[n] = h /\ \A m \in GroupNames : m # n => groups'[m] = groups[m]
        /\ DOMAIN groups' = GroupNames
    BY <1>1, <1>3, <1>5 DEF GroupsFit
  <1>8. Owned(groups', r) = {n}
    BY <1>1, <1>3, <1>5, <1>6, <1>7 DEF Owned, GroupsFit
  <1>9. agent[n] # Nil /\ agent[n].deleting => groups[n].deleting
    BY <1>1 DEF RInv, ReportFits
  <1>10. agent'[n] # Nil => agent[n] # Nil
    BY <1>1, <1>5
  <1>11. /\ agent'[n] # Nil /\ agent'[n].deleting => groups'[n].deleting
         /\ new => ~groups'[n].observed /\ r \notin torn' /\ (agent'[n] # Nil => ~agent'[n].current)
    BY <1>5, <1>7, <1>9, <1>10
  <1>12. ~new => /\ n \in Owned(groups, r) /\ phase = groups[n].phase /\ action = groups[n].action
                 /\ items = groups[n].items /\ torn' = torn /\ agent'[n] = agent[n]
                 /\ groups'[n].deleting = groups[n].deleting
                 /\ groups'[n].observed => groups[n].observed
                 /\ groups'[n].status = groups[n].status
    BY <1>1, <1>5, <1>7
  <1>13. SpecWritten(r, n, new, phase, action, items)
    BY <1>1, <1>5, <1>6, <1>7, <1>8, <1>11, <1>12 DEF SpecWritten
  <1> QED
    BY <1>1, <1>13

(* and when it has none.                                                   *)
LEMMA SpecOfNew ==
  ASSUME TInv, NEW r \in Requestors, RInv(r), UNCHANGED bundles,
         NEW action \in {"Deploy", "Remove"}, NEW items \in Items,
         NoGroup(r), GroupShown(r), CreateGroup(r, action, items)
  PROVE  \E n \in GroupNames : SpecWritten(r, n, TRUE, "Ready", action, items)
  <1>1. GroupsFit /\ Owned(groups, r) = {}
    BY Parts, OwnGroup DEF RInv
  <1>2. PICK n \in GroupNames, h \in Group :
           /\ groups[n] = Nil /\ groups' = [groups EXCEPT ![n] = h]
           /\ h.owner = r /\ ~h.deleting /\ ~h.finalizer /\ h.phase = "Ready"
           /\ h.action = action /\ h.items = items /\ ~h.observed /\ h.status = "None"
           /\ torn' = torn \ {r} /\ agent' = agent
    BY <1>1, GroupIsCreated
  <1>3. h # Nil /\ agent[n] = Nil
    BY <1>1, <1>2, PullModeAssumption DEF GroupsFit
  <1>4. /\ groups'[n] = h /\ \A m \in GroupNames : m # n => groups'[m] = groups[m]
        /\ DOMAIN groups' = GroupNames
    BY <1>1, <1>2 DEF GroupsFit
  <1>5. Owned(groups', r) = {n}
    BY <1>1, <1>2, <1>3, <1>4 DEF Owned, GroupsFit
  <1>6. SpecWritten(r, n, TRUE, "Ready", action, items)
    BY <1>2, <1>3, <1>4, <1>5 DEF SpecWritten
  <1> QED
    BY <1>6

(* What all changes of a spec have in common: the lists stay with r, and   *)
(* what the agent may say of the new spec it has not said yet.             *)
LEMMA SpecFits ==
  ASSUME TInv, NEW r \in Requestors, RInv(r), UNCHANGED <<bundles, applied>>,
         NEW phase, NEW action, NEW items, NEW n \in GroupNames, NEW new \in BOOLEAN,
         SpecWritten(r, n, new, phase, action, items),
         \A b \in Names(items) : bundles[b] # Nil => bundles[b].owner = r,
         \A b \in Names(work'[r].items) : bundles[b] # Nil => bundles[b].owner = r,
         staged'[GeKey(r)] = staged[GeKey(r)] \/ staged'[GeKey(r)] = <<>>,
         \/ committed'[r] = committed[r] \/ committed'[r] = Nil \/ new
         \/ r \in torn \/ (items = <<>> /\ Pairs(committed'[r]) = {})
  PROVE  OneEach(r)' /\ Mine(r)' /\ ReportFits(r)'
  <1>1. Owned(groups', r) = {n} /\ Owned(bundles', r) = Owned(bundles, r) /\ groups'[n].items = items
    BY DEF SpecWritten
  <1>2. OneEach(r)'
    BY <1>1 DEF RInv, OneEach
  <1>3. Mine(r)'
    BY <1>1, EmptyList DEF RInv, Mine
  <1>4. ReportFits(r)'
    <2>1. CASE new
      BY <1>1, <2>1 DEF ReportFits, SpecWritten
    <2>2. CASE ~new
      <3>1. /\ n \in Owned(groups, r) /\ phase = groups[n].phase /\ action = groups[n].action
            /\ items = groups[n].items /\ torn' = torn /\ agent'[n] = agent[n]
            /\ groups'[n].deleting = groups[n].deleting
            /\ groups'[n].observed => groups[n].observed
            /\ groups'[n].status = groups[n].status
            /\ groups'[n] # Nil /\ groups'[n].phase = phase /\ groups'[n].action = action
            /\ agent'[n] # Nil /\ agent'[n].deleting => groups'[n].deleting
        BY <2>2 DEF SpecWritten
      <3>2. groups[n] # Nil /\ (Available(n)' <=> Available(n))
        BY <3>1 DEF Owned, Available
      <3>3. /\ agent[n] # Nil /\ agent[n].current =>
                 agent[n].items = groups[n].items /\ agent[n].action = groups[n].action
            /\ groups[n].observed /\ groups[n].status = "Provisioned" /\ groups[n].action = "Deploy" =>
                 /\ Available(n) /\ committed[r] # Nil /\ r \notin torn => applied[r] = Pairs(committed[r])
                 /\ groups[n].items = <<>> => applied[r] = {}
        BY <3>1 DEF RInv, ReportFits
      <3>4. /\ agent'[n] # Nil /\ agent'[n].current =>
                 agent'[n].items = groups'[n].items /\ agent'[n].action = groups'[n].action
            /\ groups'[n].observed /\ groups'[n].status = "Provisioned" /\ groups'[n].action = "Deploy" =>
                 /\ Available(n)' /\ committed'[r] # Nil /\ r \notin torn' => applied'[r] = Pairs(committed'[r])
                 /\ groups'[n].items = <<>> => applied'[r] = {}
        BY <1>1, <2>2, <3>1, <3>2, <3>3
      <3> QED
        BY <1>1, <3>1, <3>4 DEF ReportFits
    <2> QED
      BY <2>1, <2>2
  <1> QED
    BY <1>2, <1>3, <1>4

(* CommitStagedResources and the end of RecordResourcesForDeployment: what *)
(* is listed is there, and it is all that was asked for.                   *)
LEMMA KeptCommit ==
  ASSUME TInv, TInv', NEW r \in Requestors, RInv(r), r \notin misled',
         CommitStagedResources(r) \/ RecordGroup(r)
  PROVE  RInv(r)'
  <1>1. RInv(r) /\ CallsFit /\ GroupsFit /\ RestFits
    BY Parts
  <1>2. UNCHANGED <<bundles, applied, swept>>
    BY DEF CommitStagedResources, RecordGroup
  <1>3. PICK items \in Items :
           /\ ReconcileGroup(r, items)
           /\ Sweeping(r, "sweep", items) \/ (Return(r) /\ UNCHANGED <<staged, pending>> /\ r \in pending)
           /\ \/ CommitStagedResources(r) /\ items = staged[GeKey(r)]
              \/ RecordGroup(r) /\ items = work[r].items
    <2>1. work[r].items \in Items /\ staged[GeKey(r)] \in Items
      BY <1>1, KeyIn DEF CallsFit, Calls
    <2>2. work[r].step = "staged" => r \in pending
      BY DEF RInv, StagingFits
    <2> QED
      BY <2>1, <2>2 DEF CommitStagedResources, RecordGroup
  <1>4. /\ work[r].todo = {} /\ work[r].want \in Wants
        /\ Listed(bundles, r, items) /\ ContentOf(bundles, items) = Asked(r)
        /\ \/ \A n \in Owned(groups, r) : groups[n].phase = "Preparing"
           \/ r \in torn \/ items = <<>>
        /\ r \notin swept
    <2>1. CASE CommitStagedResources(r) /\ items = staged[GeKey(r)]
      <3>1. work[r].step = "staged"
        BY <2>1 DEF CommitStagedResources
      <3> QED
        BY <1>1, <2>1, <3>1 DEF RInv, StagingFits, SweptFits
    <2>2. CASE RecordGroup(r) /\ items = work[r].items
      <3>1. work[r].step = "group" /\ work[r].todo = {}
        BY <2>2 DEF RecordGroup
      <3> QED
        BY <1>1, <2>2, <3>1 DEF RInv, RecordFits, SweptFits
    <2> QED
      BY <1>3, <2>1, <2>2
  <1>5. Asked(r) = Pairs(work[r].want)
    BY <1>4 DEF Asked, Pairs, Given
  <1>6. PICK n \in GroupNames, new \in BOOLEAN :
          SpecWritten(r, n, new, "Ready", "Deploy", items) /\ ~groups'[n].deleting
    <2>1. CASE NoGroup(r) /\ CreateGroup(r, "Deploy", items)
      <3>1. GroupShown(r)
        BY <1>3, GoByStep DEF ReconcileGroup
      <3>2. PICK n \in GroupNames : SpecWritten(r, n, TRUE, "Ready", "Deploy", items)
        BY <1>1, <1>2, <2>1, <3>1, SpecOfNew
      <3>3. Owned(groups, r) = {}
        BY <1>1, <2>1, <3>1, OwnGroup DEF RInv
      <3>4. ~groups'[n].deleting
        BY <3>2, <3>3 DEF SpecWritten
      <3> QED
        BY <3>2, <3>4
    <2>2. CASE /\ CurrentGroup(r) /\ ~groups[TheGroup(r)].deleting
               /\ SetSpec(TheGroup(r), "Ready", "Deploy", items)
      <3>1. PICK n \in GroupNames, new \in BOOLEAN : SpecWritten(r, n, new, "Ready", "Deploy", items)
        BY <1>1, <1>2, <2>2, SpecOfOne
      <3>2. Owned(groups, r) = {TheGroup(r)}
        BY <1>1, <2>2, OwnGroup DEF RInv
      <3>3. ~groups'[n].deleting
        BY <2>2, <3>1, <3>2 DEF SpecWritten
      <3> QED
        BY <3>1, <3>3
    <2> QED
      BY <1>3, <2>1, <2>2 DEF ReconcileGroup
  <1>7. PICK c \in Calls : /\ work' = [work EXCEPT ![r] = c]
                           /\ \/ c.step = "sweep" /\ c.items = items
                              \/ /\ c.step = "idle" /\ c.items = <<>>
                                 /\ UNCHANGED <<staged, pending>> /\ r \in pending
    <2>1. CASE Sweeping(r, "sweep", items)
      BY <1>1, <2>1, SweepingIs DEF StepNames
    <2>2. CASE Return(r) /\ UNCHANGED <<staged, pending>> /\ r \in pending
      BY <1>1, <2>2, ReturnIs
    <2> QED
      BY <1>3, <2>1, <2>2
  <1>8. work'[r] = c
    BY <1>1, <1>7 DEF CallsFit
  <1>9. committed'[r] = work[r].want
    BY <1>1 DEF CommitStagedResources, RecordGroup, RestFits
  <1>10. \/ staged'[GeKey(r)] = staged[GeKey(r)] /\ pending' = pending
         \/ staged'[GeKey(r)] = <<>> /\ pending' = pending \ {r}
    BY <1>1, KeyIn DEF CommitStagedResources, RecordGroup, Cleared, CallsFit
  <1>11. /\ Owned(groups', r) = {n} /\ Owned(bundles', r) = Owned(bundles, r)
         /\ groups'[n].items = items
    BY <1>2, <1>6 DEF SpecWritten
  <1>12. new \/ r \in torn \/ (items = <<>> /\ Pairs(committed'[r]) = {})
    <2>1. CASE \A m \in Owned(groups, r) : groups[m].phase = "Preparing"
      BY <1>6, <2>1 DEF SpecWritten
    <2>2. CASE items = <<>>
      BY <1>4, <1>5, <1>9, <2>2, EmptyList
    <2> QED
      BY <1>4, <2>1, <2>2
  <1>13. OneEach(r)' /\ Mine(r)' /\ ReportFits(r)'
    <2>1. \A b \in Names(items) : bundles[b] # Nil => bundles[b].owner = r
      BY <1>4, ListedAreOwned
    <2>2. work'[r].items = items \/ work'[r].items = <<>>
      BY <1>7, <1>8
    <2>3. \A b \in Names(work'[r].items) : bundles[b] # Nil => bundles[b].owner = r
      BY <2>1, <2>2, EmptyList
    <2>4. staged'[GeKey(r)] = staged[GeKey(r)] \/ staged'[GeKey(r)] = <<>>
      BY <1>10
    <2>5. UNCHANGED <<bundles, applied>> /\ SpecWritten(r, n, new, "Ready", "Deploy", items)
      BY <1>2, <1>6
    <2> QED
      BY <1>1, <1>12, <2>1, <2>3, <2>4, <2>5, SpecFits
  <1>14. StagingFits(r)' /\ RecordFits(r)'
    BY <1>7, <1>8 DEF StagingFits, RecordFits
  <1>15. SweepFits(r)'
    BY <1>7, <1>8, <1>11 DEF SweepFits
  <1>16. EndFits(r)'
    BY <1>1, <1>7, <1>8, <1>10 DEF RInv, EndFits
  <1>17. SweptFits(r)'
    BY <1>2, <1>4 DEF SweptFits
  <1>18. GroupFits(r)'
    <2>1. Kept(bundles, items)
      BY <1>4 DEF Listed, Kept
    <2> QED
      BY <1>2, <1>4, <1>5, <1>6, <1>9, <1>11, <2>1 DEF GroupFits
  <1> QED
    BY <1>13, <1>14, <1>15, <1>16, <1>17, <1>18 DEF RInv

(* markConfigurationGroupAsPreparing hides the group from the agent, which *)
(* may be at work on what it was.                                          *)
LEMMA KeptMark ==
  ASSUME TInv, TInv', NEW r \in Requestors, RInv(r), r \notin misled',
         MarkConfigurationGroupAsPreparing(r)
  PROVE  RInv(r)'
  <1>1. RInv(r) /\ CallsFit /\ GroupsFit
    BY Parts
  <1>2. /\ UNCHANGED <<bundles, staged, failures, applied, pending, committed, swept>>
        /\ work[r].step = "mark"
    BY DEF MarkConfigurationGroupAsPreparing
  <1>3. PICK step \in {"staged", "stage"} :
          Goto(r, step) /\ (step = "staged" => work[r].todo = {})
    BY DEF MarkConfigurationGroupAsPreparing
  <1>4. PICK c \in Calls : /\ work' = [work EXCEPT ![r] = c]
                           /\ c.step = step /\ c.want = work[r].want /\ c.items = work[r].items
                           /\ c.todo = work[r].todo
    BY <1>1, <1>3, GotoIs DEF StepNames, LooksForGroup
  <1>5. work'[r] = c /\ Asked(r)' = Asked(r)
    BY <1>1, <1>4 DEF CallsFit, Asked
  <1>6. /\ r \in pending /\ work[r].want \in Wants /\ r \notin swept
        /\ Listed(bundles, r, staged[GeKey(r)]) /\ ContentOf(bundles, staged[GeKey(r)]) = Asked(r)
    BY <1>1, <1>2 DEF RInv, StagingFits, SweptFits
  <1>7. RecordFits(r)' /\ SweepFits(r)' /\ EndFits(r)' /\ SweptFits(r)'
    BY <1>2, <1>4, <1>5, <1>6 DEF RecordFits, SweepFits, EndFits, SweptFits
  <1>8. CASE NoGroup(r) /\ UNCHANGED <<groups, agent, torn>>
    <2>1. Owned(groups, r) = {}
      BY <1>1, <1>8, GoByStep, OwnGroup DEF RInv, MarkConfigurationGroupAsPreparing
    <2>2. StagingFits(r)'
      BY <1>2, <1>3, <1>4, <1>5, <1>6, <1>8, <2>1 DEF StagingFits
    <2>3. work'[r].items = work[r].items
      BY <1>4, <1>5
    <2> QED
      BY <1>2, <1>7, <1>8, <2>2, <2>3, AsideFits
  <1>9. CASE CurrentGroup(r) /\ Preparing(TheGroup(r))
    <2> DEFINE g == groups[TheGroup(r)]
    <2>1. Owned(groups, r) = {TheGroup(r)} /\ TheGroup(r) \in GroupNames /\ g # Nil
      BY <1>1, <1>9, OwnGroup DEF RInv
    <2>2. g.items \in Items /\ g.action \in {"Deploy", "Remove"}
      BY <1>1, <2>1, GroupItems
    <2>3. SetSpec(TheGroup(r), "Preparing", g.action, g.items)
      BY <1>9 DEF Preparing
    <2>4. PICK n \in GroupNames, new \in BOOLEAN : SpecWritten(r, n, new, "Preparing", g.action, g.items)
      BY <1>1, <1>2, <1>9, <2>2, <2>3, SpecOfOne
    <2>5. /\ Owned(groups', r) = {n} /\ groups'[n].phase = "Preparing" /\ groups'[n].items = g.items
          /\ groups'[n].deleting => g.deleting
      BY <2>1, <2>4 DEF SpecWritten
    <2>6. OneEach(r)' /\ Mine(r)' /\ ReportFits(r)'
      <3>1. \A b \in Names(g.items) : bundles[b] # Nil => bundles[b].owner = r
        BY <1>1, <2>1 DEF RInv, Mine
      <3>2. work'[r].items = work[r].items
        BY <1>4, <1>5
      <3>3. \A b \in Names(work'[r].items) : bundles[b] # Nil => bundles[b].owner = r
        BY <1>1, <3>2 DEF RInv, Mine
      <3>4. staged'[GeKey(r)] = staged[GeKey(r)] /\ committed'[r] = committed[r]
        BY <1>2
      <3>5. UNCHANGED <<bundles, applied>>
        BY <1>2
      <3> QED
        BY <1>1, <2>4, <3>1, <3>3, <3>4, <3>5, SpecFits
    <2>7. StagingFits(r)'
      BY <1>2, <1>3, <1>4, <1>5, <1>6, <2>5 DEF StagingFits
    <2>8. GroupFits(r)'
      <3>1. g.deleting => \A b \in Names(g.items) : bundles[b] = Nil
        BY <1>1, <2>1 DEF RInv, GroupFits
      <3> QED
        BY <1>2, <2>5, <3>1 DEF GroupFits, Available
    <2> QED
      BY <1>7, <2>6, <2>7, <2>8 DEF RInv
  <1> QED
    BY <1>8, <1>9 DEF MarkConfigurationGroupAsPreparing

(* RemoveDeployedResources: the group lists nothing, and the clean up may  *)
(* delete every bundle.                                                    *)
LEMMA KeptRemove ==
  ASSUME TInv, TInv', NEW r \in Requestors, RInv(r), r \notin misled',
         RemoveDeployedResources(r)
  PROVE  RInv(r)'
  <1>1. RInv(r) /\ CallsFit /\ GroupsFit /\ RestFits
    BY Parts
  <1>2. /\ UNCHANGED <<bundles, staged, failures, applied, pending>>
        /\ committed' = [committed EXCEPT ![r] = Nil] /\ swept' = swept \ {r}
    BY DEF RemoveDeployedResources
  <1>3. PICK c \in Calls : /\ work' = [work EXCEPT ![r] = c]
                           /\ c.step = "sweep" /\ c.items = <<>>
    <2>1. "sweep" \in StepNames /\ <<>> \in Items /\ Sweeping(r, "sweep", <<>>)
      BY ListOfItems DEF StepNames, RemoveDeployedResources
    <2>2. \E c \in Calls : /\ work' = [work EXCEPT ![r] = c]
                           /\ c.step = "sweep" /\ c.want = Nil /\ c.items = <<>> /\ c.todo = {}
      BY <1>1, <2>1, SweepingIs
    <2> QED
      BY <2>2
  <1>4. work'[r] = c /\ committed'[r] = Nil
    BY <1>1, <1>2, <1>3 DEF CallsFit, RestFits
  <1>5. PICK n \in GroupNames, new \in BOOLEAN : SpecWritten(r, n, new, "Ready", "Remove", <<>>)
    <2>1. CASE NoGroup(r) /\ CreateGroup(r, "Remove", <<>>)
      <3>1. GroupShown(r)
        BY GoByStep DEF RemoveDeployedResources
      <3> QED
        BY <1>1, <1>2, <2>1, <3>1, ListOfItems, SpecOfNew
    <2>2. CASE CurrentGroup(r) /\ SetSpec(TheGroup(r), "Ready", "Remove", <<>>)
      BY <1>1, <1>2, <2>2, ListOfItems, SpecOfOne
    <2> QED
      BY <2>1, <2>2 DEF RemoveDeployedResources
  <1>6. /\ Owned(groups', r) = {n} /\ groups'[n].action = "Remove" /\ groups'[n].items = <<>>
    BY <1>5 DEF SpecWritten
  <1>7. OneEach(r)' /\ Mine(r)' /\ ReportFits(r)'
    <2>1. work'[r].items = <<>>
      BY <1>3, <1>4
    <2>2. \A b \in Names(work'[r].items) : bundles[b] # Nil => bundles[b].owner = r
      BY <2>1, EmptyList
    <2>3. \A b \in Names(<<>>) : bundles[b] # Nil => bundles[b].owner = r
      BY EmptyList
    <2>4. UNCHANGED <<bundles, applied>> /\ staged'[GeKey(r)] = staged[GeKey(r)]
      BY <1>2
    <2> QED
      BY <1>1, <1>4, <1>5, <2>2, <2>3, <2>4, SpecFits
  <1>8. StagingFits(r)' /\ RecordFits(r)'
    BY <1>3, <1>4 DEF StagingFits, RecordFits
  <1>9. SweepFits(r)'
    BY <1>3, <1>4, EmptyList DEF SweepFits
  <1>10. EndFits(r)'
    BY <1>1, <1>2, <1>3, <1>4 DEF RInv, EndFits
  <1>11. SweptFits(r)' /\ GroupFits(r)'
    BY <1>2, <1>4, <1>6, EmptyList DEF SweptFits, GroupFits, Available
  <1> QED
    BY <1>7, <1>8, <1>9, <1>10, <1>11 DEF RInv

(* One entry more in a list.                                               *)
LEMMA OneMore ==
  ASSUME NEW items \in Items, NEW n \in BundleNames, NEW c \in Contents,
         NEW store, NEW r, NEW k, store[n] # Nil, store[n].owner = r, store[n].index = k, store[n].content = c
  PROVE  /\ Names(Append(items, [name |-> n, hash |-> c])) = Names(items) \cup {n}
         /\ Listed(store, r, items) =>
              /\ Listed(store, r, Append(items, [name |-> n, hash |-> c]))
              /\ ContentOf(store, Append(items, [name |-> n, hash |-> c]))
                   = ContentOf(store, items) \cup {<<k, c>>}
  <1> DEFINE e == [name |-> n, hash |-> c]
             more == Append(items, e)
  <1>1. /\ DOMAIN more = DOMAIN items \cup {Len(items) + 1}
        /\ \A i \in DOMAIN items : i # Len(items) + 1 /\ more[i] = items[i]
        /\ more[Len(items) + 1] = e
    <2>1. ASSUME NEW T, NEW q \in Seq(T), NEW x
          PROVE  /\ DOMAIN Append(q, x) = DOMAIN q \cup {Len(q) + 1}
                 /\ \A i \in DOMAIN q : i # Len(q) + 1 /\ Append(q, x)[i] = q[i]
                 /\ Append(q, x)[Len(q) + 1] = x
      OBVIOUS
    <2>2. items \in Seq([name : BundleNames, hash : Contents])
      BY DEF Items
    <2> HIDE DEF e
    <2> QED
      BY <2>1, <2>2
  <1>2. e.name = n /\ e.hash = c
    OBVIOUS
  <1> HIDE DEF e, more
  <1>3. Names(more) = Names(items) \cup {n}
    <2>1. \A b \in Names(more) : b \in Names(items) \cup {n}
      BY <1>1, <1>2 DEF Names
    <2>2. \A b \in Names(items) : b \in Names(more)
      BY <1>1 DEF Names
    <2>3. n \in Names(more)
      BY <1>1, <1>2 DEF Names
    <2> QED
      BY <2>1, <2>2, <2>3
  <1>4. Listed(store, r, items) => Listed(store, r, more)
    BY <1>1, <1>2 DEF Listed
  <1>5. ContentOf(store, more) = ContentOf(store, items) \cup {<<k, c>>}
    BY <1>3 DEF ContentOf
  <1> QED
    BY <1>3, <1>4, <1>5 DEF e, more

(* What the writing of a bundle means to r.                                *)
LEMMA BundleWritten ==
  ASSUME TInv, NEW r \in Requestors, RInv(r),
         NEW k \in work[r].todo, NEW n \in BundleNames, ReconcileBundle(r, k, n), r \notin misled',
         UNCHANGED <<groups, agent>>
  PROVE  /\ bundles'[n] # Nil /\ bundles'[n].owner = r /\ bundles'[n].index = k
         /\ bundles'[n].content = work[r].want[k]
         /\ \A b \in BundleNames : b # n => bundles'[b] = bundles[b]
         /\ \A b \in BundleNames : bundles[b] = Nil /\ b \in Remembered => bundles'[b] = Nil
         /\ \A items : /\ Names(items) \subseteq BundleNames /\ Listed(bundles, r, items)
                       /\ \A p \in ContentOf(bundles, items) : p[1] # k
                       => /\ Listed(bundles', r, items)
                          /\ ContentOf(bundles', items) = ContentOf(bundles, items)
         /\ OneEach(r)'
  <1>1. BundlesFit /\ CallsFit
    BY Parts
  <1>2. PICK b \in Bundle :
           /\ bundles' = [bundles EXCEPT ![n] = b]
           /\ b.owner = r /\ b.index = k /\ b.content = work[r].want[k]
           /\ SeenAt(r, k) = {n} \/ (SeenAt(r, k) = {} /\ n \in FreeBundles)
    BY <1>1, OneBundleWritten
  <1>3. b # Nil
    BY PullModeAssumption
  <1>4. /\ bundles'[n] = b /\ \A a \in BundleNames : a # n => bundles'[a] = bundles[a]
        /\ DOMAIN bundles = BundleNames /\ DOMAIN bundles' = BundleNames
    BY <1>1, <1>2 DEF BundlesFit
  <1>5. SeenAt(r, k) = {a \in Owned(bundles, r) : bundles[a].index = k}
    <2>1. BundleShown(r, k)
      BY WriteStep
    <2> QED
      BY <2>1 DEF BundleShown, SeenAt, Seen
  <1>6. \/ bundles[n] # Nil /\ bundles[n].owner = r /\ bundles[n].index = k
        \/ bundles[n] = Nil /\ n \notin Remembered
    BY <1>2, <1>5 DEF FreeBundles, Owned
  <1>7. Owned(bundles', r) = Owned(bundles, r) \cup {n}
    BY <1>2, <1>3, <1>4, <1>6 DEF Owned
  <1>8. \A a \in Owned(bundles, r) : a # n => bundles[a].index # k
    BY <1>2, <1>5
  <1>9. OneEach(r)'
    <2>1. \A a, d \in Owned(bundles', r) : bundles'[a].index = bundles'[d].index => a = d
      <3> SUFFICES ASSUME NEW a \in Owned(bundles, r) \cup {n}, NEW d \in Owned(bundles, r) \cup {n},
                          bundles'[a].index = bundles'[d].index
                   PROVE  a = d
        BY <1>7
      <3>1. \A x \in Owned(bundles, r) : x # n => bundles'[x] = bundles[x] /\ bundles[x].index # k
        BY <1>4, <1>8 DEF Owned
      <3>2. bundles'[n].index = k
        BY <1>2, <1>4
      <3>3. \A x, y \in Owned(bundles, r) : bundles[x].index = bundles[y].index => x = y
        BY DEF RInv, OneEach
      <3> QED
        BY <3>1, <3>2, <3>3
    <2>2. \A a, d \in Owned(groups', r) : a = d
      BY DEF RInv, OneEach
    <2> QED
      BY <2>1, <2>2 DEF OneEach
  <1>10. \A a \in BundleNames : bundles[a] = Nil /\ a \in Remembered => bundles'[a] = Nil
    BY <1>4, <1>6
  <1>11. ASSUME NEW items, Names(items) \subseteq BundleNames,
                Listed(bundles, r, items), \A p \in ContentOf(bundles, items) : p[1] # k
         PROVE  /\ Listed(bundles', r, items)
                /\ ContentOf(bundles', items) = ContentOf(bundles, items)
    <2>1. \A a \in Names(items) : bundles[a] # Nil /\ bundles[a].owner = r
      BY <1>11, ListedAreOwned
    <2>2. n \notin Names(items)
      <3> SUFFICES ASSUME n \in Names(items) PROVE FALSE
        OBVIOUS
      <3>1. bundles[n].index = k
        BY <1>6, <2>1
      <3>2. <<bundles[n].index, bundles[n].content>> \in ContentOf(bundles, items)
        BY DEF ContentOf
      <3> QED
        BY <1>11, <3>1, <3>2
    <2>3. \A a \in Names(items) : bundles'[a] = bundles[a]
      BY <1>4, <1>11, <2>2
    <2> QED
      BY <1>11, <2>3, SameList
  <1> QED
    BY <1>2, <1>3, <1>4, <1>9, <1>10, <1>11

(* A step that writes a bundle and takes note of it: what the agent may    *)
(* fetch is hidden, or the requestor is torn.                              *)
LEMMA KeptWritten ==
  ASSUME TInv, TInv', NEW r \in Requestors, RInv(r), r \notin misled',
         NEW k \in work[r].todo, NEW n \in BundleNames, ReconcileBundle(r, k, n),
         UNCHANGED <<groups, agent, applied, committed, pending, swept>>,
         NEW c \in Calls, work' = [work EXCEPT ![r] = c],
         NEW list, staged' = [staged EXCEPT ![GeKey(r)] = list],
         Names(list) \subseteq Names(staged[GeKey(r)]) \cup {n},
         Names(c.items) \subseteq Names(work[r].items) \cup {n},
         \/ work[r].step = "stage" /\ torn' = torn
         \/ work[r].step = "group" /\ torn' = torn \cup {r} /\ list = staged[GeKey(r)],
         c.step \in {"idle", "mark", "stage", "staged", "group"},
         StagingFits(r)', RecordFits(r)'
  PROVE  RInv(r)'
  <1>1. RInv(r) /\ CallsFit
    BY Parts
  <1>2. /\ bundles'[n] # Nil /\ bundles'[n].owner = r
        /\ \A b \in BundleNames : b # n => bundles'[b] = bundles[b]
        /\ \A b \in BundleNames : bundles[b] = Nil /\ b \in Remembered => bundles'[b] = Nil
        /\ OneEach(r)'
    BY <1>1, BundleWritten
  <1>3. work'[r] = c /\ staged'[GeKey(r)] = list
    BY <1>1, KeyIn DEF CallsFit
  <1>4. /\ Names(staged[GeKey(r)]) \subseteq BundleNames
        /\ Names(work[r].items) \subseteq BundleNames
        /\ \A m \in GroupNames : groups[m] # Nil => Names(groups[m].items) \subseteq BundleNames
    BY ListsIn
  <1>5. \A m \in Owned(groups, r) : m \in GroupNames /\ groups[m] # Nil
    BY DEF Owned, TInv, TypeOK
  <1>6. \A b \in BundleNames : (bundles[b] # Nil => bundles[b].owner = r) =>
                               (bundles'[b] # Nil => bundles'[b].owner = r)
    BY <1>2
  <1>7. Mine(r)'
    <2>1. \A b \in Names(staged'[GeKey(r)]) : bundles'[b] # Nil => bundles'[b].owner = r
      BY <1>1, <1>2, <1>3, <1>4, <1>6 DEF RInv, Mine
    <2>2. \A b \in Names(work'[r].items) : bundles'[b] # Nil => bundles'[b].owner = r
      BY <1>1, <1>2, <1>3, <1>4, <1>6 DEF RInv, Mine
    <2>3. \A m \in Owned(groups', r) : \A b \in Names(groups'[m].items) :
             bundles'[b] # Nil => bundles'[b].owner = r
      BY <1>1, <1>4, <1>5, <1>6 DEF RInv, Mine
    <2> QED
      BY <2>1, <2>2, <2>3 DEF Mine
  <1>8. r \notin swept' /\ SweptFits(r)'
    BY <1>1 DEF RInv, SweptFits
  <1>9. SweepFits(r)'
    BY <1>3 DEF SweepFits
  <1>10. EndFits(r)'
    <2>1. r \notin pending => staged'[GeKey(r)] = <<>>
      BY <1>1, <1>3 DEF RInv, EndFits, StagingFits
    <2> QED
      BY <1>3, <2>1 DEF EndFits
  <1>11. GroupFits(r)'
    <2>1. \A m \in Owned(groups, r) : groups[m].deleting =>
             \A b \in Names(groups[m].items) : bundles'[b] = Nil
      BY <1>1, <1>2, <1>4, <1>5, ListsRemembered DEF RInv, GroupFits
    <2>2. r \in torn' \/ \A m \in Owned(groups, r) : ~Available(m)'
      BY <1>1 DEF RInv, StagingFits, Available
    <2> QED
      BY <2>1, <2>2 DEF GroupFits
  <1>12. ReportFits(r)'
    <2>1. \A m \in Owned(groups, r) : Available(m)' <=> Available(m)
      BY DEF Available
    <2>2. r \in torn => r \in torn'
      OBVIOUS
    <2> QED
      BY <1>1, <2>1, <2>2 DEF RInv, ReportFits
  <1> QED
    BY <1>2, <1>7, <1>8, <1>9, <1>10, <1>11, <1>12 DEF RInv

(* What a call has written, and what it has left.                          *)
LEMMA AskedOneMore ==
  ASSUME TInv, NEW r \in Requestors, NEW k \in work[r].todo, NEW c,
         c.want = work[r].want, c.todo = work[r].todo \ {k}, work'[r] = c
  PROVE  /\ Asked(r)' = Asked(r) \cup {<<k, work[r].want[k]>>}
         /\ \A p \in Asked(r) : p[1] # k
  <1>1. k \in Given(work[r].want)
    BY Parts, AskedFor DEF Given, CallsFit, TodoFits
  <1> QED
    BY <1>1 DEF Asked

(* StageResourcesForDeployment: the bundle is staged, or an error is       *)
(* returned before it is.                                                  *)
LEMMA KeptStageBundle ==
  ASSUME TInv, TInv', NEW r \in Requestors, RInv(r), r \notin misled',
         StageBundle(r)
  PROVE  RInv(r)'
  <1>1. RInv(r) /\ CallsFit
    BY Parts
  <1>2. /\ UNCHANGED <<groups, agent, applied, committed, pending, swept, torn>>
        /\ work[r].step = "stage"
    BY DEF StageBundle
  <1>3. PICK k \in work[r].todo, n \in BundleNames :
            /\ ReconcileBundle(r, k, n)
            /\ \/ StagesOne(r, k, n)
               \/ Return(r) /\ UNCHANGED staged
    BY StageBundleIs
  <1>4. staged[GeKey(r)] \in Items /\ Names(staged[GeKey(r)]) \subseteq BundleNames
    BY <1>1, KeyIn, ListsIn DEF CallsFit
  <1>5. /\ bundles'[n] # Nil /\ bundles'[n].owner = r /\ bundles'[n].index = k
        /\ bundles'[n].content = work[r].want[k]
        /\ \A items : /\ Names(items) \subseteq BundleNames /\ Listed(bundles, r, items)
                      /\ \A p \in ContentOf(bundles, items) : p[1] # k
                      => /\ Listed(bundles', r, items)
                         /\ ContentOf(bundles', items) = ContentOf(bundles, items)
    BY <1>1, <1>2, <1>3, BundleWritten
  <1>6. /\ r \in pending /\ work[r].want \in Wants
        /\ Listed(bundles, r, staged[GeKey(r)]) /\ ContentOf(bundles, staged[GeKey(r)]) = Asked(r)
        /\ \A m \in Owned(groups, r) : groups[m].phase = "Preparing"
    BY <1>1, <1>2 DEF RInv, StagingFits
  <1>7. CASE Return(r) /\ UNCHANGED staged
    <2>1. PICK c \in Calls : /\ work' = [work EXCEPT ![r] = c]
                             /\ c.step = "idle" /\ c.items = <<>>
      BY <1>1, <1>7, ReturnIs
    <2>2. work'[r] = c
      BY <1>1, <2>1 DEF CallsFit
    <2>3. StagingFits(r)' /\ RecordFits(r)'
      BY <2>1, <2>2 DEF StagingFits, RecordFits
    <2>4. staged' = [staged EXCEPT ![GeKey(r)] = staged[GeKey(r)]]
      BY <1>1, <1>7 DEF CallsFit
    <2>5. /\ Names(staged[GeKey(r)]) \subseteq Names(staged[GeKey(r)]) \cup {n}
          /\ Names(c.items) \subseteq Names(work[r].items) \cup {n}
      BY <2>1, EmptyList
    <2> QED
      BY <1>2, <1>3, <2>1, <2>3, <2>4, <2>5, KeptWritten
  <1>8. CASE StagesOne(r, k, n)
    <2>1. PICK next \in {"staged", "stage", "mark"} :
             StagesEntry(r, k, n, next) /\ (next = "staged" => work[r].todo = {k})
      BY <1>8 DEF StagesOne
    <2>2. CallsFit /\ StagesEntry(r, k, n, next) /\ next \in StepNames
      BY <1>1, <2>1 DEF StepNames, LooksForGroup
    <2>3. \E c \in Calls, items \in Items :
             /\ work' = [work EXCEPT ![r] = c] /\ staged' = [staged EXCEPT ![GeKey(r)] = items]
             /\ c.step = next /\ c.want = work[r].want /\ c.items = work[r].items
             /\ c.todo = work[r].todo \ {k}
             /\ items = Append(staged[GeKey(r)], [name |-> n, hash |-> work[r].want[k]])
      BY <2>2, StagedIs
    <2>4. PICK c \in Calls, items \in Items :
             /\ work' = [work EXCEPT ![r] = c] /\ staged' = [staged EXCEPT ![GeKey(r)] = items]
             /\ c.step = next /\ c.want = work[r].want /\ c.items = work[r].items
             /\ c.todo = work[r].todo \ {k}
             /\ items = Append(staged[GeKey(r)], [name |-> n, hash |-> work[r].want[k]])
      BY <2>3
    <2>5. work'[r] = c /\ staged'[GeKey(r)] = items
      BY <1>1, <2>4, KeyIn DEF CallsFit
    <2>6. /\ Asked(r)' = Asked(r) \cup {<<k, work[r].want[k]>>}
          /\ \A p \in Asked(r) : p[1] # k
      BY <2>4, <2>5, AskedOneMore
    <2>7. /\ Listed(bundles', r, staged[GeKey(r)])
          /\ ContentOf(bundles', staged[GeKey(r)]) = Asked(r)
      BY <1>4, <1>5, <1>6, <2>6
    <2>8. work[r].want[k] \in Contents
      BY <1>1, AskedFor
    <2>9. /\ Names(items) = Names(staged[GeKey(r)]) \cup {n}
          /\ Listed(bundles', r, items)
          /\ ContentOf(bundles', items) = Asked(r)'
      BY <1>4, <1>5, <2>4, <2>6, <2>7, <2>8, OneMore
    <2>10. StagingFits(r)'
      BY <1>2, <1>6, <2>1, <2>4, <2>5, <2>9 DEF StagingFits
    <2>11. RecordFits(r)'
      BY <2>4, <2>5 DEF RecordFits
    <2>12. /\ Names(items) \subseteq Names(staged[GeKey(r)]) \cup {n}
           /\ Names(c.items) \subseteq Names(work[r].items) \cup {n}
           /\ c.step \in {"idle", "mark", "stage", "staged", "group"}
      BY <2>4, <2>9
    <2> QED
      BY <1>2, <1>3, <2>4, <2>10, <2>11, <2>12, KeptWritten
  <1> QED
    BY <1>3, <1>7, <1>8

(* RecordResourcesForDeployment, bundle by bundle.                         *)
LEMMA KeptRecordBundle ==
  ASSUME TInv, TInv', NEW r \in Requestors, RInv(r), r \notin misled',
         RecordBundle(r)
  PROVE  RInv(r)'
  <1>1. RInv(r) /\ CallsFit
    BY Parts
  <1>2. /\ UNCHANGED <<groups, agent, applied, committed, pending, swept, staged>>
        /\ work[r].step = "group" /\ torn' = torn \cup {r}
    BY DEF RecordBundle
  <1>3. PICK k \in work[r].todo, n \in BundleNames :
            ReconcileBundle(r, k, n) /\ RecordsEntry(r, k, n)
    BY DEF RecordBundle, RecordsEntry
  <1>4. work[r].items \in Items /\ Names(work[r].items) \subseteq BundleNames
    BY <1>1, ListsIn DEF CallsFit, Calls
  <1>5. /\ bundles'[n] # Nil /\ bundles'[n].owner = r /\ bundles'[n].index = k
        /\ bundles'[n].content = work[r].want[k]
        /\ \A items : /\ Names(items) \subseteq BundleNames /\ Listed(bundles, r, items)
                      /\ \A p \in ContentOf(bundles, items) : p[1] # k
                      => /\ Listed(bundles', r, items)
                         /\ ContentOf(bundles', items) = ContentOf(bundles, items)
    BY <1>1, <1>2, <1>3, BundleWritten
  <1>6. /\ work[r].want \in Wants
        /\ Listed(bundles, r, work[r].items) /\ ContentOf(bundles, work[r].items) = Asked(r)
    BY <1>1, <1>2 DEF RInv, RecordFits
  <1>7. PICK c \in Calls :
           /\ work' = [work EXCEPT ![r] = c]
           /\ c.step = work[r].step /\ c.want = work[r].want /\ c.todo = work[r].todo \ {k}
           /\ c.items = Append(work[r].items, [name |-> n, hash |-> work[r].want[k]])
    BY <1>1, <1>3, RecordedIs
  <1>8. work'[r] = c
    BY <1>1, <1>7 DEF CallsFit
  <1>9. /\ Asked(r)' = Asked(r) \cup {<<k, work[r].want[k]>>}
        /\ \A p \in Asked(r) : p[1] # k
    BY <1>7, <1>8, AskedOneMore
  <1>10. /\ Listed(bundles', r, work[r].items)
         /\ ContentOf(bundles', work[r].items) = Asked(r)
    BY <1>4, <1>5, <1>6, <1>9
  <1>11. work[r].want[k] \in Contents
    BY <1>1, AskedFor
  <1>12. /\ Names(c.items) = Names(work[r].items) \cup {n}
         /\ Listed(bundles', r, c.items)
         /\ ContentOf(bundles', c.items) = Asked(r)'
    BY <1>4, <1>5, <1>7, <1>9, <1>10, <1>11, OneMore
  <1>13. StagingFits(r)'
    BY <1>2, <1>7, <1>8 DEF StagingFits
  <1>14. RecordFits(r)'
    BY <1>2, <1>6, <1>7, <1>8, <1>12 DEF RecordFits
  <1>15. staged' = [staged EXCEPT ![GeKey(r)] = staged[GeKey(r)]]
    BY <1>1, <1>2 DEF CallsFit
  <1>16. /\ Names(staged[GeKey(r)]) \subseteq Names(staged[GeKey(r)]) \cup {n}
         /\ Names(c.items) \subseteq Names(work[r].items) \cup {n}
         /\ c.step \in {"idle", "mark", "stage", "staged", "group"}
    BY <1>2, <1>7, <1>12
  <1> QED
    BY <1>2, <1>3, <1>7, <1>13, <1>14, <1>15, <1>16, KeptWritten

(* Of what there should be one, a sound requestor never has two.           *)
LEMMA NothingToRecover ==
  ASSUME TInv, NEW r \in Requestors, RInv(r), OneShown(r)
  PROVE  ~RecoverGroups(r) /\ ~RecoverBundles(r)
  <1>1. OneEach(r)
    BY DEF RInv
  <1>2. ~RecoverGroups(r)
    BY ShownGroup DEF RecoverGroups
  <1>3. ASSUME NEW k PROVE ~(Cardinality(SeenAt(r, k)) > 1)
    <2>1. \A a, b \in SeenAt(r, k) : a = b
      BY <1>1 DEF SeenAt, Seen, OneEach
    <2>2. CASE SeenAt(r, k) = {}
      <3>1. Cardinality(SeenAt(r, k)) = 0
        BY <2>2, FS_EmptySet
      <3> QED
        BY <3>1
    <2>3. CASE SeenAt(r, k) # {}
      <3>1. PICK a : SeenAt(r, k) = {a}
        BY <2>1, <2>3
      <3>2. Cardinality(SeenAt(r, k)) = 1
        BY <3>1, FS_Singleton
      <3> QED
        BY <3>2
    <2> QED
      BY <2>2, <2>3
  <1>4. ~RecoverBundles(r)
    BY <1>3 DEF RecoverBundles
  <1> QED
    BY <1>2, <1>4

(* The invariant holds at first.                                           *)
LEMMA IInvInit == Init => IInv
  <1> SUFFICES ASSUME Init PROVE IInv
    OBVIOUS
  <1>1. ASSUME NEW r \in Requestors
        PROVE  RInv(r)
    <2>1. Owned(bundles, r) = {} /\ Owned(groups, r) = {}
      BY DEF Init, Owned
    <2>2. work[r].step = "idle" /\ work[r].items = <<>> /\ staged[GeKey(r)] = <<>>
      BY KeyIn DEF Init, Idle
    <2>3. OneEach(r) /\ Mine(r) /\ GroupFits(r) /\ ReportFits(r) /\ SweptFits(r)
      BY <2>1, <2>2, EmptyList DEF OneEach, Mine, GroupFits, ReportFits, SweptFits
    <2>4. StagingFits(r) /\ RecordFits(r) /\ SweepFits(r) /\ EndFits(r)
      BY <2>2 DEF StagingFits, RecordFits, SweepFits, EndFits
    <2> QED
      BY <2>3, <2>4 DEF RInv
  <1>2. CacheFits
    BY DEF Init, CacheFits, SameGroup, OneShown, Shown, Owned
  <1> QED
    BY <1>1, <1>2, TInvInit DEF IInv, RInvs

(* What the agent does for one requestor leaves the others alone.          *)
LEMMA StepOfAgent ==
  ASSUME TInv, NEW n \in GroupNames, NEW r \in Requestors, r = groups[n].owner,
         AgentFetch(n) \/ AgentProcess(n)
  PROVE  StepOf(r)
  <1>1. GroupsFit /\ RestFits
    BY Parts
  <1>2. UNCHANGED <<bundles, staged, work, failures, history>>
    BY ProcessIs DEF AgentFetch
  <1>3. \A s \in Requestors : s # r => applied'[s] = applied[s]
    <2>1. CASE AgentFetch(n)
      BY <2>1 DEF AgentFetch
    <2>2. CASE AgentProcess(n)
      BY <1>1, <2>2, ProcessIs DEF Cleans, Removes, Deploys, Misses, RestFits
    <2> QED
      BY <2>1, <2>2
  <1>4. GroupStep(r)
    <2>1. CASE AgentFetch(n)
      <3>1. PICK h \in Group, v \in Version :
               /\ groups[n] # Nil /\ h.owner = groups[n].owner
               /\ groups' = [groups EXCEPT ![n] = h] /\ agent' = [agent EXCEPT ![n] = v]
        BY <1>1, <2>1, FetchIs
      <3> QED
        BY <1>1, <3>1 DEF GroupStep, GroupsFit
    <2>2. CASE Cleans(n)
      BY <1>1, <2>2 DEF GroupStep, Cleans, GroupsFit
    <2>3. CASE AgentProcess(n) /\ ~Cleans(n)
      <3>1. agent[n] # Nil /\ groups[n] # Nil
        BY <1>1, <2>3, ProcessIs DEF GroupsFit
      <3>2. PICK status \in {"None", "Provisioned", "Failed", "Removed"} : AgentReport(n, status)
        BY <2>3, ProcessIs DEF Removes, Deploys, Misses
      <3>3. PICK h \in Group :
               /\ h.owner = groups[n].owner
               /\ groups' = [groups EXCEPT ![n] = h] /\ agent' = [agent EXCEPT ![n] = Nil]
        BY <1>1, <3>1, <3>2, ReportIs
      <3> QED
        BY <1>1, <3>1, <3>3 DEF GroupStep, GroupsFit
    <2> QED
      BY <2>1, <2>2, <2>3
  <1>5. BundleStep(r) /\ CallStep(r) /\ misled \subseteq misled'
    BY <1>2, <1>3 DEF BundleStep, CallStep, history
  <1> QED
    BY <1>4, <1>5 DEF StepOf

(* Nothing happens, but to the cache.                                      *)
LEMMA KeptStill ==
  ASSUME TInv, RInvs, UNCHANGED <<bundles, groups, staged, work, agent, applied, history>>
  PROVE  RInvs'
  <1>1. UNCHANGED <<bundles, groups, staged, work, agent, applied, pending, committed, torn, swept, misled>>
    BY DEF history
  <1> SUFFICES ASSUME NEW r \in Requestors, Alone(r), r \notin misled' PROVE RInv(r)'
    BY DEF RInvs, Sound, Alone, GeKey
  <1>2. RInv(r)
    BY <1>1 DEF RInvs, Sound
  <1>3. OneEach(r)' /\ Mine(r)' /\ GroupFits(r)' /\ ReportFits(r)'
    BY <1>1, <1>2, StillFits
  <1>4. StagingFits(r)' /\ RecordFits(r)'
    BY <1>1, <1>2 DEF RInv, StagingFits, RecordFits, Asked, Owned
  <1>5. EndFits(r)' /\ SweptFits(r)'
    BY <1>1, <1>2 DEF RInv, EndFits, SweptFits, Owned
  <1>6. SweepFits(r)'
    BY <1>1, <1>2 DEF RInv, SweepFits, Owned, Available
  <1> QED
    BY <1>3, <1>4, <1>5, <1>6 DEF RInv

(* And so does the cache, which catches up.                                *)
LEMMA KeptSync ==
  ASSUME TInv, TInv', RInvs, Sync
  PROVE  RInvs'
  <1>1. BundlesFit /\ GroupsFit
    BY Parts
  <1>2. UNCHANGED <<staged, work, failures, agent, applied, history>>
    BY DEF Sync
  <1>3. ASSUME NEW r \in Requestors
        PROVE  CallStep(r) /\ misled \subseteq misled'
    BY <1>2 DEF CallStep, history
  <1>4. CASE \E n \in BundleNames : /\ bundles[n] # Nil /\ bundles' = [bundles EXCEPT ![n].seen = TRUE]
                                    /\ UNCHANGED groups
    <2>1. PICK n \in BundleNames : /\ bundles[n] # Nil /\ bundles' = [bundles EXCEPT ![n].seen = TRUE]
                                   /\ UNCHANGED groups
      BY <1>4
    <2>2. bundles[n] \in Bundle /\ DOMAIN bundles = BundleNames
      BY <1>1, <2>1 DEF BundlesFit
    <2>3. PICK r \in Requestors : r = bundles[n].owner
      BY <2>2 DEF Bundle
    <2> DEFINE seen == [bundles[n] EXCEPT !.seen = TRUE]
    <2>4. seen \in Bundle /\ seen.owner = r /\ seen.index = bundles[n].index /\ seen.content = bundles[n].content
      BY <2>2, <2>3 DEF Bundle
    <2>5. bundles' = [bundles EXCEPT ![n] = seen]
      BY <2>1, <2>2
    <2> HIDE DEF seen
    <2>6. PICK b \in Bundle : /\ b.owner = r /\ b.index = bundles[n].index /\ b.content = bundles[n].content
                              /\ bundles' = [bundles EXCEPT ![n] = b]
      BY <2>4, <2>5
    <2>7. bundles' = [bundles EXCEPT ![n] = b]
      BY <2>6
    <2>8. bundles'[n] = b /\ \A m \in BundleNames : m # n => bundles'[m] = bundles[m]
      BY <2>2, <2>7
    <2>9. BundleStep(r) /\ GroupStep(r)
      BY <1>2, <2>1, <2>6, <2>3, <2>8 DEF BundleStep, GroupStep
    <2>10. StepOf(r)
      BY <1>3, <2>9 DEF StepOf
    <2>11. RInv(r) => RInv(r)'
      BY <1>2, <2>1, <2>6, <2>7, <2>3, KeptSeen
    <2> QED
      BY <2>10, <2>11, Stepped
  <1>5. CASE UNCHANGED <<bundles, groups>>
    BY <1>2, <1>5, KeptStill
  <1> QED
    BY <1>4, <1>5 DEF Sync

(* Every step keeps it.                                                    *)
LEMMA IInvNext ==
  ASSUME IInv, [Next]_vars
  PROVE  IInv'
  <1>1. TInv /\ TInv' /\ RInvs /\ SameGroup /\ CacheFits'
    BY TInvNext, CacheFitsKept DEF IInv, CacheFits
  <1>s. ASSUME NEW r \in Requestors, Alone(r), r \notin misled', StepOf(r)
        PROVE  OneShown(r)
    BY <1>s DEF IInv, CacheFits, Sound, StepOf
  <1>2. CASE UNCHANGED vars
    BY <1>1, <1>2, KeptStill DEF vars, IInv
  <1>3. ASSUME NEW r \in Requestors, NEW want \in Wants, Stage(r, want) \/ Record(r, want)
        PROVE  RInvs'
    <2>1. StepOf(r)
      BY <1>1, <1>3, StepAside
    <2>2. RInv(r) /\ r \notin misled' => RInv(r)'
      BY <1>1, <1>3, KeptBegin
    <2> QED
      BY <1>1, <2>1, <2>2, Stepped
  <1>4. ASSUME NEW r \in Requestors,
               \/ DiscardStagedResources(r) \/ RemoveDeployedResources(r)
               \/ TerminateDeploymentTracking(r) \/ Fail(r)
        PROVE  RInvs'
    <2>1. StepOf(r)
      BY <1>1, <1>4, StepAside, StepOnGroups
    <2>2. RInv(r) /\ Alone(r) /\ r \notin misled' => RInv(r)'
      BY <1>1, <1>s, <1>4, <2>1, KeptDiscard, KeptRemove, KeptTerminate, KeptReturn
    <2> QED
      BY <1>1, <2>1, <2>2, Stepped
  <1>5. ASSUME NEW r \in Requestors, Steps(r) \/ RecoverGroups(r)
        PROVE  RInvs'
    <2>1. StepOf(r)
      BY <1>1, <1>5, StepAside, StepOnBundles, StepOnGroups DEF Steps
    <2>2. ASSUME RInv(r), Alone(r), r \notin misled' PROVE RInv(r)'
      <3>1. ~RecoverGroups(r) /\ ~RecoverBundles(r)
        BY <1>1, <1>s, <2>1, <2>2, NothingToRecover
      <3>2. CASE Refused(r) \/ Sweep(r) \/ DeleteConfigurationGroup(r)
        BY <1>1, <2>2, <3>2, KeptReturn, KeptSweep, KeptDeleteGroup
      <3>3. CASE MarkConfigurationGroupAsPreparing(r) \/ CommitStagedResources(r) \/ RecordGroup(r)
        BY <1>1, <2>2, <3>3, KeptMark, KeptCommit
      <3>4. CASE StageBundle(r) \/ RecordBundle(r)
        BY <1>1, <2>2, <3>4, KeptStageBundle, KeptRecordBundle
      <3> QED
        BY <1>5, <3>1, <3>2, <3>3, <3>4 DEF Steps
    <2> QED
      BY <1>1, <2>1, <2>2, Stepped
  <1>6. ASSUME NEW n \in GroupNames, AgentFetch(n) \/ AgentProcess(n)
        PROVE  RInvs'
    <2>1. groups[n] # Nil /\ GroupsFit
      BY <1>1, <1>6, Parts, ProcessIs DEF AgentFetch, GroupsFit
    <2>2. PICK r \in Requestors : r = groups[n].owner
      BY <2>1, GroupItems
    <2>3. StepOf(r)
      BY <1>1, <1>6, <2>2, StepOfAgent
    <2>4. ASSUME RInv(r) PROVE RInv(r)'
      <3>1. CASE AgentFetch(n)
        BY <1>1, <2>2, <2>4, <3>1, KeptFetch
      <3>2. CASE AgentProcess(n)
        <4>1. /\ agent[n] # Nil
              /\ Cleans(n) \/ Removes(n) \/ Deploys(n) \/ Misses(n)
              /\ UNCHANGED <<bundles, staged, work, failures, history>>
          BY <3>2, ProcessIs
        <4> QED
          BY <1>1, <2>2, <2>4, <4>1, KeptClean, KeptReport
      <3> QED
        BY <1>6, <3>1, <3>2
    <2> QED
      BY <1>1, <2>2, <2>3, <2>4, Stepped
  <1>7. CASE Sync
    BY <1>1, <1>7, KeptSync DEF IInv
  <1>8. CASE Restart
    BY <1>1, <1>8, KeptRestart DEF IInv
  <1> QED
    BY <1>1, <1>2, <1>3, <1>4, <1>5, <1>6, <1>7, <1>8 DEF Next, IInv

-----------------------------------------------------------------------------
(* The theorems: for any number of requestors and indexes, however often   *)
(* calls fail and the process restarts, whatever the cache shows late, and *)
(* however long.  They say nothing of a requestor that shares its key, or  *)
(* once it went by a cache that did not show what it looked for; what the  *)
(* others do, misled or not, does not matter.                              *)

(* The invariant holds in every state.                                     *)
LEMMA Holds == Spec => []IInv
  BY IInvInit, IInvNext, PTL DEF Spec

(* What the agent can fetch is what was committed in one go, although      *)
(* staging, commit and clean up are many calls any of which may fail       *)
(* (CommitStagedResourcesForDeployment, DiscardStagedResourcesForDeployment). *)
THEOREM CommittedInOneGo == Spec => []AvailableIsCommitted
  <1>1. IInv => AvailableIsCommitted
    <2> SUFFICES ASSUME IInv, NEW n \in GroupNames, Available(n), Sound(groups[n].owner),
                        groups[n].owner \notin torn
                 PROVE  /\ Kept(bundles, groups[n].items)
                        /\ committed[groups[n].owner] # Nil =>
                             /\ Listed(bundles, groups[n].owner, groups[n].items)
                             /\ ContentOf(bundles, groups[n].items) = Pairs(committed[groups[n].owner])
      BY DEF AvailableIsCommitted, Listed, Kept, ContentOf
    <2>1. groups[n] # Nil /\ groups[n].owner \in Requestors /\ n \in Owned(groups, groups[n].owner)
      BY Parts, GroupItems DEF IInv, Available, Owned, GroupsFit
    <2> QED
      BY <2>1 DEF IInv, RInvs, RInv, GroupFits
  <1> QED
    BY <1>1, Holds, PTL

(* A status that says Provisioned is about what was last committed, unless *)
(* it is read from a version of the group that is no longer the current    *)
(* one (GetDeploymentStatus).                                              *)
THEOREM StatusIsOfTheCommitted == Spec => []ProvisionedIsCommitted
  <1>1. IInv => ProvisionedIsCommitted
    <2> SUFFICES ASSUME IInv, NEW n \in GroupNames, cached[n] # Nil, ~cached[n].deleting,
                        GetDeploymentStatus(n) = "Provisioned", cached[n] = groups[n], Sound(groups[n].owner),
                        committed[groups[n].owner] # Nil, groups[n].owner \notin torn
                 PROVE  applied[groups[n].owner] = Pairs(committed[groups[n].owner])
      BY DEF ProvisionedIsCommitted
    <2>1. groups[n] # Nil /\ groups[n].owner \in Requestors /\ n \in Owned(groups, groups[n].owner)
      BY Parts, GroupItems DEF IInv, Owned, GroupsFit
    <2>2. groups[n].action = "Deploy" /\ groups[n].status = "Provisioned" /\ groups[n].observed
           /\ Available(n)
      BY DEF GetDeploymentStatus, Available
    <2> QED
      BY <2>1, <2>2 DEF IInv, RInvs, RInv, ReportFits
  <1> QED
    BY <1>1, Holds, PTL

(* A call that went through leaves no bundle that no group lists           *)
(* (deleteStaleConfigurationBundles).                                      *)
THEOREM NothingLeftBehind == Spec => []NoOrphans
  <1>1. IInv => NoOrphans
    <2> SUFFICES ASSUME IInv, NEW r \in swept, Sound(r)
                 PROVE  Owned(bundles, r) \subseteq UNION {Names(groups[n].items) : n \in Owned(groups, r)}
      BY DEF NoOrphans
    <2>1. r \in Requestors
      BY Parts DEF IInv, RestFits
    <2>2. \A b \in Owned(bundles, r) : \E n \in Owned(groups, r) : b \in Names(groups[n].items)
      BY <2>1 DEF IInv, RInvs, RInv, SweptFits
    <2> QED
      BY <2>2
  <1> QED
    BY <1>1, Holds, PTL

(* Neither failures nor restarts, nor a group that is still being deleted, *)
(* lead to a second group of a requestor, or a second bundle of an index:  *)
(* what getConfigurationGroupName and getConfigurationBundleName recover   *)
(* from comes of the lag of the cache alone, also when keys are shared.    *)
THEOREM NoDuplicates == Spec => []DuplicatesOnlyIfMisled
  <1> DEFINE Inv == TInv /\ \A r \in Requestors : r \notin misled => OneEach(r)
  <1>1. Init => Inv
    <2>1. \A r : Init => OneEach(r)
      BY DEF Init, OneEach, Owned
    <2> QED
      BY <2>1, TInvInit
  <1>2. Inv /\ [Next]_vars => Inv'
    <2> SUFFICES ASSUME Inv, [Next]_vars PROVE Inv'
      OBVIOUS
    <2>1. TInv /\ TInv'
      BY TInvNext
    <2>2. ASSUME NEW r \in Requestors, r \notin misled' PROVE OneEach(r)'
      BY <2>1, <2>2, OneEachKept
    <2> QED
      BY <2>1, <2>2
  <1>3. Inv => DuplicatesOnlyIfMisled
    BY DEF DuplicatesOnlyIfMisled, OneEach
  <1> HIDE DEF Inv
  <1> QED
    BY <1>1, <1>2, <1>3, PTL DEF Spec
=============================================================================
