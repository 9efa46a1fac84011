------------------------------ MODULE Missions ------------------------------
(***************************************************************************)
(* Backup and Restore, the two missions of AgentController                 *)
(* (kubernetes/controller/controller.go).  A backup lists the cluster      *)
(* resource by resource and uploads two archives of what it found; a       *)
(* restore downloads an archive, lists the cluster, creates what is        *)
(* missing and uploads an archive of what it tried to create.  Both end by *)
(* uploading a log and a status.                                           *)
(*                                                                         *)
(* Missions run concurrently, each in its own goroutine and some in other  *)
(* processes.  They share the cluster, which users change meanwhile, and   *)
(* the store, an object store without transactions.  A step below is one   *)
(* remote call with the local computation around it.                       *)
(***************************************************************************)
EXTENDS Integers, FiniteSets

CONSTANTS
  Missions,     \* calls of Backup and Restore
  NoMission,
  Backups,      \* those that are backups
  Earlier,      \* backups that were over before this behaviour starts
  Names,        \* names that callers give to a tree
  Unnamed,      \* the empty TreeName
  Objs,         \* what the default filters let through, existing or not
  ClusterObjs,  \* those whose resource is not namespaced
  Resources, Namespaces,
  ClusterLevel, \* immobile.ClusterLevelNamespace, "cluster"
  ResourceOf, NamespaceOf,
  Times,        \* how often GetResourceTree lists a resource: filtrateResource
                \* leaves the last ones more than once in what it loops over
  Filtered,     \* restores called with filters
  Wanted,       \* what the filters let through; of a backup, the default ones
                \* for resources that are not namespaced included
  FirstClusters, FirstBackups, \* what clusters and earlier backups hold at first
  MaxVersion,   \* bound: contents that one object may have
  MaxClock,     \* bound: seconds that pass
  Faults, MaxFaults, \* bound: disturbances, see Disturb
  MaxEdits      \* bound: changes that users make to the cluster

Disturbances == {"rpc", "lost", "list", "space", "refuse", "network", "disk", "kill"}

ASSUME MissionsAssumption == NoMission \notin Missions /\ Backups \subseteq Missions
ASSUME NamesAssumption == Unnamed \notin Names
ASSUME EarlierAssumption ==
  /\ Earlier \subseteq Backups
  /\ \A m \in Earlier, t \in FirstBackups : \A o \in Objs \ Wanted[m] : t[o] = 0
ASSUME ObjsAssumption ==
  /\ ClusterObjs \subseteq Objs
  /\ ResourceOf \in [Objs -> Resources]
  /\ NamespaceOf \in [Objs -> Namespaces \cup {ClusterLevel}]
  /\ Times \in [Resources -> Nat \ {0}]
  /\ \A o \in ClusterObjs : NamespaceOf[o] = ClusterLevel
  /\ \A o \in Objs \ ClusterObjs : NamespaceOf[o] \in Namespaces
  /\ \A o \in ClusterObjs, q \in Objs \ ClusterObjs : ResourceOf[o] # ResourceOf[q]
ASSUME WantedAssumption ==
  /\ Filtered \subseteq Missions \ Backups
  /\ Wanted \in [Missions -> SUBSET Objs]
  /\ \A m \in Missions \ (Backups \cup Filtered) : Wanted[m] = Objs
ASSUME FirstAssumption ==
  /\ FirstClusters \subseteq [Objs -> 0..MaxVersion]
  /\ FirstBackups \subseteq [Objs -> 0..MaxVersion]
  /\ \A t \in FirstBackups : \E o \in Objs : t[o] # 0
ASSUME BoundsAssumption ==
  /\ {MaxVersion, MaxClock, MaxFaults, MaxEdits} \subseteq Nat
  /\ Faults \subseteq Disturbances

-----------------------------------------------------------------------------

\* What the cluster or a tree holds of an object.  A node of a tree without
\* objects below is pruned, so that a tree is the set of its objects.
Absent == 0
Trees == [Objs -> 0..MaxVersion]
EmptyTree == [o \in Objs |-> Absent]
In(t) == {o \in Objs : t[o] # Absent}
Only(t, S) == [o \in Objs |-> IF o \in S THEN t[o] ELSE Absent]

\* The directory <cluster>/<kind>/<name>/ of the store.  A name that the
\* program makes up holds the second it was made.
NoStamp == -1
Slots == [kind : {"backup", "restore"}, name : Names \cup {Unnamed},
          stamp : NoStamp..MaxClock]

Results == {"Success", "PartialFailed"}
NoArchive == [by |-> NoMission, tree |-> EmptyTree]
NoStatus == [by |-> NoMission, result |-> "Success"]
Files == [json : [by : Missions \cup {NoMission}, tree : Trees],
          yaml : [by : Missions \cup {NoMission}, tree : Trees],
          log : Missions \cup {NoMission},
          status : [by : Missions \cup {NoMission}, result : Results]]
NoFiles == [json |-> NoArchive, yaml |-> NoArchive, log |-> NoMission,
            status |-> NoStatus]

Steps == {"idle", "find", "fetch", "discover", "list", "apply", "check",
          "upload", "log", "status", "done", "failed", "crashed"}

VARIABLES
  cluster,  \* cluster[o]: content of the object
  spaces,   \* the namespaces that exist
  store,    \* store[s]: the files of a slot
  clock,    \* seconds
  \* one mission
  pc,
  slot,     \* where its root points to
  tree,     \* its root
  result,   \* StatusLogger.Status
  listed,   \* namespaces found at the start of GetResourceTree
  todo,     \* what GetResourceTree has not listed yet
  seen,     \* restore: the current tree
  pending,  \* restore: objects of the tree in nodes not yet compared
  work,     \* restore: objects to create of the node in hand
  sent,     \* archives it has uploaded
  \* history
  ever,     \* what existed at some time while the mission ran
  always,   \* what existed all the time while the mission ran
  gaps,     \* lists that failed
  goal,     \* restore: the tree it should restore
  skipped,  \* restore: objects dropped without a trace
  made,     \* restore: objects it wrote
  raced,    \* pairs of missions that uploaded to one slot at the same time
  budget, edits \* disturbances and user changes still allowed

shared == <<cluster, spaces, store, clock>>
local == <<slot, tree, result, listed, todo, seen, pending, work, sent>>
facts == <<gaps, goal, skipped, made, raced>>
bounds == <<budget, edits>>
vars == <<shared, pc, local, ever, always, facts, bounds>>

\* The calls that list the cluster.
Lists == UNION {{r} \X (1..Times[r]) : r \in Resources}
Kinds(m) == IF m \in Backups THEN "backup" ELSE "restore"
Running(m) == pc[m] \notin {"idle", "done", "failed", "crashed"}

\* What a backup that is over left behind: everything, or what it had uploaded
\* when it failed.
Root(n) == [kind |-> "backup", name |-> n, stamp |-> NoStamp]
Left(m) ==
  LET archive(file) ==
        IF file \in sent[m] THEN [by |-> m, tree |-> tree[m]] ELSE NoArchive IN
  [json |-> archive("json"), yaml |-> archive("yaml"),
   log |-> IF pc[m] = "done" THEN m ELSE NoMission,
   status |-> IF pc[m] = "done" THEN [by |-> m, result |-> "Success"] ELSE NoStatus]

Init ==
  /\ cluster \in FirstClusters
  /\ spaces = Namespaces
  /\ clock = 0
  /\ sent \in [Missions -> SUBSET {"json", "yaml"}]
  /\ pc \in [Missions -> {"idle", "done", "failed"}]
  /\ \A m \in Missions :
       /\ m \in Earlier <=> pc[m] # "idle"
       /\ m \in Earlier <=> sent[m] # {}
       /\ pc[m] = "done" => sent[m] = {"json", "yaml"}
  /\ slot \in [Missions -> {Root(n) : n \in Names \cup {Unnamed}}]
  /\ \A m, n \in Earlier : slot[m].name \in Names /\ (slot[m] = slot[n] => m = n)
  /\ \E t \in FirstBackups :
       tree = [m \in Missions |-> IF m \in Earlier THEN t ELSE EmptyTree]
  /\ store = [s \in Slots |->
                IF \E m \in Earlier : s = slot[m]
                  THEN Left(CHOOSE m \in Earlier : s = slot[m]) ELSE NoFiles]
  /\ result = [m \in Missions |-> "Success"]
  /\ listed = [m \in Missions |-> {}] /\ todo = listed /\ seen = listed
  /\ pending = listed /\ work = listed
  /\ ever = [m \in Missions |-> {<<o, tree[m][o]>> : o \in In(tree[m])}]
  /\ always = listed /\ gaps = listed
  /\ goal = [m \in Missions |-> EmptyTree] /\ skipped = listed /\ made = listed
  /\ raced = {}
  /\ budget = MaxFaults /\ edits = MaxEdits

Disturb(kind) ==
  /\ kind \in Faults
  /\ budget > 0
  /\ budget' = budget - 1

\* Every mission that runs lives through a change of the cluster.
Observe ==
  /\ ever' = [m \in Missions |->
       IF Running(m) THEN ever[m] \cup {<<o, cluster'[o]>> : o \in In(cluster')}
       ELSE ever[m]]
  /\ always' = [m \in Missions |->
       IF Running(m) THEN always[m] \cap In(cluster') ELSE always[m]]
ClusterUnchanged == UNCHANGED <<cluster, ever, always>>
-----------------------------------------------------------------------------
(* The users, the clock and the death of processes.                        *)

Edit ==
  /\ edits > 0
  /\ edits' = edits - 1
  /\ Observe
  /\ UNCHANGED <<store, clock, pc, local, facts, budget>>

UserWrite(o) ==
  \E v \in (1..MaxVersion) \ {cluster[o]} :
    /\ o \in ClusterObjs \/ NamespaceOf[o] \in spaces
    /\ cluster' = [cluster EXCEPT ![o] = v]
    /\ UNCHANGED spaces
    /\ Edit

UserDelete(o) ==
  /\ cluster[o] # Absent
  /\ cluster' = [cluster EXCEPT ![o] = Absent]
  /\ UNCHANGED spaces
  /\ Edit

UserDeleteSpace(n) ==
  /\ n \in spaces
  /\ spaces' = spaces \ {n}
  /\ cluster' = [o \in Objs |-> IF o \notin ClusterObjs /\ NamespaceOf[o] = n
                                  THEN Absent ELSE cluster[o]]
  /\ Edit

Tick ==
  /\ clock < MaxClock
  /\ clock' = clock + 1
  /\ UNCHANGED <<cluster, spaces, store, pc, local, ever, always, facts, bounds>>

\* A process dies, and with it the missions that ran in it.
DieWith(m) ==
  \E S \in SUBSET Missions :
    /\ m \in S
    /\ pc' = [n \in Missions |-> IF n \in S /\ Running(n) THEN "crashed" ELSE pc[n]]

Kill(m) ==
  /\ Disturb("kill")
  /\ Running(m)
  /\ DieWith(m)
  /\ UNCHANGED <<shared, local, ever, always, facts, edits>>
-----------------------------------------------------------------------------
(* What Backup and Restore have in common.                                 *)

Goto(m, step) == pc' = [pc EXCEPT ![m] = step]

\* InitLoggerAgent: the status starts as a success.
Start(m) ==
  /\ pc[m] = "idle"
  /\ Goto(m, IF m \in Backups THEN "discover" ELSE "find")
  /\ ever' = [ever EXCEPT ![m] = {<<o, cluster[o]>> : o \in In(cluster)}]
  /\ always' = [always EXCEPT ![m] = In(cluster)]
  /\ UNCHANGED <<shared, local, facts, bounds>>

\* A call fails without effect and the mission returns the error: no log and
\* no status are uploaded.  Where errors are ignored there is no such step.
Error(m) ==
  /\ Disturb("rpc")
  /\ \/ pc[m] \in {"find", "fetch", "discover", "upload", "log"}
     \/ pc[m] = "check" /\ In(tree[m]) # {}
  /\ Goto(m, "failed")
  /\ UNCHANGED <<shared, local, ever, always, facts, edits>>

\* KubernetesAgent.GetResourceTree finds out the resources and namespaces.
Discover(m) ==
  /\ pc[m] = "discover"
  /\ listed' = [listed EXCEPT ![m] = spaces]
  /\ todo' = [todo EXCEPT ![m] = Lists]
  /\ Goto(m, "list")
  /\ ClusterUnchanged
  /\ UNCHANGED <<spaces, store, clock, slot, tree, result, seen, pending, work,
                 sent, facts, bounds>>

\* buildObjectTree lists one resource in all namespaces, and keeps what is in
\* a namespace found before, or in none.  (Mistake: only the former.)
VisibleInSpaces(m, r) ==
  {o \in In(cluster) : ResourceOf[o] = r /\ NamespaceOf[o] \in listed[m]}
Visible(m, r) ==
  {o \in In(cluster) : /\ ResourceOf[o] = r
                       /\ o \in ClusterObjs \/ NamespaceOf[o] \in listed[m]}

\* An error of the list is ignored, so that the tree just misses the resource.
ListResource(m, r, k) ==
  /\ pc[m] = "list" /\ <<r, k>> \in todo[m]
  /\ \A call \in todo[m] : call[2] >= k
  /\ todo' = [todo EXCEPT ![m] = @ \ {<<r, k>>}]
  /\ \/ /\ m \in Backups
        /\ tree' = [tree EXCEPT ![m] =
             [o \in Objs |-> IF o \in Visible(m, r) \cap Wanted[m]
                               THEN cluster[o] ELSE @[o]]]
        /\ UNCHANGED <<seen, gaps, budget>>
     \/ /\ m \notin Backups
        /\ seen' = [seen EXCEPT ![m] = @ \cup Visible(m, r)]
        /\ UNCHANGED <<tree, gaps, budget>>
     \/ /\ Disturb("list")
        /\ gaps' = [gaps EXCEPT ![m] = @ \cup {<<r, k>>}]
        /\ UNCHANGED <<tree, seen>>
  /\ Goto(m, IF todo'[m] # {} THEN "list"
             ELSE IF m \in Backups THEN "check" ELSE "apply")
  /\ UNCHANGED <<shared, slot, result, listed, pending, work, sent, ever, always,
                 goal, skipped, made, raced, edits>>
-----------------------------------------------------------------------------
(* CoreStoreAgent.ApplyResourceTree and the upload of log and status.      *)

\* Mistake: a directory counts only once its status is there.
ExistsWhenDone(s) ==
  /\ s.name # Unnamed \/ s.stamp # NoStamp
  /\ store[s].status.by # NoMission

\* CheckRemoteStorageExist: a directory exists when there is a file in it.
\* There is no directory without a name.
Exists(s) ==
  /\ s.name # Unnamed \/ s.stamp # NoStamp
  /\ store[s] # NoFiles

\* TransformResourceTreeToLocal names the tree when the caller did not.
Named(s) ==
  IF s.name = Unnamed THEN [s EXCEPT !.stamp = clock] ELSE s

Uploading(s) == {m \in Missions : pc[m] = "upload" /\ slot[m] = s}

\* An empty tree is not stored, and the name is not looked up then.  Of an
\* object that came without definition from an archive, and was passed over
\* since, the process dies when it is written.
CheckExist(m) ==
  /\ pc[m] = "check"
  /\ \/ /\ In(tree[m]) = {}
        /\ Goto(m, "log")
        /\ UNCHANGED <<slot, raced, budget>>
     \/ /\ In(tree[m]) # {} /\ Exists(slot[m])
        /\ Goto(m, "failed")
        /\ UNCHANGED <<slot, raced, budget>>
     \/ /\ In(tree[m]) # {} /\ ~Exists(slot[m]) /\ m \notin Backups
        /\ Disturb("disk") /\ DieWith(m)
        /\ UNCHANGED <<slot, raced>>
     \/ /\ In(tree[m]) # {} /\ ~Exists(slot[m])
        /\ Goto(m, "upload")
        /\ slot' = [slot EXCEPT ![m] = Named(@)]
        /\ raced' = raced \cup {{m, n} : n \in Uploading(slot'[m])}
        /\ UNCHANGED budget
  /\ ClusterUnchanged
  /\ UNCHANGED <<spaces, store, clock, tree, result, listed, todo, seen, pending,
                 work, sent, gaps, goal, skipped, made, edits>>

Put(s, file, content) == store' = [store EXCEPT ![s][file] = content]

\* Mistake: one archive is enough.
AnySent(S) == S # {}

\* The loop over the storage map is over.
AllSent(S) == S = {"json", "yaml"}

\* One of the two archives, in no particular order.
UploadArchive(m, file) ==
  /\ pc[m] = "upload" /\ file \in {"json", "yaml"} \ sent[m]
  /\ Put(slot[m], file, [by |-> m, tree |-> tree[m]])
  /\ sent' = [sent EXCEPT ![m] = @ \cup {file}]
  /\ \/ Goto(m, IF AllSent(sent'[m]) THEN "log" ELSE "upload")
        /\ UNCHANGED budget
     \/ Disturb("lost") /\ Goto(m, "failed")
  /\ ClusterUnchanged
  /\ UNCHANGED <<spaces, clock, slot, tree, result, listed, todo, seen, pending,
                 work, facts, edits>>

UploadLog(m) ==
  /\ pc[m] = "log"
  /\ Put(slot[m], "log", m)
  /\ \/ Goto(m, "status") /\ UNCHANGED budget
     \/ Disturb("lost") /\ Goto(m, "failed")
  /\ ClusterUnchanged
  /\ UNCHANGED <<spaces, clock, local, facts, edits>>

\* The error of the last upload is overwritten: the mission ends well.
UploadStatus(m) ==
  /\ pc[m] = "status"
  /\ \/ /\ Put(slot[m], "status", [by |-> m, result |-> result[m]])
        /\ UNCHANGED budget
     \/ Disturb("rpc") /\ UNCHANGED store
  /\ Goto(m, "done")
  /\ ClusterUnchanged
  /\ UNCHANGED <<spaces, clock, local, facts, edits>>
-----------------------------------------------------------------------------
(* Restore: CoreStoreAgent.GetResourceTree.                                *)

FindBackup(m) ==
  /\ pc[m] = "find"
  /\ Goto(m, IF Exists(slot[m]) THEN "fetch" ELSE "failed")
  /\ UNCHANGED <<shared, local, ever, always, facts, bounds>>

\* The download.  What the disk of the backup or that of the restore has done
\* to the archive is no error: the tree has a part of it, or nothing (module
\* Archives).  A working directory that cannot be read at all ends the process,
\* and so do filters that leave nothing of a tree: they ask the root for its
\* parent, which it has not.
Fetch(m) ==
  LET archive == store[slot[m]].json
      whole == Only(archive.tree, Wanted[m])
      Take(t) == /\ tree' = [tree EXCEPT ![m] = t]
                 /\ pending' = [pending EXCEPT ![m] = In(t)]
                 /\ goal' = [goal EXCEPT ![m] = whole]
                 /\ skipped' = [skipped EXCEPT ![m] = In(whole) \ In(t)]
                 /\ IF m \in Filtered /\ In(t) = {}
                      THEN DieWith(m) ELSE Goto(m, "discover")
  IN
  /\ pc[m] = "fetch"
  /\ \/ /\ archive.by = NoMission
        /\ Goto(m, "failed")
        /\ UNCHANGED <<tree, pending, goal, skipped, budget>>
     \/ archive.by # NoMission /\ Take(whole) /\ UNCHANGED budget
     \/ /\ archive.by # NoMission /\ Disturb("disk")
        /\ \E S \in SUBSET Objs : Take(Only(whole, S))
     \/ /\ archive.by # NoMission /\ Disturb("disk") /\ DieWith(m)
        /\ UNCHANGED <<tree, pending, goal, skipped>>
  /\ UNCHANGED <<shared, slot, result, listed, todo, seen, work, sent, ever, always,
                 gaps, made, raced, edits>>
-----------------------------------------------------------------------------
(* Restore: KubernetesAgent.ApplyResourceTree, once the current tree is    *)
(* built.                                                                  *)

\* Mistakes: what is there is created; nothing leaves the tree.
MissingAny(node, S) == node
PruneNothing(t, node, S) == t

\* restoreObjectTree: of the objects of a node, those that the current tree S
\* does not have are created and stay in the tree, the others leave it.
Missing(node, S) == node \ S
Prune(t, node, S) == Only(t, In(t) \ (node \cap S))

Node(S, r, n) == {o \in S : ResourceOf[o] = r /\ NamespaceOf[o] = n}

\* restoreNamespaceTree: a namespace in which the resource has no object is
\* applied first.  When that fails the whole node is passed over, without a
\* word in the status.
OpenNode(m, r, n) ==
  LET node == Node(pending[m], r, n)
      known == Node(seen[m], r, n) # {} \/ n = ClusterLevel IN
  /\ pc[m] = "apply" /\ work[m] = {} /\ node # {}
  /\ pending' = [pending EXCEPT ![m] = @ \ node]
  /\ \/ /\ spaces' = IF known THEN spaces ELSE spaces \cup {n}
        /\ work' = [work EXCEPT ![m] = Missing(node, seen[m])]
        /\ tree' = [tree EXCEPT ![m] = Prune(@, node, seen[m])]
        /\ UNCHANGED <<skipped, budget>>
     \/ /\ ~known /\ Disturb("space")
        /\ skipped' = [skipped EXCEPT ![m] = @ \cup node]
        /\ UNCHANGED <<spaces, work, tree>>
  /\ ClusterUnchanged
  /\ UNCHANGED <<store, clock, pc, slot, result, listed, todo, seen, sent, gaps,
                 goal, made, raced, edits>>

\* The answers to the call in applyObject.
Stored(m, o) ==
  /\ cluster' = [cluster EXCEPT ![o] = tree[m][o]]
  /\ made' = [made EXCEPT ![m] = @ \cup {o}]
NotStored == UNCHANGED <<cluster, made>>
NotReported(m) == UNCHANGED result  \* mistake
Reported(m) == result' = [result EXCEPT ![m] = "PartialFailed"]

\* Create, of an object in a namespace.  AlreadyExists counts as a success; an
\* error that is not an answer of the API server is asked for its status,
\* which it has not.
Placeable(o) == cluster[o] = Absent /\ NamespaceOf[o] \in spaces
Create(m, o) ==
  /\ o \notin ClusterObjs
  /\ \/ /\ \/ Placeable(o) /\ Stored(m, o) /\ UNCHANGED result
           \/ cluster[o] # Absent /\ NotStored /\ UNCHANGED result
           \/ cluster[o] = Absent /\ ~Placeable(o) /\ NotStored /\ Reported(m)
        /\ UNCHANGED <<pc, budget>>
     \/ Disturb("refuse") /\ NotStored /\ Reported(m) /\ UNCHANGED pc
     \/ /\ Disturb("network") /\ DieWith(m) /\ UNCHANGED result
        /\ NotStored \/ (Placeable(o) /\ Stored(m, o))

\* Server-side Apply, of an object that is not in a namespace.  Of an object
\* that is there it changes the fields that no other manager owns.
Apply(m, o) ==
  /\ o \in ClusterObjs
  /\ \/ Stored(m, o) /\ UNCHANGED <<result, budget>>
     \/ /\ cluster[o] \notin {Absent, tree[m][o]}
        /\ NotStored /\ Reported(m) /\ UNCHANGED budget
     \/ Disturb("refuse") /\ NotStored /\ Reported(m)
     \/ Disturb("network") /\ Stored(m, o) /\ Reported(m)
  /\ UNCHANGED pc

\* An object that was cut short in the archive may have a node but no
\* definition.  It ends the process of whoever is to create it.
Undefined(m) ==
  Disturb("disk") /\ NotStored /\ DieWith(m) /\ UNCHANGED result

ApplyObject(m, o) ==
  /\ pc[m] = "apply" /\ o \in work[m]
  /\ work' = [work EXCEPT ![m] = @ \ {o}]
  /\ Create(m, o) \/ Apply(m, o) \/ Undefined(m)
  /\ Observe
  /\ UNCHANGED <<spaces, store, clock, slot, tree, listed, todo, seen, pending,
                 sent, gaps, goal, skipped, raced, edits>>

\* The root becomes one of a restore, under a name made up from the time.
RestoreApplied(m) ==
  /\ pc[m] = "apply" /\ pending[m] = {} /\ work[m] = {}
  /\ slot' = [slot EXCEPT ![m] = [@ EXCEPT !.kind = "restore", !.stamp = clock]]
  /\ Goto(m, "check")
  /\ UNCHANGED <<shared, tree, result, listed, todo, seen, pending, work, sent,
                 ever, always, facts, bounds>>
-----------------------------------------------------------------------------

Users ==
  \/ \E o \in Objs : UserWrite(o) \/ UserDelete(o)
  \/ \E n \in Namespaces : UserDeleteSpace(n)

Mission(m) ==
  \/ Start(m) \/ Error(m) \/ Discover(m)
  \/ \E call \in Lists : ListResource(m, call[1], call[2])
  \/ CheckExist(m)
  \/ \E file \in {"json", "yaml"} : UploadArchive(m, file)
  \/ UploadLog(m) \/ UploadStatus(m)
  \/ FindBackup(m) \/ Fetch(m)
  \/ \E r \in Resources, n \in Namespaces \cup {ClusterLevel} : OpenNode(m, r, n)
  \/ \E o \in Objs : ApplyObject(m, o)
  \/ RestoreApplied(m)

Next == Users \/ Tick \/ \E m \in Missions : Mission(m) \/ Kill(m)

Spec == Init /\ [][Next]_vars
-----------------------------------------------------------------------------
(* What the missions should do.                                            *)

\* The type of the state.
TypeOK ==
  /\ cluster \in Trees /\ spaces \subseteq Namespaces
  /\ store \in [Slots -> Files]
  /\ clock \in 0..MaxClock
  /\ pc \in [Missions -> Steps] /\ slot \in [Missions -> Slots]
  /\ tree \in [Missions -> Trees] /\ goal \in [Missions -> Trees]
  /\ result \in [Missions -> Results]
  /\ listed \in [Missions -> SUBSET Namespaces]
  /\ todo \in [Missions -> SUBSET Lists] /\ gaps \in [Missions -> SUBSET Lists]
  /\ {seen, always, skipped, made} \subseteq [Missions -> SUBSET Objs]
  /\ {pending, work} \subseteq [Missions -> SUBSET Objs]
  /\ \A m \in Missions : pending[m] \cup work[m] \subseteq In(tree[m])
  /\ sent \in [Missions -> SUBSET {"json", "yaml"}]
  /\ ever \in [Missions -> SUBSET (Objs \X (1..MaxVersion))]
  /\ raced \subseteq SUBSET Missions
  /\ budget \in 0..MaxFaults /\ edits \in 0..MaxEdits

\* A stored archive is replaced only by a mission that looked for the name
\* when the author of the archive had, and before it was through with its
\* uploads: names are not reserved, but no other overwriting happens.  A
\* name that the program makes up from the time is not looked up at all.
OverwrittenOnlyInRace ==
  [][\A s \in Slots, file \in {"json", "yaml"} :
       LET old == store[s][file].by
           new == store'[s][file].by IN
       old \notin {NoMission, new} => {old, new} \in raced \/ s.name = Unnamed]_vars

\* A status is the last file of a mission: where it is stored, both archives
\* are, unless there was nothing to store.
StatusMarksComplete ==
  \A s \in Slots :
    LET m == store[s].status.by IN
    m # NoMission /\ In(tree[m]) # {}
      => store[s].json.by # NoMission /\ store[s].yaml.by # NoMission

\* The status next to an archive is that of its author, unless two missions
\* raced, or a later mission found nothing to store: it does not look for
\* the name and replaces log and status of what is there.
StatusOfAuthor ==
  \A s \in Slots :
    LET m == store[s].status.by
        n == store[s].json.by IN
    NoMission \notin {m, n} /\ s.name # Unnamed
      => m = n \/ {m, n} \in raced \/ In(tree[m]) = {}

\* Every list of its resource failed.
Missed(m, o) == \A k \in 1..Times[ResourceOf[o]] : <<ResourceOf[o], k>> \in gaps[m]

\* A backup holds nothing but what existed while it ran, as it was then, and
\* everything it was asked for that existed all the while, except resources
\* whose list failed.  It is no snapshot: the resources are listed in turn.
BackupFaithful ==
  \A s \in Slots :
    LET m == store[s].json.by
        t == store[s].json.tree IN
    s.kind = "backup" /\ m # NoMission =>
      /\ \A o \in In(t) : o \in Wanted[m] /\ <<o, t[o]>> \in ever[m]
      /\ \A o \in Wanted[m] \cap always[m] : Missed(m, o) \/ o \in In(t)

\* When a restore leaves the status Success, everything it was to restore
\* existed at some time while it ran, except what it passed over silently: a
\* node whose namespace could not be applied, what it did not get of an archive.
SuccessMeansRestored ==
  \A s \in Slots :
    LET m == store[s].status.by IN
    s.kind = "restore" /\ m # NoMission /\ store[s].status.result = "Success" =>
      \A o \in In(goal[m]) \ skipped[m] : \E v \in 1..MaxVersion : <<o, v>> \in ever[m]

\* The archive that a restore stores has everything the restore wrote, and
\* nothing that existed all the while, except resources whose list failed.
RecordExact ==
  \A s \in Slots :
    LET m == store[s].json.by
        t == store[s].json.tree IN
    s.kind = "restore" /\ m # NoMission =>
      /\ made[m] \subseteq In(t)
      /\ \A o \in In(t) \cap always[m] : Missed(m, o)

\* A restore does not change what it finds.  Only an object that is not in a
\* namespace may be changed, when it came into being while the restore ran or
\* when the list of its resource failed.
KeepsWhatItFinds ==
  [][\A m \in Missions, o \in Objs :
       ApplyObject(m, o) =>
         \A q \in In(cluster) :
           \/ cluster'[q] = cluster[q]
           \/ /\ q \in ClusterObjs
              /\ q \notin always[m] \/ Missed(m, q)]_vars
=============================================================================
