# Boxroom, specified

TLA+ specifications of [boxroom](../src), a Kubernetes operator with two
halves:

* a **controller** (`internal/controller/storagelocations_controller.go`) that
  keeps the storage-plugin pods and the service of every `StorageLocations`
  object in the cluster;
* a **backup library** (`kubernetes/`) whose `AgentController` runs two
  missions, `Backup` and `Restore`, between a cluster and an S3 store.

Line numbers below are those of the repository's files. The library does not
build as it stands: `storage/dir/dir.go`, the s3 client and the tests under
`kubernetes/test` import its packages as `boxroom/...`, everything else as
`github.io/misskaori/boxroom-crd/...`, which is the module of `go.mod`. What is
modelled is the program they are meant to be together.

| module | what it is |
|---|---|
| `StorageLocations` | the controller with its caches, the API server, kubelet, garbage collector and users |
| `MCStorageLocations` | its constants for TLC, and three claims of the docs that the code breaks |
| `StorageLocationsProofs` | the inductive invariant of the controller and its theorems, checked by TLAPS |
| `WakeupProofs` | no event is lost: the invariant of the wake-ups, checked by TLAPS |
| `ReplicaContract` | what a user may rely on: the abstract specification of the controller |
| `ReplicaContractProofs` | the controller implements it, checked by TLAPS |
| `Missions` | backups and restores running at the same time over one cluster and one store |
| `MCMissions` | its constants for TLC, and one claim of the code that concurrency breaks |
| `MissionsProofs` | types of `Missions` and what is known of the store, checked by TLAPS |
| `MissionsClusterProofs` | what its missions know of the cluster, checked by TLAPS |
| `Trees` | how the tree of one mission is filtered, built and pruned, node by node |
| `Archives` | the missions of one caller with their files: working directories, packing, upload, download, unpacking; its steps include those of `Trees` |
| `MCArchives` | its constants for TLC |
| `ArchivesProofs` | what is stored is whole, a restore reads all of it, directories are deleted, but for named trouble with a disk; checked by TLAPS |
| `TreesProofs` | trees are their objects, backups and filters are exact, in every mission of `Archives`; checked by TLAPS |
| `Boxroom` | the controller and the missions in one cluster: steps of `StorageLocations` and of an instance of `Missions` |
| `MCBoxroom` | its constants for TLC |
| `BoxroomProofs` | what the controller promises it promises beside missions too, and who orphans its services is on record; checked by TLAPS |

`PROJECT.json` lists components, runs, mutants, the source lines of every
definition, findings, hazards and theorems.

## 1. Inventory

### StorageLocations controller — `StorageLocations`

*State.* In the API server: the objects (spec, status, generation,
deletionTimestamp), pods and services with their ownerReferences. In the
process: informer caches of the three kinds, the work queue, the global LRU
`deletedPodCache` (line 40) and the local variables of the one reconcile that
runs (`MaxConcurrentReconciles` is 1 by default).

*Operations.* `Reconcile` (60-126) runs `getStorageLocation`,
`syncChildPodList` (list, create or delete in a loop, list again for the
status), `syncChildService` (the same with at most one service, and a call of
itself when the list is not what it should be) and `updateStorageLocation`.
The event handlers (317-361) put the owner of a pod or a service into the
queue.

*Interaction.* All reads come from the caches, all writes go to the API server;
watch events connect the two some time later. The only feedback that the
controller has is another event.

*Hard.* Counting from a stale cache; loops that drop every error and retry for
ever with the same argument; the hidden pods of `deletedPodCache`; spec and
status written together; death of the process (a nil dereference anywhere ends
it) and what the next one finds.

*Correct when* it never deletes below the wanted number, never hides a pod that
lives, loses no event, never overwrites what a user did, and converges.

### Missions — `Missions`, `Trees`, `Archives`

* **Mission controller** (`kubernetes/controller/controller.go`, called from
  `kubernetes/api/service`). No state of its own; a sequence of calls with an
  early return after each.
* **Kubernetes agent** (`k8s-agent/agent.go`). `GetResourceTree`: discovery,
  list of namespaces, filters, then one list per resource. `ApplyResourceTree`:
  the same for the current tree, then a walk over the backup tree that creates
  what is missing and takes out what is there.
* **Core store agent** (`store-agent/core_agent.go`). `ApplyResourceTree`: is
  the name taken, pack, upload the json and the yaml archive in the order of a
  map. `GetResourceTree`: is the name there, download, unpack, filter.
* **Assist log store agent** (`store-agent/assist_agent.go`,
  `resource/tree/status.go`). Log and `MissionStatus`, uploaded last.
* **Storage layout** (`storage/dir/dir.go`): `<cluster>/<kind>/<name>/`, names
  made up from the time; local directories with random names, one file per
  object, packed twice.
* **Files** (`util/util-func/file.go`): make, write, pack, unpack, delete. Who
  deletes a directory, and whether an error leaves it behind, depends on which
  deferred functions are registered by then. Some errors are returned, some
  only logged, one is not looked at.
* **Store client** (`store-client/s3`): list, get, upload; no transactions.
* **Resource tree and filters** (`resource/tree`, `k8s-filter`): six levels of
  maps; filters by the kind of a level, given as a map that the caller keeps.

*Hard.* Missions of several goroutines and processes share store and cluster
without any lock; look-up and upload of a name are separate; a backup is not a
snapshot; errors of lists, of namespaces and of unpacking are dropped; an
error of `Create` without an API status ends the process; a mission can stop
between any two uploads; slices are changed while a caller still holds them;
maps of filters are changed under the caller; a disk that fails may leave a part
of an object's file, of an archive or of a tree, and nobody is told.

*Correct when* whoever reads the store can tell a complete backup from half a
backup, a backup holds what was asked for, a restore reports and records what
it did and harms nothing it finds, and filters mean what they say.

### Both in one cluster — `Boxroom`

The two halves never call each other; they meet in the API server. A backup of
a namespace has its `StorageLocations` objects and their services, pods are
taken out by the default filters. A restore creates what is missing, without
uid, status and ownerReferences (`preHandleObjectBeforeCreate`), and the
controller's watches see it like anybody's write.

*Hard.* A restored service has the label and the name of the controller's own
but no owner, which the event handler does not survive; objects come back, or
go, while the worker has an older one in hand.

*Correct when* the controller loses none of its guarantees, and either recovers
or fails in a way that can be told from the store.

### Not modelled

* The reconcilers of `Backups` and `Restores` (scaffolds that do nothing), the
  start of the program (a straight line, of which only what it sets up, `Init`
  and `Restart`, is modelled) and the construction of API clients.
* Buckets and the health check of the store client: nothing calls them.
* Of files: two random names that coincide. The text of logs.
* Generated deep copies, and manifests but for the two facts that
  `StorageLocations` takes from them: the status subresource and the sample
  without `containerSpec`.

## 2. `StorageLocations`

### Correspondence

| spec | code |
|---|---|
| `loc`, `born`, `made`, `pod`, `owner`, `svc` | what the API server stores |
| `cLoc`, `cPod`, `cSvc` | the informer caches behind `r.Get` and `r.List` |
| `news`, and `cPod # pod` | watch events still on their way |
| `queue`, `deleted` | the work queue, `deletedPodCache` |
| `pc`, `key`, `obj`, `list`, `head`, `left` | the reconcile: place, request, `storageLocation`, `childPodList`, `childPodList[0]`, iterations left |
| `StartReconcile` | queue item, `getStorageLocation` 60-92 |
| `ListPods`, `CreatePod(Lost)`, `DeletePod(Lost)`, `Relist` | `syncChildPodList` 128-170 |
| `ListSvc`, `CreateSvc`, `RelistSvc` | `syncChildService` 184-224 |
| `UpdateStatus` | `updateStorageLocation` 254-280, end of `Reconcile` |
| `SyncLoc`, `SyncPod`, `SyncSvc` | one event: cache and handler |
| `Die`, `Crash`, `Restart` | panic or kill, and the Deployment |
| `Users`, `Cluster` | kubectl, kubelet, garbage collector |

Choices a reader should know of:

* A cache jumps to the present object by object; every order of objects and
  any delay is possible, but not every past version is seen. What the
  controller reads are phases and existence, and a skipped version is one it
  need not have seen.
* An error from a call that had no effect makes the code repeat the iteration:
  a step that changes nothing, so not written down. An error whose request was
  stored is `...Lost`.
* A failing reconcile is put back at once (`Requeue`); back-off is time only.
* A restarted informer lists everything before the worker starts, so the
  caches are up to date then. Periodic resyncs are left out: they only add
  wake-ups, and `NoLostWakeup` is the stronger without them.
* `deletedPodCache` drops an entry when it has more than `CacheSize` (`lru.New`,
  1000 in the code). Each list looks up all pods in no particular order, which
  makes any old entry the least recently used one: `Remember` chooses. A pod
  that is forgotten while its cached copy still looks alive is counted again,
  and may be deleted again; such pods are added to `taken`.
* `UserOrphan` is one step. What it leaves behind carries the label but no
  ownerReferences; the handler dereferences nil (line 324), also at every
  restart, until somebody removes it (`CleanOrphans`).
* `taken` is history: pods that went away without the controller being told
  that it was its own doing, and those it forgot.

### Runs

| run | question | bounds | states |
|---|---|---|---|
| `locations_scale` | `TypeOK`, `NoLostWakeup`, `NoLostSpecEdit` under edits, kills, lost answers, crashes and incomplete or negative specs | 2 pods, replicas -1..2, 2 faults | 2.4 M |
| `locations_pods` | `HiddenAreDying`, `WedgeOnlyByOthers`, `ScaleDownSafe`, `KeepsContract` | 3 pods, replicas 0 and 2, 2 faults, status subresource, a `deletedPodCache` of one entry | 1.1 M |
| `locations_recreate` | `NoLostWakeup`, `NoLostSpecEdit`, `KeepsContract`: the same name again after background, finalizer and orphan deletion | 2 pods, 2 incarnations | 2.2 M |
| `locations_converge` | `ConvergesUnlessWedged` (liveness) | 2 pods, 1 fault | 0.3 M |
| `locations_no_fault`, `locations_delete`, `locations_sample` | violations, see section 6 | | |

One object is enough for what is checked: objects share nothing but the worker
and the queue, and a worker that hangs in one object is already visible with
one. Two faults let every pair of disturbances meet in one reconcile; three
pods are the least with which a stale count could delete one too many after
another deletion. The theorems below hold without these bounds.

### Fairness

`FairSpec`, used by the liveness runs only: weak fairness of the kubelet, the
garbage collector, every watch, every step of the worker and the Deployment,
because each is a loop that is never blocked by another; strong fairness of
`StartReconcile(l)`, because the queue is first in first out and a key is
waiting again and again while the worker serves others. Nothing is assumed of
users, faults and lost answers. Deletions are excluded from the liveness run:
with an object in deletion the manager dies at every reconcile, an object that
is gone but still cached gets new pods that the garbage collector removes
again, and with orphans that nobody cleans up the manager never returns.

### The contract

`ReplicaContract` is what a user may rely on, without caches, queues and loops:
pods that serve (`alive`), what is asked for (`asked`), what the controller last
heard (`heard`) and the object it works on (`goal`). Pods of the goal appear;
one disappears only while the goal keeps what it asks for; the rest of the world
may take pods away, which is on record (`lost`); and the controller may forget
what it did when more pods have gone than it has memory for. `KeepsContract`
(end of `StorageLocations`) instantiates it: `alive` are the pods in a live
phase, `heard` the cached specs, `goal` the reconcile in hand. What the contract
does not see (lists, the service, the status, pod phases, events) maps to
stuttering.

### Proved

For every number of objects, pods, incarnations and faults and every size of
`deletedPodCache` that the assumptions of the module allow:

| theorem | property |
|---|---|
| `StorageLocationsProofs!TypeCorrect` | `TypeOK` |
| `StorageLocationsProofs!HiddenCorrect` | `HiddenAreDying` |
| `StorageLocationsProofs!WedgeCorrect` | `WedgeOnlyByOthers` |
| `StorageLocationsProofs!ScaleDownCorrect` | `ScaleDownSafe` |
| `StorageLocationsProofs!SpecEditCorrect` | `NoLostSpecEdit` |
| `ReplicaContractProofs!ContractKept` | `KeepsContract` |
| `WakeupProofs!WakeupCorrect` | `NoLostWakeup` |

`Invariance` is the inductive invariant, in layers of which each needs those
before it:

1. `TypeInv` — types, `MadeInv` (pods are numbered in order of creation, a
   created one has an owner) and `LoopInv` (the counters of the loops).
2. `DyingInv` — what `deletedPodCache` holds is on its way out. Phases never go
   back, so a pod once there stays dying.
3. `CacheInv` — a pod that the cache shows alive and that is not hidden is
   alive, or was taken by others. This is why counting from a stale cache is
   safe: between the API server and the cache the controller only ever
   *creates* (which makes it count too few) and *deletes* (which it hides).
4. `ListInv` — in the deletion loop the rest of `childPodList` consists of
   own pods that are alive or taken, and `list` has exactly
   `replicas + left` members. `ScaleDownSafe` follows: after a deletion
   `replicas` of them are left.
5. `VersionInv` — every cached or held copy of an object is of an earlier or
   the present version of the stored one, and an equal generation of an equal
   uid means an equal spec. `NoLostSpecEdit` follows from the version check of
   Update.

`ContractKept` needs no more than this: the initial states are states of the
contract (`ContractInit`), and every step that keeps the invariant is one of
its steps or invisible (`ContractStep`, one lemma for each step of the
contract). Layer 4 and `DeletionLeaves` give the step that removes a pod.

`WakeupProofs` adds `WakeInv`, which describes what is still to come. An object
is `Expected` when its key is queued, an event of it or its service is under
way, or the cache of one of its pods lags. Four parts:

1. `AgeInv` — a cache that differs from a pod shows an earlier phase, so that
   it cannot come to agree by chance, but only by the event.
2. `SyncInv` — of what there is no event the cache shows the present.
3. `SeenInv` — the reconcile in hand has seen its object and its children as
   they are, and made of them what is asked for, or its key is expected.
4. `RestInv` — an object that is neither expected nor in hand is settled.

The argument rests on `StepCalm`: a step after which an object is not expected
has left the object, its service and its pods alone, unless it is the one that
takes the key from the queue. `UpdateSettles` then says that a reconcile which
ends without the prospect of another leaves the object settled.

Only model-checked: `ConvergesUnlessWedged` (liveness is out of the prover's
reach).

## 3. `Missions`

### Correspondence

| spec | code |
|---|---|
| `cluster`, `spaces` | objects and namespaces of the API server |
| `store` | `<cluster>/<kind>/<name>/{json,yaml,log,status}` |
| `slot`, `tree`, `result` | `root.TreeKind/TreeName`, the root, `MissionStatus.Status` |
| `listed`, `todo`, `seen` | namespaces found first, lists still to come, current tree |
| `pending`, `work` | nodes still to compare, objects of the node in hand |
| `Start`, `Discover`, `ListResource` | `Backup` 21-52, `GetResourceTree` 35-80, `build*Tree` 283-402 |
| `CheckExist`, `UploadArchive`, `UploadLog`, `UploadStatus` | `CoreStoreAgent.ApplyResourceTree` 77-131, `UploadLocalLogger` |
| `FindBackup`, `Fetch` | `CoreStoreAgent.GetResourceTree` 26-75 |
| `OpenNode`, `ApplyObject`, `RestoreApplied` | `compare*`, `restore*`, `applyObject` 122-281, `Restore` 116-127 |
| `Error`, `Kill`, `Disturb(..)` | an error that is returned, a process that ends, the faults |

A step is one remote call with the local work around it. Working directories
are private to a mission (their names are random) and left out. Other choices:

* A tree is a function from objects to contents, `Absent` for those it has not:
  the nodes above are determined by it (`TreeOfObjects` of module `Trees`).
  `Wanted[m]` is what the filters of mission `m` let through (`BackupExact`,
  `FilterExact` of module `Trees`). `Namespace` objects are `spaces`, not
  members of `Objs`.
* `Times` says how often a resource is listed: `filtrateResource` makes the
  last API list appear again for every list the default filter empties
  (events, endpointslices), and the second list may see a changed cluster.
* The backup whose restore is tried may be one of the behaviour, or an earlier
  one (`Earlier`): complete, with whatever of its log and status came through,
  or given up after any of its uploads (`Left`).
* `Create` of an object that is there counts as success; an error without an
  API status dereferences nil, which ends the process (`DieWith`, with
  whichever missions run in it). Server-side `Apply`, used for cluster-level
  objects only, either wins or reports a conflict.
* Names made up from the time (`stamp`) are not looked up before use.
* A disk that fails shows where its damage comes to light: `Fetch` takes any
  part of the archive, down to nothing, or ends the process; `Undefined` and
  `CheckExist` end it at an object without a definition. Which disk, and which
  parts there can be, is the matter of `Archives`. What is missing from the tree
  is added to `skipped`, since the code never reports it.
* The history variables `ever`, `always`, `gaps`, `goal`, `skipped`, `made`,
  `raced` are written and never read by the actions.

### Runs

| run | question | bounds | states |
|---|---|---|---|
| `missions_backup` | `StatusMarksComplete`, `StatusOfAuthor`, `BackupFaithful`, `OverwrittenOnlyInRace` | 2 backups with one name or none, 3 objects of 3 resources, 1 edit, 1 fault | 1.1 M |
| `missions_restore` | `TypeOK`, `SuccessMeansRestored`, `RecordExact`, `KeepsWhatItFinds` | 1 earlier backup, complete or given up halfway, 1 restore, 2 edits, any fault of the model, clusters that lost or changed objects | 1.7 M |
| `missions_same_name` | violation, see section 6 | 2 backups, no fault | |

Objects differ in what the code tells apart: two namespaced ones of different
resources in one namespace and one at cluster level, listed twice. Two contents
per object tell "restored" from "kept". Two missions are the least that race
and, since a mission only looks at the files of its slot, the most that a pair
of properties speaks of. A mission takes at most one fault per run: most faults
end it, and those that do not are meant to be survived one by one. No fairness
is assumed and deadlock is not checked: a program whose missions are over
stops.

A restore next to the very backup it reads is not a run of its own: with backups
that were given up TLC sees each state of the store that such a restore may
find, and the theorems below cover the store changing between its look-up and
its download.

What they show: a stored status does mark a complete pair of archives, and next
to an archive it is that of its author, up to three named exceptions (a race
for one name; a later mission that found nothing to store; names made up within
one second); a backup is faithful though no snapshot; `Success` of a restore
means that everything existed, up to two silent exceptions (`skipped`: a
namespace that could not be applied, what the disk has cost of the archive).

### Proved

Every property of the two passing runs is also a theorem, for any number of
missions, objects, resources, namespaces and names, and any bounds on edits
and faults:

| theorem | property |
|---|---|
| `MissionsProofs!TypeCorrect` | `TypeOK` |
| `MissionsProofs!StatusCorrect` | `StatusMarksComplete` |
| `MissionsProofs!AuthorCorrect` | `StatusOfAuthor` |
| `MissionsProofs!OverwriteCorrect` | `OverwrittenOnlyInRace` |
| `MissionsClusterProofs!BackupCorrect` | `BackupFaithful` |
| `MissionsClusterProofs!RecordCorrect` | `RecordExact` |
| `MissionsClusterProofs!SuccessCorrect` | `SuccessMeansRestored` |
| `MissionsClusterProofs!KeepsCorrect` | `KeepsWhatItFinds` |

They rest on the assumptions of `Missions`: an object that is not in a
namespace and one that is never have a resource in common, each resource is
listed at least once, an earlier backup holds only what it was asked for, and
caller-given names differ from the empty one. The invariant (`IInv`) has four
parts:

1. `TypeOK` and `Ordered` — a mission has nothing in hand before it applies and
   has uploaded nothing before it uploads. `TypeOK` alone is not inductive:
   `Fetch` replaces the tree, of which `work` has to be a part.
2. `StoreInv` — `Signed`: what is stored under a mission's name was put there by
   it and is its tree; `Kept`: what it has uploaded is there, or something in
   its place, and it comes to its log with both archives uploaded or none to
   upload; `Alone`: whoever uploads to a named slot that another mission uses
   has raced it; `Replaced`: the author of the archive in a mission's place has
   raced it. All steps but four are `Quiet`, and one lemma (`QuietKeeps`)
   deals with them; `CheckKeeps` is where the look-up of the name matters.
3. `Watched` — what existed all the while exists, and what exists has been
   seen existing; every object is in a namespace that exists.
4. `Knows(m)` — of one mission: `Listed`, an object that existed all the while
   was found, or every list that shows it failed or is still to come;
   `Copied`, a backup has copies of what existed; `MadeKept`, what a restore
   wrote stays in its tree; `Restored`, each object of the goal is skipped,
   pending, in hand, has existed, or is reported. A mission that rests, or is
   killed by the death of another's process, keeps all this (`RestsKeeps`,
   `OthersRest`); one lemma per step of its own does the rest.

## 4. `Trees` and `Archives`

### Correspondence

A node is the path from the root, a tree a set of paths. `Backup`,
`FiltrateResource`, `FiltrateResourceDone`, `BuildVersion`, `BuildPrune`,
`BuildDone` are `GetResourceTree` 35-80 and what it calls (283-552);
`RestoreFrom`, `DeepFiltrateResources`, `Compare` are `dir.buildResourceTree`,
`filtrateResources` and the comparison 122-251. `hollow` are the objects that
`buildResourceTree` left without metadata and definition (it stopped at them,
193-203): `Compare` ends in `"died"` when one of them is to be created. `vs`/`size` keep the array and
the length of the slice apart, as Go does: `filtrateResource` shortens its own
copy, the caller loops over the whole array, where the last list now stands
twice or more, which `BackupExact` shows to be harmless. `filters` is the
caller's map, which a backup empties of the filters it used: the second backup
with one map is a different backup. Callers pass a root without groups.

The assumptions of `Trees` are few: names are strings; a group version is a
group and a version; an object is in one of the namespaces there are (`Spaces`)
or, just when its resource is one of the cluster's, at `ClusterLevel`. Group
versions need not be distinct: that discovery returns each only once is not
used.

`Archives` puts these steps into missions. `agenda` is what the mission in hand
has still to do, deferred deletions included; an early return (`Return`,
`GoIf`) leaves only the deletions whose `defer` has been reached.

| spec | code |
|---|---|
| `OpenLog`, `Write("status")`, `Pack`, `Ship`, `DeleteDir("log")` | `InitLoggerAgent`, `UploadLocalLogger`, `DeleteLocalLogger` |
| `CheckExist`, `Upload`, `DeleteDir("core")` | `CoreStoreAgent.ApplyResourceTree` |
| `Write`, `Pack` of json and yaml | `createStorageMap` and the tree of directories below it, `TgzPacker.Pack` |
| `Find`, `Fetch`, `DeleteDir("down")` | `CoreStoreAgent.GetResourceTree`, `GetRemoteStorage` |
| `Unpack`, `Filter` | `TransformLocalToResourceTree`, `UnPack`, `deepFiltrateResources` |
| `CallFails`, `Disturb` | errors of the cluster, the store (answered or lost) and the disk; the kill of the process |

What is in a file, a directory or an archive is a record: the objects it is
about, whether it is whole, and which files in it (`Halves`: each object has one
with its definition and one with its metadata) are cut short. The disk may fail

* with an error that is returned: of making, writing, packing, unpacking. The
  mission gives up (`GiveUpUnless`), or, of unpacking, goes on with an empty
  tree, as `core_agent.go:58-61` only logs the error;
* with an error that is only logged: of closing an object's file
  (`dir.go:395-400`, `406-411`), so that it is packed and uploaded cut short
  (`torn`); of closing the download, which then may not be unpacked; of a line of
  the log, so that a broken log is uploaded;
* with an error that is not looked at: `getLocalResourceMap` (`dir.go:221-224`)
  goes on after a directory that cannot be read, so that one of an object's files
  or all of an object is not seen (`Seen`). For the top directory it is called
  without an entry, and the process ends.

`buildResourceTree` takes the objects in the order of a map and stops at the
first that is cut short; what was built by then stays (`Halfway`). With the
metadata it has no node, with the definition only a node without either: that
node ends the process when it is created or, having been passed over, stored
again. A panic lets the deferred functions of its goroutine run; a kill does not.

`MaxLost` bounds, for TLC, how many files or objects one trouble with a disk
costs (`Few`); it is a constant of which the proofs know nothing but that it is a
number.

### Runs

`archives`: seven maps of filters (none, includes and excludes of resources and
of namespaces, with the filter for cluster resources, for the root), three
discoveries (with one, two and three lists that end up empty, next to each other
or at the end), two clusters, any one list failing, two missions in any order and
over an empty store or one with an earlier archive, and one fault of any kind, in
which a disk costs one file or one object: 0.47 M states. `MCInit` of
`MCArchives` leaves out only that the second and third discovery, or the cluster
of two objects, meet the maps that filter something and leave something. Two
missions are needed for the shared map and for a restore of what a backup has
just stored, and one fault is enough for either of them to go on with less than
all: that a restore meets the trouble of a backup and trouble of its own is left
to the theorems, which hold for any number of missions and of faults.

* `TreeOfObjects`, `BackupExact`, `FilterExact` — what is in the trees.
  `FilterExact` includes when a restore dies in its filters: just when nothing
  is left, which includes every map that has the filter for cluster resources
  (`ClusterKind`, a kind no node has), and the helper `GetTreeRootFilter`, whose
  set holds a root and not its name.
* `StoredWhole` — both archives of a name are about the tree of the mission that
  stored them, wherever it gave up, and they and the status can be unpacked. A
  file of an object in them, or the log, is cut short only if *that* mission had
  trouble with its disk. The exception is needed: with it left out, TLC finds a
  backup that ends well after `objectFile.Close` has failed.
* `RoundTrip` — a restore works on all of what the backup stored, with every
  definition, unless its own disk or that of the backup was at fault. Then it may
  have any part; but nothing that was not backed up, and at most one object
  without a definition. `applyObject` means to answer such an object with an
  error (247-248), but reads its metadata before (244, 246), so that the process
  ends there; the exceptions of `Tidy` and the step `Compare` say so.
* `Tidy` — missions leave no directory behind, but after trouble with the disk
  (the errors of writing and packing return no path, and the deletion of the
  archives' directory is not reached), after a kill, and when storing an object
  without a definition ended the process, for the same reason.
* `MissionsEnd` — every mission comes to an end, under `WF(Mission)`: every
  call returns. That is an assumption on the other side, for the calls of the
  cluster and the store have no time limit of their own.

### Proved

Every invariant of the run is also a theorem, for any number of missions, lists,
objects and namespaces, any maps of filters and any faults:

| theorem | property |
|---|---|
| `ArchivesProofs!ArchivesStoredWhole` | `StoredWhole` |
| `ArchivesProofs!ArchivesRoundTrip` | `RoundTrip` |
| `ArchivesProofs!ArchivesTidy` | `Tidy` |
| `TreesProofs!TreesOfObjects` | `TreeOfObjects` |
| `TreesProofs!TreesBackupExact` | `BackupExact` |
| `TreesProofs!TreesFilterExact` | `FilterExact` |

*Files.* `agenda` is a sequence, but always the rest of one of four: the steps
of a backup, of a restore, what is left after a failed upload, and after a
panic. Together they have 28 places, and the invariant `FilesInv` says that the
mission is at one of them and what holds there: `Written`, the files about to
be uploaded are about what the slot is meant to have and are whole, but for
trouble that is on record (`Kept`, `LogKept`), and the download is a copy of what
is stored or of a mission in trouble (`Downloaded`); `Reading`, a restore filters
what `RoundTrip` allows (`Worked`); `Swept`, each directory is of a mission that
had trouble, or its deletion is still to come. `Sane` is what makes parts of
archives tractable: only files of an archive's own objects are ever cut short,
so that whatever is built of it is a part of it. Lemmas say for each place what follows it and what a
`Return` makes of it; then there is one lemma per step.

*Trees.* Proved on top of `FilesInv`, which tells what `tree`, `found` and
`loaded` belong to. Three facts about trees carry it:

1. `TrimIs` — `Trim`, which recurs over the tree, keeps the nodes at, above and
   below the topmost nodes that are decided on and kept. No induction over data
   is needed: that set solves the equation of `Trim` and, as paths have at most
   five names, two solutions agree, level by level from the objects upwards
   (`TrimUnique`). `FilterTrims` and `CompareTrims` say what that makes of the
   tree of some objects: the tree of those a filter admits, or of those the
   cluster does not have.
2. `PruneKeeps` — pruning one level moves the frontier up below which every
   node has an object (`Grown`).
3. `LoopInv` — the loop of `filtrateResource`, over an array that is shifted
   under it: what the index has passed is filtered; what lies behind the end is
   filtered or stands in front of the index once more; no list that has
   anything to back up is lost.

The invariant `TreesInv` adds the rest of the way: `WorldInv` and `MapInv` (what
is listed; the caller's map is as it was passed, or spent), `BusyInv` (what runs
when), `BuildInv` (lists that were built cover their objects, `Covered`, those
built twice included), `FilterInv` (between two filters of a restore) and
`DoneInv`, from which the theorems follow. It is also what TLC was asked first,
on the instance of the run.

`MissionsEnd`, a liveness property, is model-checked only.

## 5. `Boxroom`

### Correspondence

`Boxroom` extends `StorageLocations` and instantiates `Missions` with a cluster
that is not a variable but `View`, a function of `loc` and `svc`.

| step | what it is |
|---|---|
| `ClusterStep` | a step of `StorageLocations`, which the missions observe |
| `MissionStep(m)` | a step of `Missions` that leaves the cluster alone |
| `RestoreObject(m, l)` | `ApplyObject` of `Missions`, to the controller a `UserCreate` |
| `RestoreService(m, l)` | `ApplyObject` of `Missions`, to the controller a service without owner |

### Run

`boxroom`: one object, an earlier backup that has it, one restore; the user
creates and deletes the object, or deletes the service, once; the backup is
complete and the restore is asked for it (`MCSpec`): 0.15 M states.
Pods never come into a tree, so objects ask for none and one pod is enough for
the bounds of the module; faults of the missions are those of `Missions` and
left out. Fairness is that of the controller (section 2); missions may stop
anywhere.

* `OrphansOnRecord` — a service that ruins the controller was created by a
  restore which has it in its tree and, once done, in its archive, unless that
  archive was overwritten: by another restore with which it raced for the name,
  or because the name was made up from the time. With one restore, as in the
  run, neither happens; the proof needs the exceptions as soon as there are two.
* `Recovers` — the objects settle, or one of three things has happened for good:
  `Wedged` (section 2); `Outlived`, the worker creates services for an object
  that is gone, which the garbage collector removes, while `syncChildService`
  calls itself with the object it was given; `Ruined`, the restore created the
  service before the controller did, and the manager dies of it at every start.
  The model checker found `Outlived`: a deletion in the middle of a reconcile is
  enough, and the key of the object that took its place is never looked at.

### Proved

| theorem | what it says |
|---|---|
| `BoxroomInvariance` | both invariants of the controller hold beside missions |
| `BoxroomSpecEdit` | `NoLostSpecEdit` |
| `BoxroomSafe` | `NoLostWakeup`, `HiddenAreDying`, `WedgeOnlyByOthers` |
| `BoxroomContract` | `KeepsContract` |
| `BoxroomRecord` | `OrphansOnRecord` |

for any number of objects, missions and faults. To the controller every step is
one of `Next`, or `ServiceAppears` (`BoxroomSteps`), and that one keeps both
invariants.

`BoxroomRecord` supposes, as the run does, that users do not orphan services
themselves (`"orphan" \notin Faults`). That of `Missions` could not be used, as
here others change the cluster at every step. The invariant has one part about
the cluster, `Caused` (a service without owner was written by a restore), and
for the rest speaks of the missions alone: `Shape` and `Placed` (types, and which step has which
slot and files), `TreeKept` (what a restore wrote stays in its tree),
`ArchiveKept` (what a restore has uploaded is in its slot, or that of one it
raced with).
The controller never takes an ownerReference away (`OrphansStay`).

`Recovers`, a liveness property, is model-checked only.

## 6. Findings

| run | what the code does |
|---|---|
| `locations_no_fault` | the service that was just created is not yet in the cache; the second creation is answered AlreadyExists, which the loop (194) drops and repeats for ever: the only worker hangs, with no fault at all |
| `locations_delete` | line 62 dereferences the object that `getStorageLocation` did not find: every deletion ends the manager, and `deleteBehaviour` never runs |
| `locations_sample` | the sample object has no `containerSpec`; line 135 dereferences it, at every restart again |
| `missions_same_name` | two backups of one name both find it free; archives are replaced, json and yaml may be of different backups |

## 7. Plan

Done, in this order: `StorageLocations` and `Missions` with their proofs,
`Trees`, `ReplicaContract` and its refinement, `Archives`, `Boxroom`,
`NoLostWakeup` as a theorem, the controller's theorems beside missions,
`OrphansOnRecord` as a theorem, the theorems about files and about trees. Every
safety property of every passing run is a theorem now.

Left: that `Archives` implements `Missions` for missions of one caller. The two
are tied by hand now: `TreesOfObjects`, `TreesBackupExact`, `TreesFilterExact`
and `ArchivesStoredWhole` say what `Missions` takes for granted of trees and
archives.

Considered and dropped: a contract of the store, immutable backups that appear
in one step. With the races for one name, the missions without objects and the
names made up from the time it has to except, it says no more than
`StatusMarksComplete`, `StatusOfAuthor` and `OverwrittenOnlyInRace`.

Out of the prover's reach: liveness (`ConvergesUnlessWedged`, `MissionsEnd`,
`Recovers`) stays with TLC.
