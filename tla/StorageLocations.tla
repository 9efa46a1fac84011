-------------------------- MODULE StorageLocations --------------------------
(***************************************************************************)
(* The StorageLocations controller of boxroom, the reconcile loop that     *)
(* keeps spec.containerSpec.replicas storage-plugin pods and one service   *)
(* for every StorageLocations object (internal/controller/                 *)
(* storagelocations_controller.go), together with the parts of the cluster *)
(* it lives in: the API server it writes to, the informer caches it reads  *)
(* from, the kubelet, the garbage collector and the users.                 *)
(*                                                                         *)
(* The controller never reads the API server: every Get and List comes     *)
(* from a cache that the watch fills later, while every Create, Delete and *)
(* Update goes to the API server at once.  One worker reconciles one key   *)
(* at a time; its local variables are the variables pc .. head below.      *)
(***************************************************************************)
EXTENDS Integers, FiniteSets

CONSTANTS
  Locs,              \* names of StorageLocations objects (one namespace)
  NoKey,             \* the worker has no request in hand
  MaxPods,           \* bound: pods that may ever be created
  MaxUid,            \* bound: times one name may be created again
  Replicas,          \* spec.containerSpec.replicas values that users write
  Second,            \* creationTimestamp of the p-th pod, in whole seconds
  CacheSize,         \* lru.New(1000): entries of deletedPodCache
  StatusSubresource, \* TRUE: CRD with "subresources: status: {}" installed
  Faults,            \* the disturbances that may happen, see Disturb
  MaxFaults          \* bound: how many of them may happen

Disturbances ==
  {"scale", "bare", "noconfig", "delete", "orphan", "kill", "evict",
   "killsvc", "lost", "crash"}

ASSUME LocsAssumption == NoKey \notin Locs
ASSUME PodsAssumption == MaxPods \in Nat \ {0}
ASSUME CacheAssumption == CacheSize \in Nat \ {0}
ASSUME UidAssumption == MaxUid \in Nat \ {0}
ASSUME ReplicasAssumption == Replicas \subseteq Int
ASSUME SecondAssumption ==
  /\ Second \in [1..MaxPods -> Nat]
  /\ \A p, q \in 1..MaxPods : p < q => Second[p] <= Second[q]
ASSUME SubresourceAssumption == StatusSubresource \in BOOLEAN
ASSUME FaultsAssumption == Faults \subseteq Disturbances /\ MaxFaults \in Nat

-----------------------------------------------------------------------------

\* Pods are numbered in the order the API server creates them.
Pods == 1..MaxPods
NoPod == 0

\* A pod that exists and has no deletionTimestamp.
Live == {"Pending", "Running", "Failed"}

\* "Orphan": it exists, in whatever phase, and still has its labels, but not
\* its ownerReferences.
Phases == Live \cup {"none", "Terminating", "gone", "Orphan"}

\* Whether ContainerSpec and ConfigSpec are there.
Forms == {"full", "noconfig", "bare"}

Uids == 0..MaxUid
NoSvc == 0
OrphanSvc == -1

Status == [replicas : Nat, pods : SUBSET Pods, blanks : Nat, service : BOOLEAN]
NewStatus == [replicas |-> 0, pods |-> {}, blanks |-> 0, service |-> FALSE]

\* A StorageLocations object; uid 0 means that there is none.
Objects ==
  [uid : Uids, gen : Nat, form : Forms, replicas : Int,
   deleting : BOOLEAN, status : Status]
NewObject(u, f, r) ==
  [uid |-> u, gen |-> 1, form |-> f, replicas |-> r,
   deleting |-> FALSE, status |-> NewStatus]
NoObject ==
  [uid |-> 0, gen |-> 0, form |-> "bare", replicas |-> 0,
   deleting |-> FALSE, status |-> NewStatus]

Owners == [loc : Locs \cup {NoKey}, uid : Uids]

Steps == {"down", "idle", "list", "create", "delete", "relist",
          "slist", "screate", "srelist", "update"}

VARIABLES
  \* the API server
  loc,     \* loc[l]: the stored object
  born,    \* born[l]: how many objects have had that name
  made,    \* number of pods created so far
  pod,     \* pod[p]: phase of the p-th pod
  owner,   \* owner[p]: ownerReferences[0] of the p-th pod
  svc,     \* svc[l]: owner uid of the service "<l>-service"
  \* the informer caches
  cLoc, cPod, cSvc,
  news,    \* watch events of objects and services still to be delivered
  \* memory of the manager process
  queue,   \* the work queue, a set of keys
  deleted, \* deletedPodCache
  \* the reconcile in progress
  pc,      \* where it is
  key,     \* req.NamespacedName
  obj,     \* storageLocation, the copy that is passed along
  list,    \* childPodList, what is left of it in the deletion loop
  head,    \* childPodList[0]
  left,    \* iterations still to do in the creation or deletion loop
  \* history and bounds
  taken,   \* pods that went away without the controller being told, or
           \* that deletedPodCache was too small to remember
  budget   \* disturbances still allowed

api == <<loc, born, made, pod, owner, svc>>
caches == <<cLoc, cPod, cSvc>>  \* of pods, cPod # pod says the same
local == <<pc, key, obj, list, head, left>>
vars == <<api, caches, news, queue, deleted, local, taken, budget>>

Present(o) == o.uid # 0
OwnedBy(l, u) == {p \in Pods : owner[p] = [loc |-> l, uid |-> u]}

\* Pods of an incarnation as the API server has them.
Alive(l, u) == {p \in OwnedBy(l, u) : pod[p] \in Live}

Init ==
  /\ loc = [l \in Locs |-> NoObject]
  /\ born = [l \in Locs |-> 0]
  /\ made = 0
  /\ pod = [p \in Pods |-> "none"]
  /\ owner = [p \in Pods |-> [loc |-> NoKey, uid |-> 0]]
  /\ svc = [l \in Locs |-> NoSvc]
  /\ cLoc = loc /\ cPod = pod /\ cSvc = svc
  /\ news = {} /\ queue = {} /\ deleted = {}
  /\ pc = "idle" /\ key = NoKey /\ obj = NoObject
  /\ list = {} /\ head = NoPod /\ left = 0
  /\ taken = {} /\ budget = MaxFaults
-----------------------------------------------------------------------------
(* The users and the cluster.                                              *)

Disturb(kind) ==
  /\ kind \in Faults
  /\ budget > 0
  /\ budget' = budget - 1

\* A running manager will be told about a change.
Tell(event) == news' = IF pc = "down" THEN {} ELSE news \cup {event}

\* A stored change gives an object a new generation and resourceVersion.
Bump(o) == [o EXCEPT !.gen = @ + 1]

\* kubectl apply of an object that is not there.
UserCreate(l) ==
  \E r \in Replicas, f \in Forms :
    /\ ~Present(loc[l]) /\ born[l] < MaxUid
    /\ f = "full" \/ f \in Faults
    /\ born' = [born EXCEPT ![l] = @ + 1]
    /\ loc' = [loc EXCEPT ![l] = NewObject(born'[l], f, r)]
    /\ Tell(<<"loc", l>>)
    /\ UNCHANGED <<made, pod, owner, svc, caches, queue, deleted, local,
                   taken, budget>>

\* kubectl edit: another number of replicas.
UserScale(l) ==
  \E r \in Replicas \ {loc[l].replicas} :
    /\ Disturb("scale")
    /\ Present(loc[l]) /\ ~loc[l].deleting
    /\ loc' = [loc EXCEPT ![l] = Bump([@ EXCEPT !.replicas = r])]
    /\ Tell(<<"loc", l>>)
    /\ UNCHANGED <<born, made, pod, owner, svc, caches, queue, deleted,
                   local, taken>>

\* kubectl delete: at once (background), or with a finalizer that keeps the
\* object with a deletionTimestamp until Finalize.
UserDelete(l) ==
  /\ Disturb("delete")
  /\ Present(loc[l]) /\ ~loc[l].deleting
  /\ \/ loc' = [loc EXCEPT ![l] = NoObject]
     \/ loc' = [loc EXCEPT ![l] = Bump([@ EXCEPT !.deleting = TRUE])]
  /\ Tell(<<"loc", l>>)
  /\ UNCHANGED <<born, made, pod, owner, svc, caches, queue, deleted, local,
                 taken>>

Finalize(l) ==
  /\ loc[l].deleting
  /\ loc' = [loc EXCEPT ![l] = NoObject]
  /\ Tell(<<"loc", l>>)
  /\ UNCHANGED <<born, made, pod, owner, svc, caches, queue, deleted, local,
                 taken, budget>>

\* kubectl delete --cascade=orphan: the children lose their ownerReferences.
UserOrphan(l) ==
  LET kids == Alive(l, loc[l].uid) IN
  /\ Disturb("orphan")
  /\ Present(loc[l]) /\ ~loc[l].deleting
  /\ loc' = [loc EXCEPT ![l] = NoObject]
  /\ pod' = [p \in Pods |-> IF p \in kids THEN "Orphan" ELSE pod[p]]
  /\ svc' = [svc EXCEPT ![l] = IF @ = loc[l].uid THEN OrphanSvc ELSE @]
  /\ taken' = taken \cup kids
  /\ news' = IF pc = "down" THEN {} ELSE news \cup {<<"loc", l>>, <<"svc", l>>}
  /\ UNCHANGED <<born, made, owner, caches, queue, deleted, local>>

\* Somebody else removes a child pod, a kubelet evicts it, or somebody
\* removes the child service.
KillPod(p) ==
  /\ Disturb("kill")
  /\ pod[p] \in Live
  /\ pod' = [pod EXCEPT ![p] = "Terminating"]
  /\ taken' = taken \cup {p}
  /\ UNCHANGED <<loc, born, made, owner, svc, caches, news, queue, deleted, local>>

EvictPod(p) ==
  /\ Disturb("evict")
  /\ pod[p] = "Running"
  /\ pod' = [pod EXCEPT ![p] = "Failed"]
  /\ UNCHANGED <<loc, born, made, owner, svc, caches, news, queue, deleted, local,
                 taken>>

KillSvc(l) ==
  /\ Disturb("killsvc")
  /\ svc[l] \in Uids \ {NoSvc}
  /\ svc' = [svc EXCEPT ![l] = NoSvc]
  /\ Tell(<<"svc", l>>)
  /\ UNCHANGED <<loc, born, made, pod, owner, caches, queue, deleted, local,
                 taken>>

\* Somebody cleans up what UserOrphan left, once the manager fell over it.
CleanOrphans(l) ==
  /\ pc = "down"
  /\ \/ svc[l] = OrphanSvc
     \/ \E p \in Pods : pod[p] = "Orphan" /\ owner[p].loc = l
  /\ svc' = [svc EXCEPT ![l] = IF @ = OrphanSvc THEN NoSvc ELSE @]
  /\ pod' = [p \in Pods |-> IF pod[p] = "Orphan" /\ owner[p].loc = l
                              THEN "gone" ELSE pod[p]]
  /\ UNCHANGED <<loc, born, made, owner, caches, news, queue, deleted, local,
                 taken, budget>>

\* The kubelet starts a pod and removes one that was deleted.
StartPod(p) ==
  /\ pod[p] = "Pending"
  /\ pod' = [pod EXCEPT ![p] = "Running"]
  /\ UNCHANGED <<loc, born, made, owner, svc, caches, news, queue, deleted, local,
                 taken, budget>>

RemovePod(p) ==
  /\ pod[p] = "Terminating"
  /\ pod' = [pod EXCEPT ![p] = "gone"]
  /\ UNCHANGED <<loc, born, made, owner, svc, caches, news, queue, deleted, local,
                 taken, budget>>

\* The garbage collector removes what belongs to an object that is gone.
CollectPod(p) ==
  /\ pod[p] \in Live
  /\ loc[owner[p].loc].uid # owner[p].uid
  /\ pod' = [pod EXCEPT ![p] = "Terminating"]
  /\ taken' = taken \cup {p}
  /\ UNCHANGED <<loc, born, made, owner, svc, caches, news, queue, deleted, local,
                 budget>>

CollectSvc(l) ==
  /\ svc[l] \in Uids \ {NoSvc, loc[l].uid}
  /\ svc' = [svc EXCEPT ![l] = NoSvc]
  /\ Tell(<<"svc", l>>)
  /\ UNCHANGED <<loc, born, made, pod, owner, caches, queue, deleted, local,
                 taken, budget>>
-----------------------------------------------------------------------------
(* The manager process: its watches, its death and its return.             *)

\* A nil dereference or an index out of range in any goroutine ends the
\* process; nothing it kept in memory survives.
Die ==
  /\ pc' = "down" /\ key' = NoKey /\ obj' = NoObject
  /\ list' = {} /\ head' = NoPod /\ left' = 0
  /\ news' = {} /\ queue' = {} /\ deleted' = {}
  /\ cLoc' = [l \in Locs |-> NoObject]
  /\ cPod' = [p \in Pods |-> "none"]
  /\ cSvc' = [l \in Locs |-> NoSvc]

Crash ==
  /\ Disturb("crash")
  /\ pc # "down"
  /\ Die
  /\ UNCHANGED <<api, taken>>

\* The Deployment starts the process again.  The informers list everything
\* and hand every object to the event handlers before the worker starts; with
\* an ownerless labelled object among them the handler panics, so the process
\* only stays up when there is none.
Restart ==
  /\ pc = "down"
  /\ \A p \in Pods : pod[p] # "Orphan"
  /\ \A l \in Locs : svc[l] # OrphanSvc
  /\ pc' = "idle"
  /\ cLoc' = loc
  /\ cPod' = pod
  /\ cSvc' = svc
  /\ news' = {}
  /\ queue' = {l \in Locs : Present(loc[l]) \/ svc[l] # NoSvc}
              \cup {owner[p].loc : p \in {q \in Pods :
                                          pod[q] \notin {"none", "gone"}}}
  /\ UNCHANGED <<api, deleted, key, obj, list, head, left, taken, budget>>

\* Plausible mistakes, one definition each, for the mutation of the next one:
\* a handler that forgets q.Add.
EnqueueNothing(l) == UNCHANGED queue

\* The event handlers of the object, the pods and the services: q.Add.
EnqueueSelf(l) == queue' = queue \cup {l}
EnqueueOwner(l) == queue' = queue \cup {l}
EnqueueOwnerOfSvc(l) == queue' = queue \cup {l}

\* A watch event reaches the cache and the event handler of its kind.  A
\* cache may be arbitrarily far behind; it catches up object by object.
SyncLoc(l) ==
  /\ pc # "down"
  /\ <<"loc", l>> \in news
  /\ cLoc' = [cLoc EXCEPT ![l] = loc[l]]
  /\ news' = news \ {<<"loc", l>>}
  /\ EnqueueSelf(l)
  /\ UNCHANGED <<api, cPod, cSvc, deleted, local, taken, budget>>

SyncPod(p) ==
  /\ pc # "down"
  /\ cPod[p] # pod[p]
  /\ \/ /\ pod[p] = "Orphan"  \* *getStorageLocationRequestFromObject(..) of nil
        /\ Die
     \/ /\ pod[p] # "Orphan"
        /\ cPod' = [cPod EXCEPT ![p] = pod[p]]
        /\ EnqueueOwner(owner[p].loc)
        /\ UNCHANGED <<cLoc, cSvc, news, deleted, local>>
  /\ UNCHANGED <<api, taken, budget>>

SyncSvc(l) ==
  /\ pc # "down"
  /\ <<"svc", l>> \in news
  /\ \/ /\ svc[l] = OrphanSvc
        /\ Die
     \/ /\ svc[l] # OrphanSvc
        /\ cSvc' = [cSvc EXCEPT ![l] = svc[l]]
        /\ news' = news \ {<<"svc", l>>}
        /\ EnqueueOwnerOfSvc(l)
        /\ UNCHANGED <<cLoc, cPod, deleted, local>>
  /\ UNCHANGED <<api, taken, budget>>
-----------------------------------------------------------------------------
(* The worker.                                                             *)

\* Reconcile returns; the reconcile in hand is forgotten.
Return ==
  /\ pc' = "idle" /\ key' = NoKey /\ obj' = NoObject
  /\ list' = {} /\ head' = NoPod /\ left' = 0

\* Reconcile up to syncBehaviour.  For an object that is not there, or is
\* being deleted, getStorageLocation returns nil and the log line that follows
\* dereferences it: deleteBehaviour is never reached.
StartReconcile(l) ==
  /\ pc = "idle" /\ l \in queue
  /\ \/ /\ ~Present(cLoc[l]) \/ cLoc[l].deleting
        /\ Die
     \/ /\ Present(cLoc[l]) /\ ~cLoc[l].deleting
        /\ queue' = queue \ {l}
        /\ pc' = "list" /\ key' = l /\ obj' = cLoc[l]
        /\ UNCHANGED <<caches, news, deleted, list, head, left>>
  /\ UNCHANGED <<api, taken, budget>>

\* Mistakes: the owner compared by name alone; deletedPodCache not consulted.
IsChildByName(p) ==
  owner[p].loc = key /\ p \notin deleted /\ cPod[p] \in Live
IsChildUnlessCached(p) ==
  owner[p] = [loc |-> key, uid |-> obj.uid] /\ cPod[p] \in Live

\* The filter of getStorageLocationChildPodList.
IsChild(p) ==
  /\ owner[p] = [loc |-> key, uid |-> obj.uid]
  /\ p \notin deleted
  /\ cPod[p] \in Live

Children == {p \in Pods : IsChild(p)}

\* What sortPodList may put first: creation times have a resolution of a
\* second and a cache lists its objects in no particular order.
Oldest(S) ==
  IF S = {} THEN {NoPod}
  ELSE {p \in S : \A q \in S : Second[p] <= Second[q]}

\* The first list of syncChildPodList and the count of the loop to come.
ListPods ==
  LET surplus == Cardinality(Children) - obj.replicas IN
  /\ pc = "list"
  /\ \/ /\ obj.form = "bare"  \* nil ContainerSpec
        /\ Die
     \/ /\ obj.form # "bare"
        /\ \/ /\ surplus = 0
              /\ pc' = "relist"
              /\ UNCHANGED <<list, head, left>>
           \/ /\ surplus < 0
              /\ pc' = "create" /\ left' = -surplus
              /\ UNCHANGED <<list, head>>
           \/ /\ surplus > 0
              /\ pc' = "delete" /\ left' = surplus
              /\ list' = Children /\ head' \in Oldest(Children)
        /\ UNCHANGED <<caches, news, queue, deleted, key, obj>>
  /\ UNCHANGED <<api, taken, budget>>

\* The API server stores the pod that GetPod describes.
StorePod ==
  /\ made < MaxPods
  /\ made' = made + 1
  /\ pod' = [pod EXCEPT ![made'] = "Pending"]
  /\ owner' = [owner EXCEPT ![made'] = [loc |-> key, uid |-> obj.uid]]

\* Mistake: one iteration too many.
LoopOverrun(n) == n < 0

\* createdOrDeletedChildPodNum has reached n.
LoopDone(n) == n = 0

\* One iteration of the creation loop that ends well.  An error is dropped
\* and the iteration repeated: a step that changes nothing.
CreatePod ==
  /\ pc = "create"
  /\ \/ /\ obj.form = "noconfig"  \* nil ConfigSpec in GetPod
        /\ Die
        /\ UNCHANGED <<made, pod, owner>>
     \/ /\ obj.form = "full"
        /\ StorePod
        /\ left' = left - 1
        /\ pc' = IF LoopDone(left') THEN "relist" ELSE "create"
        /\ UNCHANGED <<caches, news, queue, deleted, key, obj, list, head>>
  /\ UNCHANGED <<loc, born, svc, taken, budget>>

\* The pod is stored but the caller sees an error, and will ask again.
CreatePodLost ==
  /\ Disturb("lost")
  /\ pc = "create" /\ obj.form = "full"
  /\ StorePod
  /\ UNCHANGED <<loc, born, svc, caches, news, queue, deleted, local, taken>>

\* The API server accepts the deletion of the pod p.
Exists(p) == pod[p] \notin {"none", "gone"}
RemoveFromApi(p) ==
  pod' = [pod EXCEPT ![p] = IF @ = "Orphan" THEN @ ELSE "Terminating"]

\* Mistakes: nothing is remembered; the slice moves on before the Add.
RememberNothing(p) == UNCHANGED <<deleted, taken>>
RememberNext(p) ==
  deleted' = deleted \cup (Oldest(list \ {p}) \ {NoPod}) /\ UNCHANGED taken

\* deletedPodCache.Add(childPodList[0].Name, "deleted").  A full cache drops
\* what was used least recently.  Every list looks up all pods, in no
\* particular order, so that this may be any entry but the new one.
Remember(p) ==
  LET known == deleted \cup {p} IN
  /\ \/ Cardinality(known) <= CacheSize /\ deleted' = known
     \/ Cardinality(known) > CacheSize /\ \E q \in deleted \ {p} : deleted' = known \ {q}
  /\ taken' = taken \cup (known \ deleted')

\* One iteration of the deletion loop.  Deleting a pod that is already
\* terminating is fine; of a pod that does not exist any more the API server
\* says NotFound, and the loop asks for the same pod again, for ever.
DeletePod ==
  /\ pc = "delete"
  /\ \/ /\ list = {}  \* childPodList[0] of an empty slice
        /\ Die
        /\ UNCHANGED <<pod, taken>>
     \/ /\ list # {} /\ Exists(head)
        /\ RemoveFromApi(head)
        /\ Remember(head)
        /\ list' = list \ {head}
        /\ left' = left - 1
        /\ \/ LoopDone(left') /\ pc' = "relist" /\ head' = NoPod
           \/ ~LoopDone(left') /\ pc' = "delete" /\ head' \in Oldest(list')
        /\ UNCHANGED <<caches, news, queue, key, obj>>
  /\ UNCHANGED <<loc, born, made, owner, svc, budget>>

\* The pod is deleted but the caller sees an error.
DeletePodLost ==
  /\ Disturb("lost")
  /\ pc = "delete" /\ list # {} /\ Exists(head)
  /\ RemoveFromApi(head)
  /\ taken' = taken \cup {head}
  /\ UNCHANGED <<loc, born, made, owner, svc, caches, news, queue, deleted, local>>

\* What syncChildPodList reports of a set of pods with the given phases: a
\* pod has an address from the moment it runs.
PodStatus(old, kids, phase) ==
  [old EXCEPT !.replicas = Cardinality({p \in kids : phase[p] = "Running"}),
              !.pods = {p \in kids : phase[p] # "Pending"},
              !.blanks = Cardinality({p \in kids : phase[p] = "Pending"})]

Relist ==
  /\ pc = "relist"
  /\ obj' = [obj EXCEPT !.status = PodStatus(@, Children, cPod)]
  /\ pc' = "slist"
  /\ list' = {}
  /\ UNCHANGED <<api, caches, news, queue, deleted, key, head, left, taken, budget>>

\* syncChildService.  The service has a fixed name, so there is at most one.
ListSvc ==
  /\ pc = "slist"
  /\ pc' = IF cSvc[key] = obj.uid THEN "srelist" ELSE "screate"
  /\ UNCHANGED <<api, caches, news, queue, deleted, key, obj, list, head, left,
                 taken, budget>>

\* The creation loop: while a service of that name exists the answer is
\* AlreadyExists and the loop goes on.
CreateSvc ==
  /\ pc = "screate"
  /\ svc[key] = NoSvc
  /\ svc' = [svc EXCEPT ![key] = obj.uid]
  /\ Tell(<<"svc", key>>)
  /\ \/ pc' = "srelist" /\ UNCHANGED budget
     \/ Disturb("lost") /\ UNCHANGED pc  \* stored, but the answer is lost
  /\ UNCHANGED <<loc, born, made, pod, owner, caches, queue, deleted,
                 key, obj, list, head, left, taken>>

\* The list after the loop; when it is not of length one, the function calls
\* itself.
RelistSvc ==
  /\ pc = "srelist"
  /\ \/ /\ cSvc[key] = obj.uid
        /\ obj' = [obj EXCEPT !.status.service = TRUE]
        /\ pc' = "update"
     \/ /\ cSvc[key] # obj.uid
        /\ pc' = "slist"
        /\ UNCHANGED obj
  /\ UNCHANGED <<api, caches, news, queue, deleted, key, list, head, left, taken,
                 budget>>

\* Mistake: an update without a resourceVersion.
AnyVersion(a, b) == Present(a)

\* Same resourceVersion.  Every stored change of an object moves its
\* generation, so that the generation of an incarnation stands for it.
SameVersion(a, b) == a.uid = b.uid /\ a.gen = b.gen

\* Update stores spec and status when there is no status subresource; with
\* one it ignores the status, and nothing is left to store.
StoreObject ==
  IF StatusSubresource THEN UNCHANGED <<loc, news>>
  ELSE /\ loc' = [loc EXCEPT ![key] = Bump(obj)]
       /\ Tell(<<"loc", key>>)

Requeue == queue' = queue \cup {key}

\* updateStorageLocation and the end of Reconcile.
UpdateStatus ==
  LET new == cLoc[key] IN
  /\ pc = "update"
  /\ \/ /\ ~Present(new) \/ new.deleting  \* newStorageLocation is nil
        /\ Die
        /\ UNCHANGED <<loc, budget>>
     \/ /\ Present(new) /\ ~new.deleting
        /\ \/ /\ new.status = obj.status \/ new.gen > obj.gen
              /\ UNCHANGED <<loc, news, queue, budget>>
           \/ /\ new.status # obj.status /\ new.gen <= obj.gen
              /\ \/ /\ SameVersion(loc[key], obj)
                    /\ StoreObject
                    /\ \/ UNCHANGED <<queue, budget>>
                       \/ Disturb("lost") /\ Requeue
                 \/ /\ ~SameVersion(loc[key], obj)  \* Conflict or NotFound
                    /\ Requeue
                    /\ UNCHANGED <<loc, news, budget>>
        /\ Return
        /\ UNCHANGED <<caches, deleted>>
  /\ UNCHANGED <<born, made, pod, owner, svc, taken>>
-----------------------------------------------------------------------------

Users ==
  \/ \E l \in Locs : \/ UserCreate(l) \/ UserScale(l) \/ UserDelete(l)
                     \/ UserOrphan(l) \/ KillSvc(l) \/ CleanOrphans(l)
  \/ \E p \in Pods : KillPod(p) \/ EvictPod(p)

Cluster ==
  \/ \E l \in Locs : Finalize(l) \/ CollectSvc(l)
  \/ \E p \in Pods : StartPod(p) \/ RemovePod(p) \/ CollectPod(p)

Watch ==
  \/ \E l \in Locs : SyncLoc(l) \/ SyncSvc(l)
  \/ \E p \in Pods : SyncPod(p)

Worker ==
  \/ \E l \in Locs : StartReconcile(l)
  \/ ListPods \/ CreatePod \/ CreatePodLost \/ DeletePod \/ DeletePodLost
  \/ Relist \/ ListSvc \/ CreateSvc \/ RelistSvc \/ UpdateStatus

Next == Users \/ Cluster \/ Watch \/ Worker \/ Crash \/ Restart

Spec == Init /\ [][Next]_vars

(* Fairness.  The kubelet, the garbage collector and the Deployment do     *)
(* their work; a watch delivers every event in the end; the worker is a    *)
(* goroutine that is never starved; the work queue is first in first out,  *)
(* so that a key that waits is picked even though the worker is busy with  *)
(* others in between.  Nothing is assumed of users and faults.             *)
Fairness ==
  /\ \A p \in Pods : /\ WF_vars(StartPod(p)) /\ WF_vars(RemovePod(p))
                     /\ WF_vars(CollectPod(p)) /\ WF_vars(SyncPod(p))
  /\ \A l \in Locs : /\ WF_vars(Finalize(l)) /\ WF_vars(CollectSvc(l))
                     /\ WF_vars(SyncLoc(l)) /\ WF_vars(SyncSvc(l))
                     /\ SF_vars(StartReconcile(l))
  /\ WF_vars(ListPods) /\ WF_vars(CreatePod) /\ WF_vars(DeletePod)
  /\ WF_vars(Relist) /\ WF_vars(ListSvc) /\ WF_vars(CreateSvc)
  /\ WF_vars(RelistSvc) /\ WF_vars(UpdateStatus)
  /\ WF_vars(Restart)

FairSpec == Spec /\ Fairness
-----------------------------------------------------------------------------
(* What the controller should do.                                          *)

\* The type of the state.
TypeOK ==
  /\ loc \in [Locs -> Objects] /\ cLoc \in [Locs -> Objects]
  /\ born \in [Locs -> Uids]
  /\ made \in 0..MaxPods
  /\ pod \in [Pods -> Phases] /\ cPod \in [Pods -> Phases]
  /\ owner \in [Pods -> Owners]
  /\ svc \in [Locs -> Uids \cup {OrphanSvc}]
  /\ cSvc \in [Locs -> Uids \cup {OrphanSvc}]
  /\ news \subseteq {"loc", "svc"} \X Locs
  /\ queue \subseteq Locs
  /\ deleted \subseteq Pods
  /\ pc \in Steps
  /\ key \in Locs \cup {NoKey} /\ (pc \notin {"down", "idle"} => key \in Locs)
  /\ obj \in Objects
  /\ list \subseteq Pods /\ head \in list \cup {NoPod}
  /\ left \in Nat
  /\ taken \subseteq Pods
  /\ budget \in 0..MaxFaults

\* Scaling down never goes too far.  However stale the cache from which
\* syncChildPodList counts, after each pod it deletes the object it works on
\* still has the pods its spec asks for, except those that went away behind
\* the controller's back and those that fell out of deletedPodCache.
ScaleDownSafe ==
  [][DeletePod \/ DeletePodLost =>
       Cardinality({p \in OwnedBy(key, obj.uid) :
                      pod'[p] \in Live \/ p \in taken'}) >= obj.replicas]_vars

\* deletedPodCache hides a pod from the count only once it is dying, so that
\* no pod stays alive that the controller does not see.
HiddenAreDying == \A p \in deleted : pod[p] \notin Live

\* The deletion loop asks for a pod that does not exist, which it then does
\* for ever, only when somebody else removed that pod, the answer to an earlier
\* deletion was lost, or deletedPodCache overflowed: never because of what the
\* controller did itself and remembers.
WedgeOnlyByOthers ==
  pc = "delete" /\ list # {} /\ ~Exists(head) => head \in taken

\* Update writes spec and status together.  It never undoes what a user did
\* to the object since it was read, and never brings a deleted object back.
NoLostSpecEdit ==
  [][UpdateStatus =>
       \A l \in Locs : /\ loc'[l].uid = loc[l].uid
                       /\ loc'[l].replicas = loc[l].replicas
                       /\ loc'[l].deleting = loc[l].deleting]_vars

\* The object has what it asks for, and says so.
Settled(l) ==
  LET kids == Alive(l, loc[l].uid) IN
  /\ Cardinality(kids) = loc[l].replicas
  /\ svc[l] = loc[l].uid
  /\ \/ StatusSubresource
     \/ loc[l].status = [PodStatus(NewStatus, kids, pod) EXCEPT !.service = TRUE]

\* No event is lost: when the caches are up to date and the worker has
\* nothing to do, every object has what it asks for.
NoLostWakeup ==
  /\ pc = "idle" /\ queue = {}
  /\ news = {} /\ cPod = pod
  => \A l \in Locs : Present(loc[l]) => Settled(l)

\* The two loops that never end: deleting a pod that is gone, and creating a
\* service that is already there.
Wedged ==
  \/ pc = "delete" /\ list # {} /\ ~Exists(head)
  \/ pc = "screate" /\ svc[key] = obj.uid
  \/ pc = "create" /\ made = MaxPods  \* the bound, or a quota: no pod left

\* The controller brings the cluster to the desired state and keeps it
\* there, once users and faults leave it alone, unless it is caught in one of
\* its endless retries.
ConvergesUnlessWedged ==
  <>[](\A l \in Locs : Present(loc[l]) => Settled(l)) \/ <>[]Wedged
-----------------------------------------------------------------------------
(* What a user may rely on.                                                *)

Wish(o) == [uid |-> o.uid, replicas |-> o.replicas, deleting |-> o.deleting]
Asked == [l \in Locs |-> Wish(loc[l])]
Heard == [l \in Locs |-> Wish(cLoc[l])]
Nobody == [loc |-> NoKey, uid |-> 0]
Goal ==
  IF pc \in {"down", "idle"} THEN [home |-> Nobody, replicas |-> 0]
  ELSE [home |-> [loc |-> key, uid |-> obj.uid], replicas |-> obj.replicas]
Serving == {p \in Pods : pod[p] \in Live}

Contract == INSTANCE ReplicaContract WITH
  Memory <- CacheSize, asked <- Asked, heard <- Heard, goal <- Goal,
  home <- owner, alive <- Serving, lost <- taken

\* The controller keeps the contract: only users decide what is asked for,
\* pods are made for the object in hand alone, and one is removed only while
\* that object keeps those it asks for, whatever the caches say.
KeepsContract == Contract!Spec
=============================================================================
