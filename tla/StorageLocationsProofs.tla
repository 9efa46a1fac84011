----------------------- MODULE StorageLocationsProofs -----------------------
(***************************************************************************)
(* What StorageLocations promises for every number of objects, pods,       *)
(* incarnations and faults.  The inductive invariant is built in layers,   *)
(* each proved with the ones below it:                                     *)
(*   TypeInv     the types, which pods have been made, the loop counters;  *)
(*   DyingInv    what deletedPodCache holds is dying or gone;              *)
(*   CacheInv    a pod that a cache shows alive, and that is not in        *)
(*               deletedPodCache, is alive or was taken by others;         *)
(*   ListInv     what the deletion loop still may delete;                  *)
(*   VersionInv  how old copies of an object relate to the stored one.     *)
(***************************************************************************)
EXTENDS StorageLocations, FiniteSetTheorems, TLAPS

MadeInv ==
  \A p \in Pods :
    /\ p <= made => owner[p].loc \in Locs /\ pod[p] # "none"
    /\ p > made => pod[p] = "none" /\ cPod[p] = "none" /\ owner[p] = Nobody

LoopInv ==
  /\ pc \in {"create", "delete"} => left >= 1
  /\ pc # "delete" => head = NoPod
  /\ pc = "delete" /\ list # {} => head \in list

TypeInv == TypeOK /\ MadeInv /\ LoopInv

DyingInv == \A p \in deleted : pod[p] \in {"Terminating", "Orphan", "gone"}

CacheInv ==
  \A p \in Pods : cPod[p] \in Live /\ p \notin deleted
                  => pod[p] \in Live \/ p \in taken

ListInv ==
  pc = "delete" =>
    /\ list \subseteq OwnedBy(key, obj.uid)
    /\ \A p \in list : pod[p] \in Live \/ p \in taken
    /\ Cardinality(list) = obj.replicas + left

\* o is an earlier state of the object l, or of an earlier object of that name:
\* what has the same generation has the same spec.
IsEarlier(o, l) ==
  /\ o.uid <= born[l]
  /\ o.uid = loc[l].uid =>
       /\ o.gen <= loc[l].gen
       /\ o.gen = loc[l].gen => /\ o.replicas = loc[l].replicas
                                /\ o.form = loc[l].form
                                /\ o.deleting = loc[l].deleting

VersionInv ==
  /\ \A l \in Locs : loc[l].uid <= born[l] /\ (Present(cLoc[l]) => IsEarlier(cLoc[l], l))
  /\ pc \notin {"down", "idle"} => Present(obj) /\ IsEarlier(obj, key)

-----------------------------------------------------------------------------
(* Facts about the constants and the operators.                            *)

\* Sets of pods are finite, their sizes natural numbers.
LEMMA PodSets ==
  ASSUME NEW S, S \subseteq Pods
  PROVE  IsFiniteSet(S) /\ Cardinality(S) \in Nat
<1>1. IsFiniteSet(Pods)
  BY FS_Interval, PodsAssumption DEF Pods
<1>2. IsFiniteSet(S)
  BY <1>1, FS_Subset
<1> QED
  BY <1>2, FS_CardinalityType

\* A larger set of pods has no smaller size.
LEMMA PodSubset ==
  ASSUME NEW S, NEW T, S \subseteq T, T \subseteq Pods
  PROVE  Cardinality(S) <= Cardinality(T)
<1>1. IsFiniteSet(T)
  BY PodSets
<1> QED
  BY <1>1, FS_Subset

\* sortPodList puts an element of the list first, if there is one.
LEMMA OldestIn ==
  ASSUME NEW S, NEW p \in Oldest(S)
  PROVE  p \in S \cup {NoPod} /\ (S # {} => p \in S)
BY DEF Oldest

\* Objects stay objects under the changes that the actions make to them.
LEMMA ObjectNew ==
  ASSUME NEW r \in Int, NEW f \in Forms, NEW u \in Uids
  PROVE  NewObject(u, f, r) \in Objects
<1>1. NewStatus \in Status
  BY DEF NewStatus, Status
<1> QED
  BY <1>1 DEF NewObject, Objects

\* A stored change, Bump, makes an object again.
LEMMA ObjectBump ==
  ASSUME NEW o \in Objects
  PROVE  Bump(o) \in Objects
BY DEF Bump, Objects

\* So does a user's change of spec.containerSpec.replicas.
LEMMA ObjectScaled ==
  ASSUME NEW o \in Objects, NEW r \in Int
  PROVE  [o EXCEPT !.replicas = r] \in Objects
BY DEF Objects

\* So does a deletionTimestamp.
LEMMA ObjectDeleting ==
  ASSUME NEW o \in Objects
  PROVE  [o EXCEPT !.deleting = TRUE] \in Objects
BY DEF Objects

\* So do the counts that Relist puts into the status.
LEMMA ObjectStatus ==
  ASSUME NEW o \in Objects, NEW s \in Status
  PROVE  [o EXCEPT !.status = s] \in Objects
BY DEF Objects

\* So does the service that RelistSvc puts into the status.
LEMMA ObjectService ==
  ASSUME NEW o \in Objects
  PROVE  [o EXCEPT !.status.service = TRUE] \in Objects
<1>1. o.status \in Status
  BY DEF Objects
<1>2. [o.status EXCEPT !.service = TRUE] \in Status
  BY <1>1 DEF Status
<1> QED
  BY <1>2, ObjectStatus

-----------------------------------------------------------------------------
(* The types.                                                              *)

\* The initial state is well typed.
LEMMA TypeInit == Init => TypeInv
<1> SUFFICES ASSUME Init PROVE TypeInv
  OBVIOUS
<1>1. NoObject \in Objects
  BY UidAssumption DEF NoObject, Objects, NewStatus, Status, Forms, Uids
<1> QED
  BY <1>1, PodsAssumption, UidAssumption, FaultsAssumption
     DEF Init, TypeInv, TypeOK, MadeInv, LoopInv, Pods, Phases, Live, Owners,
         Uids, NoSvc, Steps, NoPod, Nobody

\* The memory of a manager that died is well typed.
LEMMA DieType ==
  ASSUME TypeInv, Die, loc' \in [Locs -> Objects], UNCHANGED <<born, made, pod, owner, svc, taken>>,
         budget' \in 0..MaxFaults
  PROVE  TypeInv'
<1>1. NoObject \in Objects
  BY UidAssumption DEF NoObject, Objects, NewStatus, Status, Forms, Uids
<1> QED
  BY <1>1, UidAssumption
     DEF Die, TypeInv, TypeOK, MadeInv, LoopInv, Pods, Phases, Live,
         Uids, NoSvc, Steps, NoPod

\* The pieces that many actions have in common.
LEMMA TellType ==
  ASSUME TypeInv, NEW l \in Locs, NEW k \in {"loc", "svc"}, Tell(<<k, l>>)
  PROVE  news' \subseteq {"loc", "svc"} \X Locs
BY DEF TypeInv, TypeOK, Tell

\* A disturbance takes one from the budget, never below zero.
LEMMA DisturbType ==
  ASSUME TypeInv, NEW k, Disturb(k)
  PROVE  budget' \in 0..MaxFaults
BY FaultsAssumption DEF Disturb, TypeInv, TypeOK

\* One pod changes its phase.
LEMMA PhaseType ==
  ASSUME TypeInv, NEW p \in Pods, pod[p] # "none",
         NEW f \in Phases \ {"none"}, pod' = [pod EXCEPT ![p] = f],
         UNCHANGED <<made, owner, cPod>>
  PROVE  pod' \in [Pods -> Phases] /\ MadeInv'
BY DEF TypeInv, TypeOK, MadeInv

\* CreatePod stores a pod; RemoveFromApi marks one.
LEMMA StoreType ==
  ASSUME TypeInv, StorePod, key \in Locs, UNCHANGED cPod
  PROVE  /\ made' \in 0..MaxPods
         /\ pod' \in [Pods -> Phases] /\ owner' \in [Pods -> Owners]
         /\ MadeInv'
<1>1. made' \in Pods /\ made' = made + 1 /\ made' \in 0..MaxPods
  BY PodsAssumption DEF StorePod, TypeInv, TypeOK, Pods
<1>2. [loc |-> key, uid |-> obj.uid] \in Owners
  BY DEF TypeInv, TypeOK, Owners, Objects
<1>3. pod' \in [Pods -> Phases]
  BY <1>1 DEF StorePod, TypeInv, TypeOK, Phases, Live
<1>4. owner' \in [Pods -> Owners]
  BY <1>1, <1>2 DEF StorePod, TypeInv, TypeOK
<1>5. MadeInv'
  <2> SUFFICES ASSUME NEW p \in Pods
               PROVE  /\ p <= made' => owner'[p].loc \in Locs /\ pod'[p] # "none"
                      /\ p > made' => /\ pod'[p] = "none" /\ cPod'[p] = "none"
                                      /\ owner'[p] = Nobody
    BY DEF MadeInv, Nobody
  <2>1. CASE p = made'
    BY <1>1, <2>1 DEF StorePod, TypeInv, TypeOK, Pods
  <2>2. CASE p # made'
    <3>1. pod'[p] = pod[p] /\ owner'[p] = owner[p] /\ cPod'[p] = cPod[p]
      BY <1>1, <2>2 DEF StorePod, TypeInv, TypeOK
    <3>2. (p <= made' => p <= made) /\ (p > made' => p > made)
      BY <1>1, <2>2 DEF TypeInv, TypeOK, Pods
    <3> QED
      BY <3>1, <3>2 DEF TypeInv, MadeInv
  <2> QED
    BY <2>1, <2>2
<1> QED
  BY <1>1, <1>3, <1>4, <1>5

\* RemoveFromApi leaves phases.
LEMMA RemoveType ==
  ASSUME TypeInv, NEW p \in Pods, Exists(p), RemoveFromApi(p),
         UNCHANGED <<made, owner, cPod>>
  PROVE  pod' \in [Pods -> Phases] /\ MadeInv'
BY DEF RemoveFromApi, Exists, Phases, Live, TypeInv, TypeOK, MadeInv

\* The types of one step, action by action.
LEMMA TypeStep == TypeInv /\ [Next]_vars => TypeInv'
<1> SUFFICES ASSUME TypeInv, [Next]_vars PROVE TypeInv'
  OBVIOUS
<1>a. NoObject \in Objects
  BY UidAssumption DEF NoObject, Objects, NewStatus, Status, Forms, Uids
<1>0. CASE UNCHANGED vars
  BY <1>0 DEF TypeInv, TypeOK, MadeInv, LoopInv, vars, api, caches, local
<1>1. ASSUME NEW l \in Locs, UserCreate(l) PROVE TypeInv'
  <2>4. PICK r \in Replicas, f \in Forms :
          loc' = [loc EXCEPT ![l] = NewObject(born'[l], f, r)]
    BY <1>1 DEF UserCreate
  <2>5. born' \in [Locs -> Uids] /\ born'[l] \in Uids
    BY <1>1, UidAssumption DEF UserCreate, TypeInv, TypeOK, Uids
  <2>1. loc' \in [Locs -> Objects]
    BY <2>4, <2>5, ObjectNew, ReplicasAssumption
       DEF TypeInv, TypeOK
  <2>2. news' \subseteq {"loc", "svc"} \X Locs
    BY <1>1, TellType DEF UserCreate
  <2> QED
    BY <1>1, <2>1, <2>2, <2>5 DEF UserCreate, TypeInv, TypeOK, MadeInv, LoopInv, caches, local, api
<1>2. ASSUME NEW l \in Locs, UserScale(l) PROVE TypeInv'
  <2>4. PICK r \in Replicas :
          loc' = [loc EXCEPT ![l] = Bump([@ EXCEPT !.replicas = r])]
    BY <1>2 DEF UserScale
  <2>1. loc' \in [Locs -> Objects]
    <3>1. loc[l] \in Objects /\ r \in Int
      BY ReplicasAssumption DEF TypeInv, TypeOK
    <3>2. Bump([loc[l] EXCEPT !.replicas = r]) \in Objects
      BY <3>1, ObjectScaled, ObjectBump
    <3> QED
      BY <2>4, <3>2 DEF TypeInv, TypeOK
  <2>2. news' \subseteq {"loc", "svc"} \X Locs
    BY <1>2, TellType DEF UserScale
  <2>3. budget' \in 0..MaxFaults
    BY <1>2, DisturbType DEF UserScale
  <2> QED
    BY <1>2, <2>1, <2>2, <2>3 DEF UserScale, TypeInv, TypeOK, MadeInv, LoopInv, caches, local, api
<1>3. ASSUME NEW l \in Locs, UserDelete(l) PROVE TypeInv'
  <2>1. loc' \in [Locs -> Objects]
    <3>1. Bump([loc[l] EXCEPT !.deleting = TRUE]) \in Objects
      BY ObjectDeleting, ObjectBump DEF TypeInv, TypeOK
    <3> QED
      BY <1>3, <1>a, <3>1 DEF UserDelete, TypeInv, TypeOK
  <2>2. news' \subseteq {"loc", "svc"} \X Locs
    BY <1>3, TellType DEF UserDelete
  <2>3. budget' \in 0..MaxFaults
    BY <1>3, DisturbType DEF UserDelete
  <2> QED
    BY <1>3, <2>1, <2>2, <2>3 DEF UserDelete, TypeInv, TypeOK, MadeInv, LoopInv, caches, local, api
<1>4. ASSUME NEW l \in Locs, Finalize(l) PROVE TypeInv'
  <2>1. loc' \in [Locs -> Objects]
    BY <1>4, <1>a DEF Finalize, TypeInv, TypeOK
  <2>2. news' \subseteq {"loc", "svc"} \X Locs
    BY <1>4, TellType DEF Finalize
  <2> QED
    BY <1>4, <2>1, <2>2 DEF Finalize, TypeInv, TypeOK, MadeInv, LoopInv, caches, local, api
<1>5. ASSUME NEW l \in Locs, UserOrphan(l) PROVE TypeInv'
  <2>1. loc' \in [Locs -> Objects]
    BY <1>5, <1>a DEF UserOrphan, TypeInv, TypeOK
  <2>2. news' \subseteq {"loc", "svc"} \X Locs
    BY <1>5 DEF UserOrphan, TypeInv, TypeOK
  <2>3. budget' \in 0..MaxFaults
    BY <1>5, DisturbType DEF UserOrphan
  <2>4. pod' \in [Pods -> Phases] /\ MadeInv'
    BY <1>5 DEF UserOrphan, Alive, OwnedBy, Phases, Live, TypeInv, TypeOK, MadeInv, caches
  <2>5. svc' \in [Locs -> Uids \cup {OrphanSvc}] /\ taken' \subseteq Pods
    BY <1>5 DEF UserOrphan, Alive, OwnedBy, TypeInv, TypeOK
  <2> QED
    BY <1>5, <2>1, <2>2, <2>3, <2>4, <2>5
       DEF UserOrphan, TypeInv, TypeOK, LoopInv, caches, local
<1>6. ASSUME NEW l \in Locs, KillSvc(l) PROVE TypeInv'
  <2>1. svc' \in [Locs -> Uids \cup {OrphanSvc}]
    BY <1>6, UidAssumption DEF KillSvc, TypeInv, TypeOK, Uids, NoSvc
  <2>2. news' \subseteq {"loc", "svc"} \X Locs
    BY <1>6, TellType DEF KillSvc
  <2>3. budget' \in 0..MaxFaults
    BY <1>6, DisturbType DEF KillSvc
  <2> QED
    BY <1>6, <2>1, <2>2, <2>3 DEF KillSvc, TypeInv, TypeOK, MadeInv, LoopInv, caches, local, api
<1>7. ASSUME NEW l \in Locs, CollectSvc(l) PROVE TypeInv'
  <2>1. svc' \in [Locs -> Uids \cup {OrphanSvc}]
    BY <1>7, UidAssumption DEF CollectSvc, TypeInv, TypeOK, Uids, NoSvc
  <2>2. news' \subseteq {"loc", "svc"} \X Locs
    BY <1>7, TellType DEF CollectSvc
  <2> QED
    BY <1>7, <2>1, <2>2 DEF CollectSvc, TypeInv, TypeOK, MadeInv, LoopInv, caches, local, api
<1>8. ASSUME NEW l \in Locs, CleanOrphans(l) PROVE TypeInv'
  <2>1. svc' \in [Locs -> Uids \cup {OrphanSvc}]
    BY <1>8, UidAssumption DEF CleanOrphans, TypeInv, TypeOK, Uids, NoSvc
  <2>2. pod' \in [Pods -> Phases] /\ MadeInv'
    BY <1>8 DEF CleanOrphans, Phases, Live, TypeInv, TypeOK, MadeInv, caches
  <2> QED
    BY <1>8, <2>1, <2>2 DEF CleanOrphans, TypeInv, TypeOK, LoopInv, caches, local
<1>9. ASSUME NEW p \in Pods, KillPod(p) PROVE TypeInv'
  <2>3. budget' \in 0..MaxFaults
    BY <1>9, DisturbType DEF KillPod
  <2>4. pod' \in [Pods -> Phases] /\ MadeInv'
    BY <1>9, PhaseType DEF KillPod, Phases, Live, caches
  <2> QED
    BY <1>9, <2>3, <2>4 DEF KillPod, TypeInv, TypeOK, LoopInv, caches, local
<1>10. ASSUME NEW p \in Pods, EvictPod(p) PROVE TypeInv'
  <2>3. budget' \in 0..MaxFaults
    BY <1>10, DisturbType DEF EvictPod
  <2>4. pod' \in [Pods -> Phases] /\ MadeInv'
    BY <1>10, PhaseType DEF EvictPod, Phases, Live, caches
  <2> QED
    BY <1>10, <2>3, <2>4 DEF EvictPod, TypeInv, TypeOK, LoopInv, caches, local
<1>11. ASSUME NEW p \in Pods, StartPod(p) PROVE TypeInv'
  <2>4. pod' \in [Pods -> Phases] /\ MadeInv'
    BY <1>11, PhaseType DEF StartPod, Phases, Live, caches
  <2> QED
    BY <1>11, <2>4 DEF StartPod, TypeInv, TypeOK, LoopInv, caches, local
<1>12. ASSUME NEW p \in Pods, RemovePod(p) PROVE TypeInv'
  <2>4. pod' \in [Pods -> Phases] /\ MadeInv'
    BY <1>12, PhaseType DEF RemovePod, Phases, Live, caches
  <2> QED
    BY <1>12, <2>4 DEF RemovePod, TypeInv, TypeOK, LoopInv, caches, local
<1>13. ASSUME NEW p \in Pods, CollectPod(p) PROVE TypeInv'
  <2>4. pod' \in [Pods -> Phases] /\ MadeInv'
    BY <1>13, PhaseType DEF CollectPod, Phases, Live, caches
  <2> QED
    BY <1>13, <2>4 DEF CollectPod, TypeInv, TypeOK, LoopInv, caches, local
<1>14. ASSUME NEW l \in Locs, SyncLoc(l) PROVE TypeInv'
  <2>1. cLoc' \in [Locs -> Objects]
    BY <1>14 DEF SyncLoc, TypeInv, TypeOK
  <2>2. news' \subseteq {"loc", "svc"} \X Locs
    BY <1>14 DEF SyncLoc, TypeInv, TypeOK
  <2> QED
    BY <1>14, <2>1, <2>2 DEF SyncLoc, EnqueueSelf, TypeInv, TypeOK, MadeInv, LoopInv, caches, local, api
<1>15. ASSUME NEW p \in Pods, SyncPod(p) PROVE TypeInv'
  <2>1. CASE Die
    BY <1>15, <2>1, DieType DEF SyncPod, api, TypeInv, TypeOK
  <2>2. CASE ~Die
    <3>0. pod[p] # "none"
      BY <1>15 DEF SyncPod, TypeInv, TypeOK, MadeInv, Pods
    <3>1. /\ cPod' = [cPod EXCEPT ![p] = pod[p]] /\ cPod' \in [Pods -> Phases]
          /\ cPod'[p] = pod[p] /\ pod[p] # "none"
      BY <1>15, <2>2, <3>0 DEF SyncPod, TypeInv, TypeOK
    <3>2. MadeInv'
      BY <1>15, <2>2, <3>1 DEF SyncPod, TypeInv, TypeOK, MadeInv, api, Pods
    <3>3. owner[p].loc \in Locs
      BY <3>1 DEF TypeInv, TypeOK, MadeInv, Pods
    <3> QED
      BY <1>15, <2>2, <3>1, <3>2, <3>3
         DEF SyncPod, EnqueueOwner, TypeInv, TypeOK, LoopInv, api, local
  <2> QED
    BY <2>1, <2>2
<1>16. ASSUME NEW l \in Locs, SyncSvc(l) PROVE TypeInv'
  <2>1. CASE Die
    BY <1>16, <2>1, DieType DEF SyncSvc, api, TypeInv, TypeOK
  <2>2. CASE ~Die
    <3>1. cSvc' \in [Locs -> Uids \cup {OrphanSvc}]
      BY <1>16, <2>2 DEF SyncSvc, TypeInv, TypeOK
    <3>2. news' \subseteq {"loc", "svc"} \X Locs
      BY <1>16, <2>2 DEF SyncSvc, TypeInv, TypeOK
    <3> QED
      BY <1>16, <2>2, <3>1, <3>2 DEF SyncSvc, EnqueueOwnerOfSvc, TypeInv, TypeOK, MadeInv, LoopInv, caches, local, api
  <2> QED
    BY <2>1, <2>2
<1>17. ASSUME NEW l \in Locs, StartReconcile(l) PROVE TypeInv'
  <2>1. CASE Die
    BY <1>17, <2>1, DieType DEF StartReconcile, api, TypeInv, TypeOK
  <2>2. CASE ~Die
    <3>1. obj' \in Objects /\ key' \in Locs /\ pc' = "list" /\ pc = "idle"
      BY <1>17, <2>2 DEF StartReconcile, TypeInv, TypeOK
    <3> QED
      BY <1>17, <2>2, <3>1 DEF StartReconcile, Steps, TypeInv, TypeOK, MadeInv, LoopInv, caches, local, api
  <2> QED
    BY <2>1, <2>2
<1>18. CASE ListPods
  <2>1. CASE Die
    BY <1>18, <2>1, DieType DEF ListPods, api, TypeInv, TypeOK
  <2>2. CASE ~Die
    <3>1. Children \subseteq Pods /\ Cardinality(Children) \in Nat
      BY PodSets DEF Children
    <3>2. obj.replicas \in Int
      BY DEF TypeInv, TypeOK, Objects
    <3>3. /\ head' \in list' \cup {NoPod}
          /\ pc' # "delete" => head' = NoPod
          /\ pc' = "delete" /\ list' # {} => head' \in list'
      BY <1>18, <2>2, OldestIn DEF ListPods, TypeInv, TypeOK, LoopInv
    <3>4. left' \in Nat /\ (pc' \in {"create", "delete"} => left' >= 1)
      BY <1>18, <2>2, <3>1, <3>2 DEF ListPods, TypeInv, TypeOK
    <3>5. list' \subseteq Pods /\ pc' \in Steps
      BY <1>18, <2>2, <3>1 DEF ListPods, TypeInv, TypeOK, Steps
    <3> QED
      BY <1>18, <2>2, <3>3, <3>4, <3>5
         DEF ListPods, TypeInv, TypeOK, MadeInv, LoopInv, caches, api
  <2> QED
    BY <2>1, <2>2
<1>19. CASE CreatePod
  <2>1. CASE Die
    BY <1>19, <2>1, DieType DEF CreatePod, LoopDone, Die, api, TypeInv, TypeOK
  <2>2. CASE ~Die
    <3>1. StorePod /\ key \in Locs /\ UNCHANGED cPod
      BY <1>19, <2>2 DEF CreatePod, TypeInv, TypeOK, caches
    <3>2. /\ made' \in 0..MaxPods
          /\ pod' \in [Pods -> Phases] /\ owner' \in [Pods -> Owners]
          /\ MadeInv'
      BY <3>1, StoreType
    <3>3. left' \in Nat /\ pc' \in {"create", "relist"} /\ (pc' = "create" => left' >= 1)
      BY <1>19, <2>2 DEF CreatePod, LoopDone, TypeInv, TypeOK, LoopInv
    <3> QED
      BY <1>19, <2>2, <3>1, <3>2, <3>3
         DEF CreatePod, Steps, TypeInv, TypeOK, LoopInv, caches
  <2> QED
    BY <2>1, <2>2
<1>20. CASE CreatePodLost
  <2>1. StorePod /\ key \in Locs /\ UNCHANGED cPod
    BY <1>20 DEF CreatePodLost, TypeInv, TypeOK, caches
  <2>2. /\ made' \in 0..MaxPods
        /\ pod' \in [Pods -> Phases] /\ owner' \in [Pods -> Owners]
        /\ MadeInv'
    BY <2>1, StoreType
  <2>3. budget' \in 0..MaxFaults
    BY <1>20, DisturbType DEF CreatePodLost
  <2> QED
    BY <1>20, <2>2, <2>3 DEF CreatePodLost, TypeInv, TypeOK, LoopInv, caches, local
<1>21. CASE DeletePod
  <2>1. CASE Die
    BY <1>21, <2>1, DieType DEF DeletePod, LoopDone, Die, api, TypeInv, TypeOK
  <2>2. CASE ~Die
    <3>1. head \in Pods /\ head \in list /\ Exists(head)
      BY <1>21, <2>2 DEF DeletePod, TypeInv, TypeOK, LoopInv
    <3>2. pod' \in [Pods -> Phases] /\ MadeInv'
      BY <1>21, <2>2, <3>1, RemoveType DEF DeletePod, caches
    <3>3. /\ head' \in list' \cup {NoPod}
          /\ pc' # "delete" => head' = NoPod
          /\ pc' = "delete" /\ list' # {} => head' \in list'
      BY <1>21, <2>2, OldestIn DEF DeletePod
    <3>4. /\ left' \in Nat /\ pc' \in {"delete", "relist"}
          /\ pc' = "delete" => left' >= 1
      BY <1>21, <2>2 DEF DeletePod, LoopDone, TypeInv, TypeOK, LoopInv
    <3>5. deleted' \subseteq Pods /\ list' \subseteq Pods /\ taken' \subseteq Pods
      BY <1>21, <2>2, <3>1 DEF DeletePod, Remember, TypeInv, TypeOK
    <3> QED
      BY <1>21, <2>2, <3>2, <3>3, <3>4, <3>5
         DEF DeletePod, Steps, TypeInv, TypeOK, LoopInv, caches
  <2> QED
    BY <2>1, <2>2
<1>22. CASE DeletePodLost
  <2>1. head \in Pods /\ Exists(head)
    BY <1>22 DEF DeletePodLost, TypeInv, TypeOK, LoopInv
  <2>2. pod' \in [Pods -> Phases] /\ MadeInv'
    BY <1>22, <2>1, RemoveType DEF DeletePodLost, caches
  <2>3. budget' \in 0..MaxFaults
    BY <1>22, DisturbType DEF DeletePodLost
  <2> QED
    BY <1>22, <2>1, <2>2, <2>3 DEF DeletePodLost, TypeInv, TypeOK, LoopInv, caches, local
<1>23. CASE Relist
  <2>1. obj' \in Objects
    <3> DEFINE kids == Children
               s == PodStatus(obj.status, kids, cPod)
    <3>1. \A q : Cardinality({x \in kids : cPod[x] = q}) \in Nat
      BY PodSets DEF Children
    <3>2. {x \in kids : cPod[x] # "Pending"} \subseteq Pods
      BY DEF Children
    <3>3. s \in Status
      BY <3>1, <3>2 DEF PodStatus, Status, TypeInv, TypeOK, Objects
    <3> QED
      BY <1>23, <3>3, ObjectStatus DEF Relist, TypeInv, TypeOK
  <2> QED
    BY <1>23, <2>1 DEF Relist, Steps, TypeInv, TypeOK, MadeInv, LoopInv, caches, local, api
<1>24. CASE ListSvc
  <2>1. pc' \in {"srelist", "screate"} /\ pc = "slist"
    BY <1>24 DEF ListSvc
  <2> QED
    BY <1>24, <2>1 DEF ListSvc, Steps, TypeInv, TypeOK, MadeInv, LoopInv, caches, local, api
<1>25. CASE CreateSvc
  <2>1. obj.uid \in Uids /\ key \in Locs
    BY <1>25 DEF CreateSvc, TypeInv, TypeOK, Objects
  <2>2. svc' \in [Locs -> Uids \cup {OrphanSvc}]
    BY <1>25, <2>1 DEF CreateSvc, TypeInv, TypeOK
  <2>3. news' \subseteq {"loc", "svc"} \X Locs
    BY <1>25, <2>1, TellType DEF CreateSvc
  <2>4. budget' \in 0..MaxFaults /\ pc' \in {"srelist", "screate"}
    BY <1>25, DisturbType DEF CreateSvc, TypeInv, TypeOK
  <2> QED
    BY <1>25, <2>2, <2>3, <2>4
       DEF CreateSvc, Steps, TypeInv, TypeOK, MadeInv, LoopInv, caches
<1>26. CASE RelistSvc
  <2>1. obj' \in Objects /\ pc' \in {"update", "slist"} /\ pc = "srelist"
    BY <1>26, ObjectService DEF RelistSvc, TypeInv, TypeOK
  <2> QED
    BY <1>26, <2>1 DEF RelistSvc, Steps, TypeInv, TypeOK, MadeInv, LoopInv, caches, local, api
<1>27. CASE UpdateStatus
  <2>0. key \in Locs
    BY <1>27 DEF UpdateStatus, TypeInv, TypeOK
  <2>1. CASE Die
    <3>1. budget' \in 0..MaxFaults /\ loc' \in [Locs -> Objects]
      BY <1>27, <2>0, <2>1, DisturbType, ObjectBump DEF UpdateStatus, StoreObject, TypeInv, TypeOK
    <3> QED
      BY <1>27, <2>1, <3>1, DieType DEF UpdateStatus
  <2>2. CASE ~Die
    <3>1. loc' \in [Locs -> Objects]
      BY <1>27, <2>2, ObjectBump DEF UpdateStatus, StoreObject, TypeInv, TypeOK
    <3>2. news' \subseteq {"loc", "svc"} \X Locs
      BY <1>27, <2>0, <2>2, TellType DEF UpdateStatus, StoreObject, TypeInv, TypeOK
    <3>3. queue' \subseteq Locs
      BY <1>27, <2>0, <2>2 DEF UpdateStatus, Requeue, TypeInv, TypeOK
    <3>4. budget' \in 0..MaxFaults
      BY <1>27, <2>2, DisturbType DEF UpdateStatus, TypeInv, TypeOK
    <3>5. Return /\ UNCHANGED <<caches, deleted, born, made, pod, owner, svc, taken>>
      BY <1>27, <2>2 DEF UpdateStatus
    <3> QED
      BY <3>1, <3>2, <3>3, <3>4, <3>5, <1>a
         DEF Return, Steps, NoPod, TypeInv, TypeOK, MadeInv, LoopInv, caches
  <2> QED
    BY <2>1, <2>2
<1>28. CASE Crash
  <2>1. budget' \in 0..MaxFaults
    BY <1>28, DisturbType DEF Crash
  <2> QED
    BY <1>28, <2>1, DieType DEF Crash, api, TypeInv, TypeOK
<1>29. CASE Restart
  <2>1. queue' \subseteq Locs
    BY <1>29 DEF Restart, TypeInv, TypeOK, MadeInv, Pods
  <2>2. MadeInv'
    BY <1>29 DEF Restart, TypeInv, MadeInv, api
  <2> QED
    BY <1>29, <2>1, <2>2 DEF Restart, Steps, TypeInv, TypeOK, LoopInv, api
<1> QED
  BY <1>0, <1>1, <1>2, <1>3, <1>4, <1>5, <1>6, <1>7, <1>8, <1>9, <1>10, <1>11, <1>12, <1>13, <1>14, <1>15, <1>16, <1>17, <1>18, <1>19, <1>20, <1>21, <1>22, <1>23, <1>24, <1>25, <1>26, <1>27, <1>28, <1>29
     DEF Next, Users, Cluster, Watch, Worker

-----------------------------------------------------------------------------
(* deletedPodCache and the caches.                                         *)

\* The steps that concern pods.
LEMMA PodSteps ==
  ASSUME [Next]_vars
  PROVE  \/ Die /\ UNCHANGED <<pod, owner, taken>>
         \/ UNCHANGED <<pod, owner, cPod, deleted, taken>>
         \/ \E l \in Locs : UserOrphan(l) \/ CleanOrphans(l)
         \/ \E p \in Pods : \/ KillPod(p) \/ EvictPod(p) \/ StartPod(p)
                            \/ RemovePod(p) \/ CollectPod(p) \/ SyncPod(p)
         \/ CreatePod \/ CreatePodLost \/ DeletePod \/ DeletePodLost \/ Restart
<1>1. ASSUME NEW l \in Locs,
             \/ UserCreate(l) \/ UserScale(l) \/ UserDelete(l) \/ KillSvc(l)
             \/ Finalize(l) \/ CollectSvc(l)
      PROVE  UNCHANGED <<pod, owner, cPod, deleted, taken>>
  BY <1>1 DEF UserCreate, UserScale, UserDelete, KillSvc, Finalize, CollectSvc,
              caches
<1>2. ASSUME NEW l \in Locs, SyncLoc(l) \/ SyncSvc(l) \/ StartReconcile(l)
      PROVE  \/ Die /\ UNCHANGED <<pod, owner, taken>>
             \/ UNCHANGED <<pod, owner, cPod, deleted, taken>>
  BY <1>2 DEF SyncLoc, SyncSvc, StartReconcile, api, caches
<1>3. ASSUME ListPods \/ Relist \/ ListSvc \/ CreateSvc \/ RelistSvc \/ UpdateStatus
      PROVE  \/ Die /\ UNCHANGED <<pod, owner, taken>>
             \/ UNCHANGED <<pod, owner, cPod, deleted, taken>>
  BY <1>3 DEF ListPods, Relist, ListSvc, CreateSvc, RelistSvc, UpdateStatus,
              api, caches
<1>4. Crash => Die /\ UNCHANGED <<pod, owner, taken>>
  BY DEF Crash, api
<1>5. UNCHANGED vars => UNCHANGED <<pod, owner, cPod, deleted, taken>>
  BY DEF vars, api, caches
<1> QED
  BY <1>1, <1>2, <1>3, <1>4, <1>5 DEF Next, Users, Cluster, Watch, Worker

\* Every step keeps the pods hidden by deletedPodCache dying: a pod is hidden
\* only by the step that deletes it, and no phase leads back to a live one.
LEMMA DyingStep == TypeInv /\ DyingInv /\ [Next]_vars => DyingInv'
<1> SUFFICES ASSUME TypeInv, DyingInv, [Next]_vars, NEW q \in deleted'
             PROVE  pod'[q] \in {"Terminating", "Orphan", "gone"}
  BY DEF DyingInv
<1> USE DEF TypeInv, TypeOK, DyingInv
<1>1. CASE Die
  BY <1>1 DEF Die
<1>2. CASE UNCHANGED <<pod, owner, cPod, deleted, taken>>
  BY <1>2
<1>3. ASSUME NEW l \in Locs, UserOrphan(l) \/ CleanOrphans(l)
      PROVE  pod'[q] \in {"Terminating", "Orphan", "gone"}
  BY <1>3 DEF UserOrphan, CleanOrphans
<1>4. ASSUME NEW p \in Pods,
             \/ KillPod(p) \/ EvictPod(p) \/ StartPod(p)
             \/ RemovePod(p) \/ CollectPod(p)
      PROVE  pod'[q] \in {"Terminating", "Orphan", "gone"}
  BY <1>4 DEF KillPod, EvictPod, StartPod, RemovePod, CollectPod
<1>5. ASSUME NEW p \in Pods, SyncPod(p), ~Die
      PROVE  pod'[q] \in {"Terminating", "Orphan", "gone"}
  BY <1>5 DEF SyncPod, api
<1>6. CASE (CreatePod \/ CreatePodLost) /\ ~Die
  <2>1. q \in deleted /\ StorePod
    BY <1>6 DEF CreatePod, CreatePodLost
  <2>2. made' \in Pods /\ made' > made /\ q \in Pods
    BY <2>1, PodsAssumption DEF StorePod, Pods
  <2>3. q # made'
    BY <2>1, <2>2 DEF MadeInv
  <2> QED
    BY <2>1, <2>2, <2>3 DEF StorePod
<1>7. CASE DeletePod /\ ~Die
  <2>1. head \in Pods /\ RemoveFromApi(head) /\ Remember(head) /\ Exists(head)
    BY <1>7 DEF DeletePod, LoopInv
  <2> QED
    BY <2>1 DEF RemoveFromApi, Remember
<1>8. CASE DeletePodLost
  <2>1. head \in Pods /\ RemoveFromApi(head) /\ Exists(head) /\ UNCHANGED deleted
    BY <1>8 DEF DeletePodLost, LoopInv
  <2> QED
    BY <2>1 DEF RemoveFromApi, Exists
<1>9. CASE Restart
  BY <1>9 DEF Restart, api
<1> QED
  BY <1>1, <1>2, <1>3, <1>4, <1>5, <1>6, <1>7, <1>8, <1>9, PodSteps

\* Every step keeps the pod cache behind the API server: it holds phases the
\* pods have had, so that what is alive in the cache was alive once.
LEMMA CacheStep ==
  TypeInv /\ DyingInv /\ CacheInv /\ [Next]_vars => CacheInv'
<1> DEFINE Good(q) == pod'[q] \in Live \/ q \in taken'
<1> SUFFICES ASSUME TypeInv, DyingInv, CacheInv, [Next]_vars, NEW q \in Pods,
                    cPod'[q] \in Live, q \notin deleted'
             PROVE  Good(q)
  BY DEF CacheInv
<1> USE DEF TypeInv, TypeOK, CacheInv, Live
<1>1. CASE Die
  BY <1>1 DEF Die
<1>2. CASE UNCHANGED <<pod, owner, cPod, deleted, taken>>
  BY <1>2
<1>3. ASSUME NEW l \in Locs, UserOrphan(l) \/ CleanOrphans(l) PROVE Good(q)
  BY <1>3 DEF UserOrphan, CleanOrphans, caches
<1>4. ASSUME NEW p \in Pods,
             \/ KillPod(p) \/ EvictPod(p) \/ StartPod(p)
             \/ RemovePod(p) \/ CollectPod(p)
      PROVE  Good(q)
  BY <1>4 DEF KillPod, EvictPod, StartPod, RemovePod, CollectPod, caches
<1>5. ASSUME NEW p \in Pods, SyncPod(p), ~Die PROVE Good(q)
  BY <1>5 DEF SyncPod, api
<1>6. CASE (CreatePod \/ CreatePodLost) /\ ~Die
  <2>1. StorePod /\ UNCHANGED <<cPod, deleted, taken>>
    BY <1>6 DEF CreatePod, CreatePodLost, caches
  <2>2. made' \in Pods
    BY <2>1, PodsAssumption DEF StorePod, Pods
  <2> QED
    BY <2>1, <2>2 DEF StorePod
<1>7. CASE DeletePod /\ ~Die
  <2>1. /\ head \in Pods /\ RemoveFromApi(head) /\ Remember(head)
        /\ UNCHANGED cPod
    BY <1>7 DEF DeletePod, LoopInv, caches
  <2> QED
    BY <2>1 DEF RemoveFromApi, Remember
<1>8. CASE DeletePodLost
  <2>1. /\ head \in Pods /\ RemoveFromApi(head) /\ taken' = taken \cup {head}
        /\ UNCHANGED <<cPod, deleted>>
    BY <1>8 DEF DeletePodLost, LoopInv, caches
  <2> QED
    BY <2>1 DEF RemoveFromApi
<1>9. CASE Restart
  BY <1>9 DEF Restart, api
<1> QED
  BY <1>1, <1>2, <1>3, <1>4, <1>5, <1>6, <1>7, <1>8, <1>9, PodSteps

-----------------------------------------------------------------------------
(* The deletion loop.                                                      *)

\* A step of the deletion loop is one of the worker's; every other step
\* leaves its variables alone or leaves the loop.
LEMMA LoopSteps ==
  ASSUME [Next]_vars, pc' = "delete"
  PROVE  \/ UNCHANGED <<pc, key, obj, list, left>> /\ ~DeletePod
         \/ ListPods
         \/ DeletePod
<1>1. ASSUME NEW l \in Locs,
             \/ UserCreate(l) \/ UserScale(l) \/ UserDelete(l) \/ UserOrphan(l)
             \/ KillSvc(l) \/ CleanOrphans(l) \/ Finalize(l) \/ CollectSvc(l)
      PROVE  UNCHANGED <<pc, key, obj, list, left>>
  BY <1>1 DEF UserCreate, UserScale, UserDelete, UserOrphan, KillSvc,
              CleanOrphans, Finalize, CollectSvc, local
<1>2. ASSUME NEW p \in Pods,
             \/ KillPod(p) \/ EvictPod(p) \/ StartPod(p) \/ RemovePod(p)
             \/ CollectPod(p) \/ SyncPod(p)
      PROVE  UNCHANGED <<pc, key, obj, list, left>>
  BY <1>2 DEF KillPod, EvictPod, StartPod, RemovePod, CollectPod, SyncPod,
              Die, local
<1>3. ASSUME NEW l \in Locs, SyncLoc(l) \/ SyncSvc(l) \/ StartReconcile(l)
      PROVE  UNCHANGED <<pc, key, obj, list, left>>
  BY <1>3 DEF SyncLoc, SyncSvc, StartReconcile, Die, local
<1>4. ~Relist /\ ~ListSvc /\ ~RelistSvc /\ ~CreateSvc
  BY DEF Relist, ListSvc, RelistSvc, CreateSvc
<1>5. ~UpdateStatus
  BY DEF UpdateStatus, Die, Return
<1>6. ~CreatePod /\ ~CreatePodLost
  BY DEF CreatePod, CreatePodLost, Die, local
<1>7. DeletePodLost \/ UNCHANGED vars => UNCHANGED <<pc, key, obj, list, left>>
  BY DEF DeletePodLost, vars, local
<1>8. ~Crash /\ ~Restart
  BY DEF Crash, Restart, Die
<1> QED
  BY <1>1, <1>2, <1>3, <1>4, <1>5, <1>6, <1>7, <1>8
     DEF Next, Users, Cluster, Watch, Worker

\* An owner was written when the pod was made.
LEMMA MadeOwner ==
  ASSUME TypeInv, NEW p \in Pods, NEW l \in Locs, NEW u,
         owner[p] = [loc |-> l, uid |-> u]
  PROVE  pod[p] # "none"
BY LocsAssumption DEF TypeInv, TypeOK, MadeInv, Pods, Nobody

\* A pod that is alive or was taken by others stays so in every step but the
\* controller's own deletion of it, and it keeps its owner.
LEMMA KeptPods ==
  ASSUME TypeInv, [Next]_vars, NEW q \in Pods, pod[q] \in Live \/ q \in taken,
         pod[q] # "none", ~(DeletePod /\ q = head /\ pc' # "down")
  PROVE  (pod'[q] \in Live \/ q \in taken') /\ owner'[q] = owner[q]
<1> DEFINE Kept == (pod'[q] \in Live \/ q \in taken') /\ owner'[q] = owner[q]
<1> USE DEF TypeInv, TypeOK, Live
<1>1. CASE UNCHANGED <<pod, owner, taken>>
  BY <1>1
<1>2. CASE UNCHANGED <<pod, owner, cPod, deleted, taken>>
  BY <1>2
<1>3. ASSUME NEW l \in Locs, UserOrphan(l) \/ CleanOrphans(l) PROVE Kept
  BY <1>3 DEF UserOrphan, CleanOrphans
<1>4. ASSUME NEW p \in Pods,
             \/ KillPod(p) \/ EvictPod(p) \/ StartPod(p)
             \/ RemovePod(p) \/ CollectPod(p)
      PROVE  Kept
  BY <1>4 DEF KillPod, EvictPod, StartPod, RemovePod, CollectPod
<1>5. ASSUME NEW p \in Pods, SyncPod(p) PROVE Kept
  BY <1>5 DEF SyncPod, api
<1>6. CASE (CreatePod \/ CreatePodLost) /\ StorePod
  <2>1. q # made' /\ made' \in Pods
    BY <1>6, PodsAssumption DEF StorePod, MadeInv, Pods
  <2> QED
    BY <1>6, <2>1 DEF CreatePod, CreatePodLost, StorePod
<1>7. CASE DeletePod /\ pc' # "down"
  <2>1. /\ head \in Pods /\ RemoveFromApi(head) /\ q # head
        /\ UNCHANGED owner /\ taken \subseteq taken'
    BY <1>7 DEF DeletePod, Remember, Die, LoopInv
  <2> QED
    BY <2>1 DEF RemoveFromApi
<1>8. CASE DeletePodLost
  <2>1. /\ head \in Pods /\ RemoveFromApi(head) /\ taken' = taken \cup {head}
        /\ UNCHANGED owner
    BY <1>8 DEF DeletePodLost, LoopInv
  <2> QED
    BY <2>1 DEF RemoveFromApi
<1>9. Restart => UNCHANGED <<pod, owner, taken>>
  BY DEF Restart, api
<1>10. CreatePod \/ CreatePodLost => StorePod \/ UNCHANGED <<pod, owner, taken>>
  BY DEF CreatePod, CreatePodLost
<1>11. DeletePod /\ pc' = "down" => UNCHANGED <<pod, owner, taken>>
  BY DEF DeletePod, LoopDone
<1> QED
  BY <1>1, <1>2, <1>3, <1>4, <1>5, <1>6, <1>7, <1>8, <1>9, <1>10, <1>11,
     PodSteps

\* Every step keeps the deletion loop's list: enough pods of the object, none
\* of them hidden, and as many iterations as the surplus that was counted.
LEMMA ListStep ==
  TypeInv /\ DyingInv /\ CacheInv /\ ListInv /\ [Next]_vars => ListInv'
<1> SUFFICES ASSUME TypeInv, CacheInv, ListInv, [Next]_vars, pc' = "delete"
             PROVE  /\ list' \subseteq OwnedBy(key, obj.uid)'
                    /\ \A p \in list' : pod'[p] \in Live \/ p \in taken'
                    /\ Cardinality(list') = obj'.replicas + left'
  BY DEF ListInv
<1>1. CASE UNCHANGED <<pc, key, obj, list, left>> /\ ~DeletePod
  <2>1. ASSUME NEW p \in list
        PROVE  /\ p \in Pods /\ owner[p] = [loc |-> key, uid |-> obj.uid]
               /\ pod[p] # "none" /\ (pod[p] \in Live \/ p \in taken)
    <3>1. /\ p \in Pods /\ owner[p] = [loc |-> key, uid |-> obj.uid]
          /\ pod[p] \in Live \/ p \in taken
      BY <1>1, <2>1 DEF ListInv, OwnedBy
    <3>2. key \in Locs
      BY <1>1 DEF TypeInv, TypeOK
    <3> QED
      BY <3>1, <3>2, MadeOwner
  <2>2. ASSUME NEW p \in list
        PROVE  (pod'[p] \in Live \/ p \in taken') /\ owner'[p] = owner[p]
    BY <1>1, <2>1, KeptPods
  <2> QED
    BY <1>1, <2>1, <2>2 DEF ListInv, OwnedBy
<1>2. CASE ListPods
  <2>1. /\ list' = Children /\ left' = Cardinality(Children) - obj.replicas
        /\ UNCHANGED <<key, obj, pod, owner, taken>>
    BY <1>2 DEF ListPods, Die, api
  <2>2. Cardinality(Children) \in Nat /\ obj.replicas \in Int
    BY PodSets DEF Children, TypeInv, TypeOK, Objects
  <2>3. \A p \in Children : pod[p] \in Live \/ p \in taken
    BY DEF Children, IsChild, CacheInv
  <2>4. Children \subseteq OwnedBy(key, obj.uid)
    BY DEF Children, IsChild, OwnedBy
  <2>5. OwnedBy(key, obj.uid)' = OwnedBy(key, obj.uid)
    BY <2>1 DEF OwnedBy
  <2> QED
    BY <2>1, <2>2, <2>3, <2>4, <2>5
<1>3. CASE DeletePod
  <2>1. /\ pc = "delete" /\ head \in list
        /\ RemoveFromApi(head)
        /\ list' = list \ {head} /\ left' = left - 1
        /\ UNCHANGED <<key, obj, owner>> /\ taken \subseteq taken'
    BY <1>3 DEF DeletePod, Remember, Die, TypeInv, LoopInv
  <2>2. /\ list \subseteq Pods /\ left \in Nat /\ obj.replicas \in Int
        /\ pod \in [Pods -> Phases]
    BY DEF TypeInv, TypeOK, Objects
  <2>3. Cardinality(list') = Cardinality(list) - 1
    BY <2>1, <2>2, PodSets, FS_RemoveElement
  <2>4. \A p \in list' : pod'[p] = pod[p]
    BY <2>1, <2>2 DEF RemoveFromApi
  <2>5. OwnedBy(key, obj.uid)' = OwnedBy(key, obj.uid)
    BY <2>1 DEF OwnedBy
  <2> QED
    BY <2>1, <2>2, <2>3, <2>4, <2>5 DEF ListInv
<1> QED
  BY <1>1, <1>2, <1>3, LoopSteps

-----------------------------------------------------------------------------
(* The versions of an object.                                              *)

\* The steps that write or copy objects.
LEMMA ObjectSteps ==
  ASSUME [Next]_vars
  PROVE  \/ UNCHANGED <<loc, born, cLoc, pc, key, obj>>
         \/ Die /\ UNCHANGED <<loc, born>>
         \/ \E l \in Locs : \/ UserCreate(l) \/ UserScale(l) \/ UserDelete(l)
                            \/ UserOrphan(l) \/ Finalize(l)
                            \/ SyncLoc(l) \/ StartReconcile(l)
         \/ /\ UNCHANGED <<loc, born, cLoc, key>> /\ pc \notin {"down", "idle"}
            /\ \/ UNCHANGED obj
               \/ \E s : obj' = [obj EXCEPT !.status = s]
         \/ UpdateStatus \/ Restart
<1>1. ASSUME NEW l \in Locs,
             KillSvc(l) \/ CleanOrphans(l) \/ CollectSvc(l)
      PROVE  UNCHANGED <<loc, born, cLoc, pc, key, obj>>
  BY <1>1 DEF KillSvc, CleanOrphans, CollectSvc, local, caches
<1>2. ASSUME NEW p \in Pods,
             \/ KillPod(p) \/ EvictPod(p) \/ StartPod(p) \/ RemovePod(p)
             \/ CollectPod(p)
      PROVE  UNCHANGED <<loc, born, cLoc, pc, key, obj>>
  BY <1>2 DEF KillPod, EvictPod, StartPod, RemovePod, CollectPod, local, caches
<1>3. ASSUME NEW p \in Pods, SyncPod(p)
      PROVE  \/ UNCHANGED <<loc, born, cLoc, pc, key, obj>>
             \/ Die /\ UNCHANGED <<loc, born>>
  BY <1>3 DEF SyncPod, local, api
<1>4. ASSUME NEW l \in Locs, SyncSvc(l)
      PROVE  \/ UNCHANGED <<loc, born, cLoc, pc, key, obj>>
             \/ Die /\ UNCHANGED <<loc, born>>
  BY <1>4 DEF SyncSvc, local, api
<1>5. ASSUME ListPods \/ CreatePod \/ DeletePod
      PROVE  \/ Die /\ UNCHANGED <<loc, born>>
             \/ UNCHANGED <<loc, born, cLoc, key, obj>> /\ pc \notin {"down", "idle"}
  BY <1>5 DEF ListPods, CreatePod, DeletePod, api, caches
<1>6. ASSUME CreatePodLost \/ DeletePodLost \/ ListSvc \/ CreateSvc
      PROVE  UNCHANGED <<loc, born, cLoc, key, obj>> /\ pc \notin {"down", "idle"}
  BY <1>6 DEF CreatePodLost, DeletePodLost, ListSvc, CreateSvc, api, caches, local
<1>7. ASSUME Relist \/ RelistSvc
      PROVE  /\ UNCHANGED <<loc, born, cLoc, key>> /\ pc \notin {"down", "idle"}
             /\ \/ UNCHANGED obj
                \/ \E s : obj' = [obj EXCEPT !.status = s]
  BY <1>7 DEF Relist, RelistSvc, api, caches
<1>8. Crash => Die /\ UNCHANGED <<loc, born>>
  BY DEF Crash, api
<1>9. UNCHANGED vars => UNCHANGED <<loc, born, cLoc, pc, key, obj>>
  BY DEF vars, api, caches, local
<1> QED
  BY <1>1, <1>2, <1>3, <1>4, <1>5, <1>6, <1>7, <1>8, <1>9
     DEF Next, Users, Cluster, Watch, Worker

\* A change of the stored object that keeps or raises its version keeps the
\* copies of it behind.
LEMMA EarlierKept ==
  ASSUME TypeInv, NEW l \in Locs, NEW o \in Objects, IsEarlier(o, l), Present(o),
         born'[l] \in Uids, born[l] <= born'[l], loc'[l] \in Objects,
         \/ loc'[l].uid = loc[l].uid /\ loc'[l].gen > loc[l].gen
         \/ loc'[l] = loc[l]
         \/ loc'[l].uid = 0
         \/ loc'[l].uid > born[l]
  PROVE  /\ o.uid <= born'[l]
         /\ o.uid = loc'[l].uid =>
              /\ o.gen <= loc'[l].gen
              /\ o.gen = loc'[l].gen => /\ o.replicas = loc'[l].replicas
                                        /\ o.form = loc'[l].form
                                        /\ o.deleting = loc'[l].deleting
BY DEF TypeInv, TypeOK, IsEarlier, Objects, Uids, Present

\* Every step keeps the copies of an object, in the cache and in the worker's
\* hand, earlier versions of what is stored.
LEMMA VersionStep == TypeInv /\ VersionInv /\ [Next]_vars => VersionInv'
<1> SUFFICES ASSUME TypeInv, VersionInv, [Next]_vars PROVE VersionInv'
  OBVIOUS
<1>t. TypeInv'
  BY TypeStep
<1> DEFINE Write(l) ==
      /\ UNCHANGED <<cLoc, pc, key, obj>>
      /\ \A m \in Locs :
           /\ born[m] <= born'[m] /\ loc'[m].uid <= born'[m]
           /\ \/ loc'[m].uid = loc[m].uid /\ loc'[m].gen > loc[m].gen
              \/ loc'[m] = loc[m]
              \/ loc'[m].uid = 0
              \/ loc'[m].uid > born[m]
<1>w. ASSUME NEW l \in Locs, Write(l) PROVE VersionInv'
  <2>1. ASSUME NEW m \in Locs, NEW o \in Objects, Present(o), IsEarlier(o, m)
        PROVE  IsEarlier(o, m)'
    <3>1. born'[m] \in Uids /\ loc'[m] \in Objects
      BY <1>t DEF TypeInv, TypeOK
    <3>2. /\ born[m] <= born'[m]
          /\ \/ loc'[m].uid = loc[m].uid /\ loc'[m].gen > loc[m].gen
             \/ loc'[m] = loc[m]
             \/ loc'[m].uid = 0
             \/ loc'[m].uid > born[m]
      BY <1>w
    <3> QED
      BY <2>1, <3>1, <3>2, EarlierKept DEF IsEarlier
  <2>2. \A m \in Locs : cLoc[m] \in Objects
    BY DEF TypeInv, TypeOK
  <2>3. obj \in Objects /\ (pc \notin {"down", "idle"} => key \in Locs)
    BY DEF TypeInv, TypeOK
  <2>4. ASSUME NEW m \in Locs, Present(cLoc'[m]) PROVE IsEarlier(cLoc[m], m)'
    BY <1>w, <2>1, <2>2, <2>4 DEF VersionInv
  <2>5. ASSUME pc' \notin {"down", "idle"} PROVE Present(obj) /\ IsEarlier(obj, key)'
    BY <1>w, <2>1, <2>3, <2>5 DEF VersionInv
  <2> QED
    BY <1>w, <2>4, <2>5 DEF VersionInv, Present, IsEarlier
<1>1. CASE UNCHANGED <<loc, born, cLoc, pc, key, obj>>
  BY <1>1 DEF VersionInv, IsEarlier
<1>2. CASE Die /\ UNCHANGED <<loc, born>>
  BY <1>2 DEF Die, VersionInv, IsEarlier, Present, NoObject
<1>3. ASSUME NEW l \in Locs, UserCreate(l) PROVE VersionInv'
  <2>1. born[l] \in Uids /\ born' = [born EXCEPT ![l] = @ + 1]
    BY <1>3 DEF UserCreate, TypeInv, TypeOK
  <2>2. loc'[l].uid = born'[l] /\ \A m \in Locs \ {l} : loc'[m] = loc[m]
    BY <1>3 DEF UserCreate, NewObject, TypeInv, TypeOK
  <2>3. \A m \in Locs : loc[m].uid <= born[m] /\ born[m] \in Nat
    BY DEF VersionInv, TypeInv, TypeOK, Uids
  <2>4. UNCHANGED <<cLoc, pc, key, obj>>
    BY <1>3 DEF UserCreate, caches, local
  <2>5. \A m \in Locs : born[m] <= born'[m] /\ loc'[m].uid <= born'[m]
    BY <2>1, <2>2, <2>3 DEF TypeInv, TypeOK, Uids
  <2>6. loc'[l].uid > born[l]
    BY <2>1, <2>2, <2>3 DEF TypeInv, TypeOK
  <2>7. Write(l)
    BY <2>2, <2>4, <2>5, <2>6
  <2> QED
    BY <2>7, <1>w
<1>4. ASSUME NEW l \in Locs, UserScale(l) \/ UserDelete(l) \/ UserOrphan(l) \/ Finalize(l)
      PROVE  VersionInv'
  <2>1. UNCHANGED <<cLoc, pc, key, obj, born>>
    BY <1>4 DEF UserScale, UserDelete, UserOrphan, Finalize, caches, local
  <2>2. loc[l] \in Objects /\ born \in [Locs -> Uids]
    BY DEF TypeInv, TypeOK
  <2>3. /\ \A m \in Locs \ {l} : loc'[m] = loc[m]
        /\ \/ loc'[l] = NoObject
           \/ \E r \in Replicas : loc'[l] = Bump([loc[l] EXCEPT !.replicas = r])
           \/ loc'[l] = Bump([loc[l] EXCEPT !.deleting = TRUE])
    BY <1>4 DEF UserScale, UserDelete, UserOrphan, Finalize, TypeInv, TypeOK
  <2>4. \A r : Bump([loc[l] EXCEPT !.replicas = r]).uid = loc[l].uid
               /\ Bump([loc[l] EXCEPT !.replicas = r]).gen = loc[l].gen + 1
    BY <2>2 DEF Bump, Objects
  <2>5. /\ Bump([loc[l] EXCEPT !.deleting = TRUE]).uid = loc[l].uid
        /\ Bump([loc[l] EXCEPT !.deleting = TRUE]).gen = loc[l].gen + 1
    BY <2>2 DEF Bump, Objects
  <2>6. loc'[l].uid = 0 \/ (loc'[l].uid = loc[l].uid /\ loc'[l].gen > loc[l].gen)
    <3>1. loc[l].gen + 1 > loc[l].gen
      BY <2>2 DEF Objects
    <3>2. CASE loc'[l] = NoObject
      BY <3>2 DEF NoObject
    <3>3. ASSUME NEW r \in Replicas, loc'[l] = Bump([loc[l] EXCEPT !.replicas = r])
          PROVE  loc'[l].uid = loc[l].uid /\ loc'[l].gen > loc[l].gen
      BY <2>4, <3>1, <3>3
    <3>4. CASE loc'[l] = Bump([loc[l] EXCEPT !.deleting = TRUE])
      BY <2>5, <3>1, <3>4
    <3> QED
      BY <2>3, <3>2, <3>3, <3>4
  <2>7. \A m \in Locs : loc[m].uid <= born[m] /\ born[m] \in Nat
    BY <2>2 DEF VersionInv, Uids
  <2>8. Write(l)
    BY <2>1, <2>3, <2>6, <2>7
  <2> QED
    BY <2>8, <1>w
<1>5. ASSUME NEW l \in Locs, SyncLoc(l) PROVE VersionInv'
  <2>1. /\ UNCHANGED <<loc, born, pc, key, obj>>
        /\ cLoc' = [cLoc EXCEPT ![l] = loc[l]]
    BY <1>5 DEF SyncLoc, api, local
  <2>2. \A m \in Locs : loc[m] \in Objects /\ loc[m].uid <= born[m]
    BY DEF VersionInv, TypeInv, TypeOK
  <2>3. \A m \in Locs : cLoc'[m] = IF m = l THEN loc[m] ELSE cLoc[m]
    BY <2>1 DEF TypeInv, TypeOK
  <2> QED
    BY <2>1, <2>2, <2>3 DEF VersionInv, IsEarlier, Objects, Present
<1>6. ASSUME NEW l \in Locs, StartReconcile(l) PROVE VersionInv'
  <2>1. CASE Die
    BY <1>2, <1>6, <2>1 DEF StartReconcile, api
  <2>2. CASE ~Die
    <3>1. /\ UNCHANGED <<loc, born, cLoc>> /\ Present(cLoc[l])
          /\ key' = l /\ obj' = cLoc[l]
      BY <1>6, <2>2 DEF StartReconcile, api, caches
    <3> QED
      BY <3>1 DEF VersionInv, IsEarlier
  <2> QED
    BY <2>1, <2>2
<1>7. ASSUME UNCHANGED <<loc, born, cLoc, key>>, pc \notin {"down", "idle"},
             UNCHANGED obj \/ \E s : obj' = [obj EXCEPT !.status = s]
      PROVE  VersionInv'
  <2>1. /\ obj'.uid = obj.uid /\ obj'.gen = obj.gen /\ obj'.form = obj.form
        /\ obj'.replicas = obj.replicas /\ obj'.deleting = obj.deleting
    BY <1>7 DEF TypeInv, TypeOK, Objects
  <2> QED
    BY <1>7, <2>1 DEF VersionInv, IsEarlier, Present
<1>8. CASE UpdateStatus
  <2>1. CASE UNCHANGED loc
    <3>1. (Die \/ Return) /\ UNCHANGED born
      BY <1>8 DEF UpdateStatus
    <3>2. CASE Die
      BY <1>2, <2>1, <3>1, <3>2
    <3>3. CASE Return /\ ~Die
      BY <1>8, <2>1, <3>1, <3>3 DEF UpdateStatus, Return, VersionInv, IsEarlier, caches
    <3> QED
      BY <3>1, <3>2, <3>3
  <2>2. CASE ~UNCHANGED loc
    <3>1. /\ SameVersion(loc[key], obj) /\ loc' = [loc EXCEPT ![key] = Bump(obj)]
          /\ UNCHANGED <<born, cLoc>> /\ pc' = "idle" /\ key \in Locs
      BY <1>8, <2>2 DEF UpdateStatus, StoreObject, Return, caches, TypeInv, TypeOK
    <3>2. obj \in Objects /\ Bump(obj).uid = obj.uid /\ Bump(obj).gen = obj.gen + 1
      BY DEF Bump, Objects, TypeInv, TypeOK
    <3>3. \A m \in Locs : loc[m].uid <= born[m] /\ born[m] \in Nat
      BY DEF VersionInv, TypeInv, TypeOK, Uids
    <3>4. loc'[key].uid = loc[key].uid /\ loc'[key].gen > loc[key].gen
      BY <3>1, <3>2 DEF SameVersion, TypeInv, TypeOK, Objects
    <3>5. \A m \in Locs : m = key \/ loc'[m] = loc[m]
      BY <3>1 DEF TypeInv, TypeOK
    <3>6. ASSUME NEW m \in Locs, NEW o \in Objects, Present(o), IsEarlier(o, m)
          PROVE  IsEarlier(o, m)'
      <4>1. born'[m] \in Uids /\ loc'[m] \in Objects
        BY <1>t DEF TypeInv, TypeOK
      <4>2. born'[m] = born[m] /\ born[m] <= born'[m]
        BY <3>1, <3>3
      <4>3. \/ loc'[m].uid = loc[m].uid /\ loc'[m].gen > loc[m].gen
            \/ loc'[m] = loc[m]
        BY <3>4, <3>5
      <4> QED
        BY <3>6, <4>1, <4>2, <4>3, EarlierKept DEF IsEarlier
    <3>7. \A m \in Locs : loc'[m].uid <= born'[m]
      BY <3>1, <3>3, <3>4, <3>5
    <3>8. \A m \in Locs : cLoc[m] \in Objects
      BY DEF TypeInv, TypeOK
    <3>9. ASSUME NEW m \in Locs, Present(cLoc'[m]) PROVE IsEarlier(cLoc[m], m)'
      BY <3>1, <3>6, <3>8, <3>9 DEF VersionInv
    <3> QED
      BY <3>1, <3>7, <3>9 DEF VersionInv
  <2> QED
    BY <2>1, <2>2
<1>9. CASE Restart
  <2>1. UNCHANGED <<loc, born>> /\ cLoc' = loc /\ pc' = "idle"
    BY <1>9 DEF Restart, api
  <2>2. \A m \in Locs : loc[m] \in Objects /\ loc[m].uid <= born[m]
    BY DEF VersionInv, TypeInv, TypeOK
  <2> QED
    BY <2>1, <2>2 DEF VersionInv, IsEarlier, Objects
<1> QED
  BY <1>1, <1>2, <1>3, <1>4, <1>5, <1>6, <1>7, <1>8, <1>9, ObjectSteps

-----------------------------------------------------------------------------
(* The theorems.                                                           *)

Inv == TypeInv /\ DyingInv /\ CacheInv /\ ListInv /\ VersionInv

\* The inductive invariant holds at first ...
LEMMA InvInit == Init => Inv
<1> SUFFICES ASSUME Init PROVE Inv
  OBVIOUS
<1>1. TypeInv
  BY TypeInit
<1>2. DyingInv /\ CacheInv /\ ListInv
  BY DEF Init, DyingInv, CacheInv, ListInv, Live
<1>3. VersionInv
  BY DEF Init, VersionInv, NoObject, Present
<1> QED
  BY <1>1, <1>2, <1>3 DEF Inv

\* ... and every step keeps it.
LEMMA InvStep == Inv /\ [Next]_vars => Inv'
BY TypeStep, DyingStep, CacheStep, ListStep, VersionStep DEF Inv

\* The layers of the invariant hold in every reachable state.
THEOREM Invariance == Spec => []Inv
BY InvInit, InvStep, PTL DEF Spec

\* The state is always well typed, and so is the arithmetic of the loops: no
\* counter of syncChildPodList ever becomes negative.
THEOREM TypeCorrect == Spec => []TypeOK
<1>1. Inv => TypeOK
  BY DEF Inv, TypeInv
<1> QED
  BY <1>1, Invariance, PTL

\* deletedPodCache never hides a pod that stays alive.
THEOREM HiddenCorrect == Spec => []HiddenAreDying
<1>1. Inv => HiddenAreDying
  BY DEF Inv, DyingInv, HiddenAreDying, Live
<1> QED
  BY <1>1, Invariance, PTL

\* The deletion loop hangs on a missing pod only when others removed it.
THEOREM WedgeCorrect == Spec => []WedgeOnlyByOthers
<1>1. Inv => WedgeOnlyByOthers
  BY DEF Inv, TypeInv, LoopInv, ListInv, WedgeOnlyByOthers, Exists, Live
<1> QED
  BY <1>1, Invariance, PTL

\* What one iteration of the deletion loop leaves.
LEMMA DeletionLeaves ==
  ASSUME Inv, DeletePod \/ DeletePodLost
  PROVE  Cardinality({p \in OwnedBy(key, obj.uid) :
                        pod'[p] \in Live \/ p \in taken'}) >= obj.replicas
<1> DEFINE S == {p \in OwnedBy(key, obj.uid) : pod'[p] \in Live \/ p \in taken'}
<1>1. S \subseteq Pods /\ Cardinality(S) \in Nat
  BY PodSets DEF OwnedBy
<1>2. /\ pc = "delete" /\ list \subseteq Pods /\ left \in Nat /\ left >= 1
      /\ obj.replicas \in Int /\ pod \in [Pods -> Phases]
  BY DEF DeletePod, DeletePodLost, Inv, TypeInv, TypeOK, LoopInv, Objects
<1>3. /\ list \subseteq OwnedBy(key, obj.uid)
      /\ \A p \in list : pod[p] \in Live \/ p \in taken
      /\ Cardinality(list) = obj.replicas + left
  BY <1>2 DEF Inv, ListInv
<1>4. CASE list = {}
  BY <1>1, <1>2, <1>3, <1>4, FS_EmptySet
<1>5. CASE list # {}
  <2>1. head \in list /\ RemoveFromApi(head) /\ taken \subseteq taken'
    BY <1>2, <1>5 DEF DeletePod, DeletePodLost, Remember, Inv, TypeInv, LoopInv
  <2>2. list \ {head} \subseteq S
    BY <1>2, <1>3, <2>1 DEF RemoveFromApi
  <2>3. Cardinality(list \ {head}) = Cardinality(list) - 1
    BY <1>2, <2>1, PodSets, FS_RemoveElement
  <2>4. Cardinality(list \ {head}) <= Cardinality(S)
    BY <1>1, <2>2, PodSubset
  <2> QED
    BY <1>1, <1>2, <1>3, <2>3, <2>4
<1> QED
  BY <1>4, <1>5

\* Scaling down never goes too far, from however stale a cache it counts.
THEOREM ScaleDownCorrect == Spec => ScaleDownSafe
<1>1. Inv => [DeletePod \/ DeletePodLost =>
                Cardinality({p \in OwnedBy(key, obj.uid) :
                               pod'[p] \in Live \/ p \in taken'}) >= obj.replicas]_vars
  BY DeletionLeaves
<1> QED
  BY <1>1, Invariance, PTL DEF ScaleDownSafe

\* A status update leaves what users decide of every object.
LEMMA UpdateKeepsSpec ==
  ASSUME Inv, UpdateStatus, NEW l \in Locs
  PROVE  /\ loc'[l].uid = loc[l].uid
         /\ loc'[l].replicas = loc[l].replicas
         /\ loc'[l].deleting = loc[l].deleting
<1>1. CASE UNCHANGED loc
  BY <1>1
<1>2. CASE ~UNCHANGED loc
  <2>1. /\ SameVersion(loc[key], obj) /\ loc' = [loc EXCEPT ![key] = Bump(obj)]
        /\ pc = "update" /\ key \in Locs
    BY <1>2 DEF UpdateStatus, StoreObject, Inv, TypeInv, TypeOK
  <2>2. /\ Bump(obj).uid = obj.uid /\ Bump(obj).replicas = obj.replicas
        /\ Bump(obj).deleting = obj.deleting
    BY DEF Bump, Objects, Inv, TypeInv, TypeOK
  <2>3. obj.replicas = loc[key].replicas /\ obj.deleting = loc[key].deleting
    BY <2>1 DEF Inv, VersionInv, IsEarlier, SameVersion
  <2> QED
    BY <2>1, <2>2, <2>3 DEF SameVersion, Inv, TypeInv, TypeOK
<1> QED
  BY <1>1, <1>2

\* A status update changes neither a spec that a user wrote nor the existence
\* of an object.
THEOREM SpecEditCorrect == Spec => NoLostSpecEdit
<1> DEFINE Same == \A l \in Locs : /\ loc'[l].uid = loc[l].uid
                                   /\ loc'[l].replicas = loc[l].replicas
                                   /\ loc'[l].deleting = loc[l].deleting
<1>1. ASSUME Inv, UpdateStatus PROVE Same
  BY <1>1, UpdateKeepsSpec
<1>2. Inv => [UpdateStatus => Same]_vars
  BY <1>1
<1> QED
  BY <1>2, Invariance, PTL DEF NoLostSpecEdit
=============================================================================
