------------------------ MODULE ReplicaContractProofs ------------------------
(***************************************************************************)
(* StorageLocations implements ReplicaContract, for every number of        *)
(* objects, pods, incarnations and faults: its initial state is one of the *)
(* contract, and every step is a step of the contract or changes nothing   *)
(* that the contract speaks of.                                            *)
(***************************************************************************)
EXTENDS StorageLocationsProofs

\* The contract counts as the controller does.
LEMMA SameCount ==
  ASSUME NEW S
  PROVE  Contract!Cardinality(S) = Cardinality(S)
BY DEF Contract!Cardinality, Cardinality

\* What the contract sees is well typed.
LEMMA WishType ==
  ASSUME NEW o \in Objects
  PROVE  Wish(o) \in Contract!Wishes
BY DEF Wish, Objects, Contract!Wishes

\* Nothing is asked of an object that is not there.
LEMMA NoWish == Wish(NoObject) = Contract!Unheard
BY DEF Wish, NoObject, Contract!Unheard

\* A working controller has an object in hand, another one has none.
LEMMA GoalIdle ==
  ASSUME TypeInv
  PROVE  /\ pc \in {"down", "idle"} <=> Goal = Contract!Idle
         /\ pc \notin {"down", "idle"} =>
              /\ Goal.home = [loc |-> key, uid |-> obj.uid]
              /\ Goal.replicas = obj.replicas
<1>1. pc \notin {"down", "idle"} => key \in Locs
  BY DEF TypeInv, TypeOK
<1> QED
  BY <1>1, LocsAssumption DEF Goal, Nobody, Contract!Idle

\* A step of users and cluster, and a deletion whose answer is lost: somebody
\* asks for something else, and pods that served are lost.
LEMMA IsWorld ==
  ASSUME TypeInv, TypeInv', UNCHANGED <<Heard, Goal, owner>>,
         NEW l \in Locs, \A m \in Locs \ {l} : loc'[m] = loc[m],
         Serving' \subseteq Serving, taken' = taken \cup (Serving \ Serving')
  PROVE  Contract!World
<1>1. Asked' \in [Locs -> Contract!Wishes]
  BY WishType DEF Asked, TypeInv, TypeOK
<1>2. \A m \in Locs \ {l} : Asked'[m] = Asked[m]
  BY DEF Asked
<1>3. \E S \in SUBSET Serving : Serving' = Serving \ S /\ taken' = taken \cup S
  <2>1. Serving \ Serving' \in SUBSET Serving
    OBVIOUS
  <2>2. Serving' = Serving \ (Serving \ Serving')
    OBVIOUS
  <2> QED
    BY <2>1, <2>2
<1> QED
  BY <1>1, <1>2, <1>3 DEF Contract!World

\* A process that dies leaves its object and forgets what it heard.
LEMMA IsLeave ==
  ASSUME TypeInv, Die, UNCHANGED <<Asked, owner, Serving, taken>>
  PROVE  Contract!Leave
<1>1. Goal' = Contract!Idle
  BY DEF Die, Goal, Nobody, Contract!Idle
<1>2. Heard' = [l \in Locs |-> Contract!Unheard]
  BY NoWish DEF Die, Heard
<1> QED
  BY <1>1, <1>2 DEF Contract!Leave

\* What the users and the cluster do to objects and pods.
LEMMA WorldSteps ==
  ASSUME TypeInv, TypeInv',
         \/ \E l \in Locs : \/ UserCreate(l) \/ UserScale(l) \/ UserDelete(l)
                            \/ UserOrphan(l) \/ Finalize(l)
         \/ \E p \in Pods : \/ KillPod(p) \/ EvictPod(p) \/ StartPod(p)
                            \/ RemovePod(p) \/ CollectPod(p)
  PROVE  Contract!World \/ UNCHANGED <<Asked, Heard, Goal, owner, Serving, taken>>
<1> USE DEF TypeInv, TypeOK
<1>1. ASSUME NEW l \in Locs, UserCreate(l) \/ UserScale(l) \/ UserDelete(l) \/ Finalize(l)
      PROVE  Contract!World
  <2>1. /\ UNCHANGED <<cLoc, pc, key, obj, owner, pod, taken>>
        /\ \A m \in Locs \ {l} : loc'[m] = loc[m]
    BY <1>1 DEF UserCreate, UserScale, UserDelete, Finalize, caches, local
  <2>2. UNCHANGED <<Heard, Goal, Serving>>
    BY <2>1 DEF Heard, Goal, Serving
  <2> QED
    BY <2>1, <2>2, IsWorld
<1>2. ASSUME NEW l \in Locs, UserOrphan(l) PROVE Contract!World
  <2>1. /\ UNCHANGED <<cLoc, pc, key, obj, owner>>
        /\ \A m \in Locs \ {l} : loc'[m] = loc[m]
        /\ pod' = [p \in Pods |-> IF p \in Alive(l, loc[l].uid) THEN "Orphan" ELSE pod[p]]
        /\ taken' = taken \cup Alive(l, loc[l].uid)
    BY <1>2 DEF UserOrphan, caches, local
  <2>2. UNCHANGED <<Heard, Goal>>
    BY <2>1 DEF Heard, Goal
  <2>3. Alive(l, loc[l].uid) \subseteq Serving
    BY DEF Alive, OwnedBy, Serving
  <2>4. Serving' = Serving \ Alive(l, loc[l].uid)
    BY <2>1 DEF Serving, Live
  <2> QED
    BY <2>1, <2>2, <2>3, <2>4, IsWorld
<1>3. ASSUME NEW p \in Pods, KillPod(p) \/ CollectPod(p) PROVE Contract!World
  <2>1. /\ UNCHANGED <<cLoc, pc, key, obj, owner, loc>> /\ pod[p] \in Live
        /\ pod' = [pod EXCEPT ![p] = "Terminating"] /\ taken' = taken \cup {p}
    BY <1>3 DEF KillPod, CollectPod, caches, local
  <2>2. UNCHANGED <<Heard, Goal>>
    BY <2>1 DEF Heard, Goal
  <2>3. Serving' = Serving \ {p} /\ p \in Serving
    BY <2>1 DEF Serving, Live
  <2>4. owner[p].loc \in Locs
    BY <2>1 DEF MadeInv, Pods, Live
  <2> QED
    BY <2>1, <2>2, <2>3, <2>4, IsWorld
<1>4. ASSUME NEW p \in Pods, EvictPod(p) \/ StartPod(p) \/ RemovePod(p)
      PROVE  UNCHANGED <<Asked, Heard, Goal, owner, Serving, taken>>
  <2>1. /\ UNCHANGED <<cLoc, pc, key, obj, owner, loc, taken>>
        /\ \A q \in Pods : pod'[q] \in Live <=> pod[q] \in Live
    BY <1>4 DEF EvictPod, StartPod, RemovePod, caches, local, Live
  <2> QED
    BY <2>1 DEF Asked, Heard, Goal, Serving
<1> QED
  BY <1>1, <1>2, <1>3, <1>4

\* A deletion whose answer is lost: the controller takes it for undone.
LEMMA LostSteps ==
  ASSUME Inv, TypeInv', DeletePodLost
  PROVE  Contract!World
<1> USE DEF Inv, TypeInv, TypeOK
<1>1. /\ UNCHANGED <<cLoc, pc, key, obj, owner, loc>> /\ key \in Locs
      /\ head \in list /\ head \in Pods /\ pc = "delete"
      /\ RemoveFromApi(head) /\ taken' = taken \cup {head}
  BY DEF DeletePodLost, caches, local, LoopInv
<1>2. UNCHANGED <<Heard, Goal>>
  BY <1>1 DEF Heard, Goal
<1>3. pod[head] \in Live \/ head \in taken
  BY <1>1 DEF ListInv
<1>4. Serving' = Serving \ {head}
  BY <1>1 DEF Serving, Live, RemoveFromApi
<1>5. taken' = taken \cup (Serving \ Serving')
  BY <1>1, <1>3, <1>4 DEF Serving
<1> QED
  BY <1>1, <1>2, <1>4, <1>5, IsWorld

\* An iteration of the creation loop makes a pod that was nobody's.
LEMMA GrowSteps ==
  ASSUME TypeInv, CreatePod \/ CreatePodLost, pc' # "down"
  PROVE  \E p \in Pods : Contract!Grow(p)
<1> USE DEF TypeInv, TypeOK
<1>1. /\ StorePod /\ pc = "create" /\ pc' \in {"create", "relist"}
      /\ UNCHANGED <<loc, cLoc, key, obj, taken>>
  BY DEF CreatePod, CreatePodLost, Die, caches, local
<1>2. made' \in Pods /\ made' > made
  BY <1>1, PodsAssumption DEF StorePod, Pods
<1>3. owner[made'] = Nobody
  BY <1>2 DEF MadeInv
<1>4. UNCHANGED <<Asked, Heard, Goal>>
  BY <1>1 DEF Asked, Heard, Goal
<1>5. Serving' = Serving \cup {made'}
  BY <1>1, <1>2 DEF StorePod, Serving, Live
<1>6. Goal # Contract!Idle /\ owner' = [owner EXCEPT ![made'] = Goal.home]
  BY <1>1, GoalIdle DEF StorePod
<1> QED
  BY <1>1, <1>2, <1>3, <1>4, <1>5, <1>6 DEF Contract!Grow, Nobody

\* An iteration of the deletion loop takes a pod of the object in hand and
\* leaves enough.  What deletedPodCache drops is one of more dead pods than
\* it has entries.
LEMMA ShrinkSteps ==
  ASSUME Inv, DeletePod, pc' # "down"
  PROVE  \E p \in Pods : Contract!Shrink(p)
<1> DEFINE Made == {q \in Pods : owner[q] # Nobody}
<1> USE DEF Inv, TypeInv, TypeOK
<1>1. /\ UNCHANGED <<loc, cLoc, key, obj, owner>> /\ key \in Locs
      /\ pc = "delete" /\ pc' \in {"delete", "relist"}
      /\ head \in list /\ head \in Pods
      /\ RemoveFromApi(head) /\ Remember(head)
  BY DEF DeletePod, Die, caches, LoopInv
<1>2. UNCHANGED <<Asked, Heard, Goal>>
  BY <1>1 DEF Asked, Heard, Goal
<1>3. /\ Goal # Contract!Idle /\ Goal.replicas = obj.replicas
      /\ Goal.home = [loc |-> key, uid |-> obj.uid]
  BY <1>1, GoalIdle
<1>4. owner[head] = Goal.home /\ (pod[head] \in Live \/ head \in taken)
  BY <1>1, <1>3 DEF ListInv, OwnedBy
<1>5. Serving' = Serving \ {head} /\ head \notin Serving'
  BY <1>1 DEF Serving, Live, RemoveFromApi
<1>6. Cardinality(Contract!Kept(Goal.home)') >= Goal.replicas
  <2>1. Cardinality({p \in OwnedBy(key, obj.uid) : pod'[p] \in Live \/ p \in taken'})
          >= obj.replicas
    BY DeletionLeaves
  <2>2. Contract!Kept(Goal.home)' =
          {p \in OwnedBy(key, obj.uid) : pod'[p] \in Live \/ p \in taken'}
    BY <1>1, <1>2, <1>3 DEF Contract!Kept, OwnedBy, Serving
  <2> QED
    BY <2>1, <2>2, <1>3
<1>7. \/ UNCHANGED taken
      \/ /\ Cardinality(Made \ Serving') > CacheSize
         /\ \E q \in Pods : owner[q] # Nobody /\ q \notin Serving' /\ taken' = taken \cup {q}
  <2> DEFINE known == deleted \cup {head}
  <2>1. ASSUME NEW q \in known PROVE q \in Pods /\ owner[q] # Nobody /\ q \notin Serving'
    <3>1. CASE q = head
      BY <1>1, <1>3, <1>4, <1>5, <3>1, LocsAssumption DEF Nobody
    <3>2. CASE q \in deleted
      <4>1. q \in Pods /\ pod[q] \in {"Terminating", "Orphan", "gone"}
        BY <3>2 DEF DyingInv
      <4>2. owner[q].loc \in Locs
        BY <4>1 DEF MadeInv, Pods
      <4> QED
        BY <1>5, <4>1, <4>2, LocsAssumption DEF Nobody, Serving, Live
    <3> QED
      BY <3>1, <3>2
  <2>2. known \subseteq Made \ Serving'
    BY <2>1
  <2>3. Cardinality(known) <= Cardinality(Made \ Serving')
    BY <2>2, PodSubset
  <2>4. Cardinality(known) \in Nat /\ Cardinality(Made \ Serving') \in Nat
    BY <2>1, PodSets
  <2>5. CASE deleted' = known
    BY <1>1, <2>5 DEF Remember
  <2>6. ASSUME Cardinality(known) > CacheSize, NEW q \in deleted \ {head},
               deleted' = known \ {q}
        PROVE  /\ Cardinality(Made \ Serving') > CacheSize
               /\ owner[q] # Nobody /\ q \notin Serving' /\ q \in Pods
               /\ taken' = taken \cup {q}
    <3>1. taken' = taken \cup {q}
      BY <1>1, <2>6 DEF Remember
    <3> QED
      BY <2>1, <2>3, <2>4, <2>6, <3>1, CacheAssumption
  <2> QED
    BY <1>1, <2>5, <2>6 DEF Remember
<1> QED
  BY <1>1, <1>2, <1>3, <1>4, <1>5, <1>6, <1>7, SameCount DEF Contract!Shrink, Nobody

\* The other steps of the process: it hears of objects, takes one in hand,
\* leaves it, dies, or does what the contract does not see.
LEMMA ProcessSteps ==
  ASSUME Inv, TypeInv',
         \/ \E l \in Locs : \/ SyncLoc(l) \/ SyncSvc(l) \/ StartReconcile(l)
                            \/ KillSvc(l) \/ CleanOrphans(l) \/ CollectSvc(l)
         \/ \E p \in Pods : SyncPod(p)
         \/ ListPods \/ Relist \/ ListSvc \/ CreateSvc \/ RelistSvc
         \/ UpdateStatus \/ Crash \/ Restart
         \/ (CreatePod \/ DeletePod) /\ pc' = "down"
  PROVE  \/ Contract!Hear \/ Contract!Leave \/ \E l \in Locs : Contract!Take(l)
         \/ UNCHANGED <<Asked, Heard, Goal, owner, Serving, taken>>
<1> DEFINE Unseen == UNCHANGED <<Asked, Heard, Goal, owner, Serving, taken>>
           Ends == Die /\ UNCHANGED <<loc, pod, owner, taken>>
<1> USE DEF Inv, TypeInv, TypeOK
<1>d. Ends => Contract!Leave
  BY IsLeave DEF Asked, Serving
<1>u. ASSUME UNCHANGED <<loc, cLoc, pod, owner, taken, key>>,
             \/ UNCHANGED <<pc, obj>>
             \/ /\ pc \notin {"down", "idle"} /\ pc' \notin {"down", "idle"}
                /\ UNCHANGED obj \/ \E s : obj' = [obj EXCEPT !.status = s]
      PROVE  Unseen
  BY <1>u DEF Asked, Heard, Goal, Serving, Objects
<1>1. ASSUME NEW l \in Locs, SyncLoc(l) PROVE Contract!Hear
  <2>1. /\ cLoc' = [cLoc EXCEPT ![l] = loc[l]]
        /\ UNCHANGED <<loc, pc, key, obj, owner, pod, taken>>
    BY <1>1 DEF SyncLoc, api, local
  <2>2. Heard' = [Heard EXCEPT ![l] = Asked[l]]
    BY <2>1 DEF Heard, Asked
  <2>3. UNCHANGED <<Asked, Goal, Serving>>
    BY <2>1 DEF Asked, Goal, Serving
  <2> QED
    BY <2>1, <2>2, <2>3 DEF Contract!Hear
<1>2. Restart => Contract!Hear
  <2> SUFFICES ASSUME Restart PROVE Contract!Hear
    OBVIOUS
  <2>1. /\ cLoc' = loc /\ pc = "down" /\ pc' = "idle"
        /\ UNCHANGED <<loc, key, obj, owner, pod, taken>>
    BY DEF Restart, api
  <2>2. Heard' = Asked /\ Goal = Contract!Idle
    BY <2>1, GoalIdle DEF Heard, Asked
  <2>3. UNCHANGED <<Asked, Goal, Serving>>
    BY <2>1 DEF Asked, Goal, Serving
  <2> QED
    BY <2>1, <2>2, <2>3 DEF Contract!Hear
<1>3. ASSUME NEW l \in Locs, StartReconcile(l), ~Die PROVE Contract!Take(l)
  <2>1. /\ pc = "idle" /\ pc' = "list" /\ key' = l /\ obj' = cLoc[l]
        /\ Present(cLoc[l]) /\ ~cLoc[l].deleting
        /\ UNCHANGED <<loc, cLoc, owner, pod, taken>>
    BY <1>3 DEF StartReconcile, api, caches
  <2>2. Goal = Contract!Idle
    BY <2>1, GoalIdle
  <2>3. /\ Heard[l].uid = cLoc[l].uid /\ Heard[l].replicas = cLoc[l].replicas
        /\ Heard[l].deleting = cLoc[l].deleting
    BY DEF Heard, Wish
  <2>4. Goal' = [home |-> Contract!Home(l, Heard[l].uid), replicas |-> Heard[l].replicas]
    BY <2>1, <2>3 DEF Goal, Contract!Home
  <2>5. UNCHANGED <<Asked, Heard, Serving>>
    BY <2>1 DEF Asked, Heard, Serving
  <2> QED
    BY <2>1, <2>2, <2>3, <2>4, <2>5 DEF Contract!Take, Present
<1>4. UpdateStatus /\ ~Die => Contract!Leave
  <2> SUFFICES ASSUME UpdateStatus, ~Die PROVE Contract!Leave
    OBVIOUS
  <2>1. pc' = "idle" /\ UNCHANGED <<cLoc, owner, pod, taken>>
    BY DEF UpdateStatus, Return, caches
  <2>2. \A l \in Locs : Wish(loc[l])' = Wish(loc[l])
    BY UpdateKeepsSpec DEF Wish
  <2>3. UNCHANGED <<Asked, Heard, Serving>>
    BY <2>1, <2>2 DEF Asked, Heard, Serving
  <2>4. Goal' = Contract!Idle
    BY <2>1 DEF Goal, Contract!Idle, Nobody
  <2> QED
    BY <2>1, <2>3, <2>4 DEF Contract!Leave
<1>5. ASSUME NEW l \in Locs, SyncSvc(l) \/ KillSvc(l) \/ CollectSvc(l)
      PROVE  Ends \/ Unseen
  BY <1>5, <1>u DEF SyncSvc, KillSvc, CollectSvc, api, caches, local
<1>6. ASSUME NEW l \in Locs, CleanOrphans(l) PROVE Unseen
  <2>1. /\ UNCHANGED <<loc, cLoc, pc, key, obj, owner, taken>>
        /\ \A p \in Pods : pod'[p] \in Live <=> pod[p] \in Live
    BY <1>6 DEF CleanOrphans, caches, local, Live
  <2> QED
    BY <2>1 DEF Asked, Heard, Goal, Serving
<1>7. ASSUME NEW p \in Pods, SyncPod(p) PROVE Ends \/ Unseen
  BY <1>7, <1>u DEF SyncPod, api, local
<1>8. ASSUME NEW l \in Locs, StartReconcile(l), Die PROVE Ends
  BY <1>8 DEF StartReconcile, api
<1>9. ListPods \/ ListSvc \/ CreateSvc => Ends \/ Unseen
  BY <1>u DEF ListPods, ListSvc, CreateSvc, api, caches
<1>10. Relist \/ RelistSvc => Unseen
  <2> SUFFICES ASSUME Relist \/ RelistSvc PROVE Unseen
    OBVIOUS
  <2>1. /\ pc \notin {"down", "idle"} /\ pc' \notin {"down", "idle"}
        /\ UNCHANGED <<loc, cLoc, pod, owner, taken, key>>
    BY DEF Relist, RelistSvc, api, caches
  <2>2. obj' \in {obj} \/ \E s : obj' = [obj EXCEPT !.status = s]
    BY DEF Relist, RelistSvc
  <2> QED
    BY <1>u, <2>1, <2>2
<1>11. Crash => Ends
  BY DEF Crash, api
<1>12. (CreatePod \/ DeletePod) /\ pc' = "down" => Ends
  BY DEF CreatePod, DeletePod, LoopDone
<1>13. UpdateStatus /\ Die => Contract!Leave
  <2> SUFFICES ASSUME UpdateStatus, Die PROVE Contract!Leave
    OBVIOUS
  <2>1. \A l \in Locs : Wish(loc[l])' = Wish(loc[l])
    BY UpdateKeepsSpec DEF Wish
  <2>2. UNCHANGED <<Asked, owner, Serving, taken>>
    BY <2>1 DEF UpdateStatus, Asked, Serving
  <2> QED
    BY <2>2, IsLeave
<1> QED
  BY <1>d, <1>1, <1>2, <1>3, <1>4, <1>5, <1>6, <1>7, <1>8, <1>9, <1>10, <1>11,
     <1>12, <1>13

\* The initial state is one of the contract.
LEMMA ContractInit == Init => Contract!Init
BY NoWish DEF Init, Contract!Init, Asked, Heard, Goal, Serving, Nobody, Live,
   Contract!Idle

\* Every step is one of the contract or leaves what it speaks of alone.
LEMMA ContractStep ==
  Inv /\ [Next]_vars => [Contract!Next]_(Contract!vars)
<1> SUFFICES ASSUME Inv, [Next]_vars
             PROVE  \/ Contract!World \/ Contract!Hear \/ Contract!Leave
                    \/ \E l \in Locs : Contract!Take(l)
                    \/ \E p \in Pods : Contract!Grow(p) \/ Contract!Shrink(p)
                    \/ UNCHANGED <<Asked, Heard, Goal, owner, Serving, taken>>
  BY DEF Contract!Next, Contract!vars
<1>1. TypeInv /\ TypeInv'
  BY TypeStep DEF Inv
<1>2. CASE UNCHANGED vars
  BY <1>2 DEF vars, api, caches, local, Asked, Heard, Goal, Serving
<1>3. CASE \/ \E l \in Locs : \/ UserCreate(l) \/ UserScale(l) \/ UserDelete(l)
                             \/ UserOrphan(l) \/ Finalize(l)
           \/ \E p \in Pods : \/ KillPod(p) \/ EvictPod(p) \/ StartPod(p)
                             \/ RemovePod(p) \/ CollectPod(p)
  BY <1>1, <1>3, WorldSteps
<1>4. CASE (CreatePod \/ CreatePodLost) /\ pc' # "down"
  BY <1>1, <1>4, GrowSteps
<1>5. CASE DeletePod /\ pc' # "down"
  BY <1>5, ShrinkSteps
<1>6. CASE DeletePodLost
  BY <1>1, <1>6, LostSteps
<1>7. CASE \/ \E l \in Locs : \/ SyncLoc(l) \/ SyncSvc(l) \/ StartReconcile(l)
                             \/ KillSvc(l) \/ CleanOrphans(l) \/ CollectSvc(l)
           \/ \E p \in Pods : SyncPod(p)
           \/ ListPods \/ Relist \/ ListSvc \/ CreateSvc \/ RelistSvc
           \/ UpdateStatus \/ Crash \/ Restart
           \/ (CreatePod \/ DeletePod) /\ pc' = "down"
  BY <1>1, <1>7, ProcessSteps
<1>8. CreatePodLost => pc' # "down"
  BY DEF CreatePodLost, local
<1> QED
  BY <1>2, <1>3, <1>4, <1>5, <1>6, <1>7, <1>8 DEF Next, Users, Cluster, Watch, Worker

\* The controller keeps the contract of ReplicaContract, whatever caches,
\* crashes, lost answers and users do.
THEOREM ContractKept == Spec => KeepsContract
BY ContractInit, ContractStep, Invariance, PTL DEF Spec, KeepsContract, Contract!Spec
=============================================================================
