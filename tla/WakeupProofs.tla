---------------------------- MODULE WakeupProofs ----------------------------
(***************************************************************************)
(* No event is lost, for every number of objects, pods, incarnations and   *)
(* faults.  The controller only acts when an event wakes it up, and it     *)
(* counts from caches.  The invariant says of each object that it is       *)
(* expected to be looked at again, or that the reconcile in hand sees it   *)
(* as it is, or that it has what it asks for.                              *)
(***************************************************************************)
EXTENDS StorageLocationsProofs

\* How far a pod is on its way; it never goes back.
Age(phase) ==
  CASE phase = "none" -> 0 [] phase = "Pending" -> 1 [] phase = "Running" -> 2
    [] phase = "Failed" -> 3 [] phase = "Orphan" -> 4 [] phase = "Terminating" -> 5
    [] OTHER -> 6

\* The cache lags behind, and has to catch up as long as it differs.
AgeInv ==
  \A p \in Pods : cPod[p] # "Orphan" /\ (cPod[p] # pod[p] => Age(cPod[p]) < Age(pod[p]))

\* Of what there is no news the cache has the present state.
SyncInv ==
  pc # "down" => \A l \in Locs :
    /\ <<"loc", l>> \notin news => cLoc[l] = loc[l]
    /\ <<"svc", l>> \notin news => cSvc[l] = svc[l]

\* The key of the object is in the queue, or an event will put it there.
Expected(l) ==
  \/ l \in queue \/ <<"loc", l>> \in news \/ <<"svc", l>> \in news
  \/ \E p \in Pods : owner[p].loc = l /\ cPod[p] # pod[p]

\* A status that reports a set of pods.
Reports(status, kids) ==
  /\ status.replicas = Cardinality({p \in kids : pod[p] = "Running"})
  /\ status.pods = {p \in kids : pod[p] # "Pending"}
  /\ status.blanks = Cardinality({p \in kids : pod[p] = "Pending"})

\* The reconcile in hand has seen the object as it is, and made of it what it
\* asks for.
Seen ==
  /\ obj.uid = loc[key].uid /\ obj.gen = loc[key].gen
  /\ obj.replicas = loc[key].replicas
  /\ pc = "delete" => \A p \in list : owner[p].loc = key /\ cPod[p] \in Live
  /\ pc \notin {"list", "create", "delete"} =>
       Cardinality(Alive(key, obj.uid)) = obj.replicas
  /\ pc \in {"slist", "screate", "srelist", "update"} =>
       Reports(obj.status, Alive(key, obj.uid))
  /\ pc \in {"srelist", "update"} => svc[key] = obj.uid
  /\ pc = "update" => obj.status.service

\* It has, unless somebody will tell it of something else.
SeenInv == pc \notin {"down", "idle"} /\ ~Expected(key) => Seen

\* An object that nobody looks at, and nobody will, has what it asks for.
RestInv ==
  pc # "down" => \A l \in Locs :
    Present(loc[l]) /\ ~Expected(l) /\ (pc = "idle" \/ key # l) => Settled(l)

WakeInv == AgeInv /\ SyncInv /\ SeenInv /\ RestInv

\* Nothing about the object, its service and its pods changes.
Same(l) ==
  /\ loc'[l] = loc[l] /\ svc'[l] = svc[l]
  /\ \A p \in Pods : owner[p].loc = l \/ owner'[p].loc = l =>
       owner'[p] = owner[p] /\ pod'[p] = pod[p] /\ cPod'[p] = cPod[p]

-----------------------------------------------------------------------------
(* What the steps do, by what they leave alone.                            *)

\* Steps that change objects or services, and tell of it.
LEMMA ToldSteps ==
  ASSUME TypeInv, pc # "down", NEW m \in Locs,
         \/ UserCreate(m) \/ UserScale(m) \/ UserDelete(m) \/ UserOrphan(m)
         \/ Finalize(m) \/ KillSvc(m) \/ CollectSvc(m)
  PROVE  /\ UNCHANGED <<cLoc, cPod, cSvc, queue, owner, local>> /\ news \subseteq news'
         /\ \A l \in Locs : <<"loc", l>> \notin news' => loc'[l] = loc[l]
         /\ \A l \in Locs : <<"svc", l>> \notin news' => svc'[l] = svc[l]
         /\ pod' = pod \/ UserOrphan(m)
BY DEF UserCreate, UserScale, UserDelete, UserOrphan, Finalize, KillSvc, CollectSvc,
       Tell, caches, local, TypeInv, TypeOK

\* The steps of one pod, made by others than the controller.
LEMMA PhaseSteps ==
  ASSUME TypeInv, NEW p \in Pods,
         KillPod(p) \/ EvictPod(p) \/ StartPod(p) \/ RemovePod(p) \/ CollectPod(p)
  PROVE  /\ UNCHANGED <<loc, svc, owner, cLoc, cPod, cSvc, news, queue, local>>
         /\ \E f \in Phases : pod' = [pod EXCEPT ![p] = f] /\ Age(f) > Age(pod[p])
BY DEF KillPod, EvictPod, StartPod, RemovePod, CollectPod, caches, local, Live,
       Phases, Age

\* The controller's own steps with pods.
LEMMA OwnPodSteps ==
  ASSUME TypeInv, CreatePod \/ CreatePodLost \/ DeletePod \/ DeletePodLost, pc' # "down"
  PROVE  /\ UNCHANGED <<loc, svc, cLoc, cPod, cSvc, news, queue, key, obj>>
         /\ pc \in {"create", "delete"} /\ pc' \in {pc, "relist"} /\ key \in Locs
         /\ \/ \E p \in Pods :
                 /\ pod[p] = "none" /\ cPod[p] = "none" /\ owner[p] = Nobody
                 /\ pod' = [pod EXCEPT ![p] = "Pending"]
                 /\ owner' = [owner EXCEPT ![p] = [loc |-> key, uid |-> obj.uid]]
                 /\ list' = list /\ pc = "create"
            \/ /\ owner' = owner /\ pc = "delete"
               /\ list' \subseteq list
               /\ head \in list /\ pod[head] \notin {"none", "gone"}
               /\ pod' = [pod EXCEPT ![head] = IF @ = "Orphan" THEN @ ELSE "Terminating"]
<1> USE DEF TypeInv, TypeOK
<1>1. CASE CreatePod \/ CreatePodLost
  <2>1. /\ StorePod /\ pc = "create" /\ pc' \in {"create", "relist"}
        /\ UNCHANGED <<loc, svc, cLoc, cPod, cSvc, news, queue, key, obj, list>>
    BY <1>1 DEF CreatePod, CreatePodLost, Die, caches, local
  <2>2. made' \in Pods /\ made' > made
    BY <2>1, PodsAssumption DEF StorePod, Pods
  <2>3. pod[made'] = "none" /\ cPod[made'] = "none" /\ owner[made'] = Nobody
    BY <2>2 DEF MadeInv
  <2> QED
    BY <2>1, <2>2, <2>3 DEF StorePod
<1>2. CASE DeletePod \/ DeletePodLost
  <2>1. /\ pc = "delete" /\ pc' \in {"delete", "relist"} /\ list # {} /\ Exists(head)
        /\ RemoveFromApi(head) /\ list' \subseteq list
        /\ UNCHANGED <<loc, svc, owner, cLoc, cPod, cSvc, news, queue, key, obj>>
    BY <1>2 DEF DeletePod, DeletePodLost, Die, caches, local
  <2>2. head \in list
    BY <2>1 DEF LoopInv
  <2> QED
    BY <2>1, <2>2 DEF Exists, RemoveFromApi
<1> QED
  BY <1>1, <1>2

\* The steps of the worker that leave the cluster alone.
LEMMA LookSteps ==
  ASSUME ListPods \/ Relist \/ ListSvc \/ RelistSvc, pc' # "down"
  PROVE  /\ UNCHANGED <<api, caches, news, queue, key>>
         /\ pc \notin {"down", "idle"} /\ pc' \notin {"down", "idle"}
BY DEF ListPods, Relist, ListSvc, RelistSvc, Die, caches

\* The steps of the reconcile in hand.
LEMMA ReconcileSteps ==
  ASSUME [Next]_vars, pc # "down", pc' # "down"
  PROVE  \/ UNCHANGED local \/ \E l \in Locs : StartReconcile(l)
         \/ ListPods \/ CreatePod \/ DeletePod \/ Relist \/ ListSvc \/ CreateSvc
         \/ RelistSvc \/ UpdateStatus
<1>1. ASSUME NEW l \in Locs,
             \/ UserCreate(l) \/ UserScale(l) \/ UserDelete(l) \/ UserOrphan(l)
             \/ KillSvc(l) \/ CleanOrphans(l) \/ Finalize(l) \/ CollectSvc(l)
             \/ SyncLoc(l) \/ SyncSvc(l)
      PROVE  UNCHANGED local
  BY <1>1 DEF UserCreate, UserScale, UserDelete, UserOrphan, KillSvc, CleanOrphans,
              Finalize, CollectSvc, SyncLoc, SyncSvc, Die
<1>2. ASSUME NEW p \in Pods,
             \/ KillPod(p) \/ EvictPod(p) \/ StartPod(p) \/ RemovePod(p)
             \/ CollectPod(p) \/ SyncPod(p)
      PROVE  UNCHANGED local
  BY <1>2 DEF KillPod, EvictPod, StartPod, RemovePod, CollectPod, SyncPod, Die
<1>3. CreatePodLost \/ DeletePodLost => UNCHANGED local
  BY DEF CreatePodLost, DeletePodLost
<1>4. ~Crash /\ ~Restart
  BY DEF Crash, Restart, Die
<1> QED
  BY <1>1, <1>2, <1>3, <1>4 DEF Next, Users, Cluster, Watch, Worker, vars

\* Only Restart ends the absence of the manager.
LEMMA UpAgain ==
  ASSUME [Next]_vars, pc = "down", pc' # "down"
  PROVE  Restart
<1>1. ASSUME NEW m \in Locs,
             \/ UserCreate(m) \/ UserScale(m) \/ UserDelete(m) \/ UserOrphan(m)
             \/ KillSvc(m) \/ CleanOrphans(m) \/ Finalize(m) \/ CollectSvc(m)
             \/ SyncLoc(m) \/ SyncSvc(m) \/ StartReconcile(m)
      PROVE  FALSE
  BY <1>1 DEF UserCreate, UserScale, UserDelete, UserOrphan, KillSvc,
     CleanOrphans, Finalize, CollectSvc, SyncLoc, SyncSvc, StartReconcile, local
<1>2. ASSUME NEW p \in Pods,
             \/ KillPod(p) \/ EvictPod(p) \/ StartPod(p) \/ RemovePod(p)
             \/ CollectPod(p) \/ SyncPod(p)
      PROVE  FALSE
  BY <1>2 DEF KillPod, EvictPod, StartPod, RemovePod, CollectPod, SyncPod, local
<1>3. ~(\/ ListPods \/ CreatePod \/ CreatePodLost \/ DeletePod \/ DeletePodLost
        \/ Relist \/ ListSvc \/ CreateSvc \/ RelistSvc \/ UpdateStatus \/ Crash)
  BY DEF ListPods, CreatePod, CreatePodLost, DeletePod, DeletePodLost, Relist,
     ListSvc, CreateSvc, RelistSvc, UpdateStatus, Crash, Die
<1>4. ~UNCHANGED vars
  BY DEF vars, local
<1> QED
  BY <1>1, <1>2, <1>3, <1>4 DEF Next, Users, Cluster, Watch, Worker

-----------------------------------------------------------------------------
(* Calm: steps after which nobody expects an object left it alone.         *)

\* What keeps an object expected.
LEMMA StillExpected ==
  ASSUME NEW l \in Locs, queue \subseteq queue', news \subseteq news',
         \A p \in Pods : owner[p].loc = l /\ cPod[p] # pod[p] =>
           owner'[p].loc = l /\ cPod'[p] # pod'[p],
         ~Expected(l)'
  PROVE  ~Expected(l)
BY DEF Expected

\* Unless the worker takes up the object, it is expected after a step or has
\* not been changed by it.
LEMMA StepCalm ==
  ASSUME TypeInv, TypeInv', AgeInv, [Next]_vars, pc # "down", pc' # "down",
         NEW l \in Locs, ~Expected(l)', ~StartReconcile(l)
  PROVE  ~Expected(l) /\ Same(l)
<1> USE DEF TypeInv, TypeOK
<1> DEFINE Calm == ~Expected(l) /\ Same(l)
<1>1. ASSUME UNCHANGED <<loc, svc, pod, owner, cPod, news, queue>>
      PROVE  Calm
  BY <1>1 DEF Expected, Same
<1>2. ASSUME NEW m \in Locs,
             \/ UserCreate(m) \/ UserScale(m) \/ UserDelete(m) \/ Finalize(m)
             \/ KillSvc(m) \/ CollectSvc(m)
      PROVE  Calm
  <2>1. /\ UNCHANGED <<pod, owner, cPod, queue>> /\ news \subseteq news'
        /\ <<"loc", l>> \notin news' => loc'[l] = loc[l]
        /\ <<"svc", l>> \notin news' => svc'[l] = svc[l]
    <3>1. UNCHANGED pod
      BY <1>2 DEF UserCreate, UserScale, UserDelete, Finalize, KillSvc, CollectSvc
    <3> QED
      BY <1>2, <3>1, ToldSteps
  <2>2. ~Expected(l)
    BY <2>1, StillExpected
  <2> QED
    BY <2>1, <2>2 DEF Expected, Same
<1>3. ASSUME NEW m \in Locs, UserOrphan(m) PROVE Calm
  <2>1. /\ UNCHANGED <<owner, cPod, queue>> /\ news \subseteq news'
        /\ <<"loc", l>> \notin news' => loc'[l] = loc[l]
        /\ <<"svc", l>> \notin news' => svc'[l] = svc[l]
    BY <1>3, ToldSteps
  <2>2. /\ pod' = [p \in Pods |-> IF p \in Alive(m, loc[m].uid) THEN "Orphan" ELSE pod[p]]
        /\ <<"loc", m>> \in news'
    BY <1>3 DEF UserOrphan
  <2>3. \A p \in Pods : cPod[p] # pod[p] => cPod[p] # pod'[p]
    BY <2>2 DEF AgeInv
  <2>4. ~Expected(l)
    BY <2>1, <2>3, StillExpected
  <2>5. l # m
    BY <2>2 DEF Expected
  <2>6. \A p \in Pods : owner[p].loc = l => pod'[p] = pod[p]
    BY <2>2, <2>5 DEF Alive, OwnedBy
  <2> QED
    BY <2>1, <2>4, <2>6 DEF Expected, Same
<1>4. ASSUME NEW p \in Pods,
             KillPod(p) \/ EvictPod(p) \/ StartPod(p) \/ RemovePod(p) \/ CollectPod(p)
      PROVE  Calm
  <2>1. /\ UNCHANGED <<loc, svc, owner, cPod, news, queue>>
        /\ \E f \in Phases : pod' = [pod EXCEPT ![p] = f] /\ Age(f) > Age(pod[p])
    BY <1>4, PhaseSteps
  <2>2. PICK f \in Phases : pod' = [pod EXCEPT ![p] = f] /\ Age(f) > Age(pod[p])
    BY <2>1
  <2>3. Age(cPod[p]) \in Nat /\ Age(pod[p]) \in Nat /\ Age(f) \in Nat
    BY DEF Age
  <2>4. cPod[p] # f
    BY <2>2, <2>3 DEF AgeInv
  <2>5. \A q \in Pods : cPod[q] # pod[q] => cPod[q] # pod'[q]
    BY <2>2, <2>4
  <2>6. ~Expected(l)
    BY <2>1, <2>5, StillExpected
  <2>7. owner[p].loc # l
    BY <2>1, <2>2, <2>4 DEF Expected
  <2> QED
    BY <2>1, <2>2, <2>6, <2>7 DEF Same
<1>5. ASSUME NEW m \in Locs, SyncLoc(m) \/ SyncSvc(m) PROVE Calm
  <2>1. /\ UNCHANGED <<loc, svc, pod, owner, cPod>> /\ queue' = queue \cup {m}
        /\ \A e \in news : e \in news' \/ e \in {<<"loc", m>>, <<"svc", m>>}
    BY <1>5 DEF SyncLoc, SyncSvc, Die, api, EnqueueSelf, EnqueueOwnerOfSvc
  <2> QED
    BY <2>1 DEF Expected, Same
<1>6. ASSUME NEW p \in Pods, SyncPod(p) PROVE Calm
  <2>1. /\ UNCHANGED <<loc, svc, pod, owner, news>> /\ queue' = queue \cup {owner[p].loc}
        /\ cPod' = [cPod EXCEPT ![p] = pod[p]]
    BY <1>6 DEF SyncPod, Die, api, EnqueueOwner
  <2>2. owner[p].loc # l
    BY <2>1 DEF Expected
  <2> QED
    BY <2>1, <2>2 DEF Expected, Same
<1>7. ASSUME NEW m \in Locs, StartReconcile(m) PROVE Calm
  <2>1. UNCHANGED <<loc, svc, pod, owner, cPod, news>> /\ queue' = queue \ {m} /\ l # m
    BY <1>7 DEF StartReconcile, Die, api, caches
  <2> QED
    BY <2>1 DEF Expected, Same
<1>8. CASE ListPods \/ Relist \/ ListSvc \/ RelistSvc
  BY <1>1, <1>8, LookSteps DEF api, caches
<1>9. CASE CreatePod \/ CreatePodLost \/ DeletePod \/ DeletePodLost
  <2>1. UNCHANGED <<loc, svc, cPod, news, queue>> /\ key \in Locs
    BY <1>9, OwnPodSteps
  <2>2. ASSUME NEW p \in Pods,
               pod[p] = "none" /\ cPod[p] = "none" /\ owner[p] = Nobody,
               pod' = [pod EXCEPT ![p] = "Pending"],
               owner' = [owner EXCEPT ![p] = [loc |-> key, uid |-> obj.uid]]
        PROVE  Calm
    <3>1. key # l
      BY <2>1, <2>2 DEF Expected
    <3>2. owner[p].loc # l
      BY <2>2, LocsAssumption DEF Nobody
    <3> QED
      BY <2>1, <2>2, <3>1, <3>2 DEF Expected, Same
  <2>3. ASSUME owner' = owner, head \in list, pod[head] \notin {"none", "gone"},
               pod' = [pod EXCEPT ![head] = IF @ = "Orphan" THEN @ ELSE "Terminating"]
        PROVE  Calm
    <3>1. head \in Pods
      BY <2>3
    <3>2. cPod[head] # pod[head] => cPod[head] # pod'[head]
      BY <2>3, <3>1 DEF AgeInv, Age, Phases, Live
    <3>3. \A q \in Pods : cPod[q] # pod[q] => cPod[q] # pod'[q]
      BY <2>3, <3>2
    <3>4. ~Expected(l)
      BY <2>1, <2>3, <3>3, StillExpected
    <3>5. owner[head].loc = l => pod'[head] = pod[head]
      BY <2>1, <2>3, <3>1, <3>4 DEF Expected
    <3> QED
      BY <2>1, <2>3, <3>4, <3>5 DEF Same
  <2> QED
    BY <1>9, <2>2, <2>3, OwnPodSteps
<1>10. CASE CreateSvc
  <2>1. /\ UNCHANGED <<loc, pod, owner, cPod, queue>> /\ news' = news \cup {<<"svc", key>>}
        /\ \E u : svc' = [svc EXCEPT ![key] = u]
    BY <1>10 DEF CreateSvc, caches, Tell
  <2>2. key # l
    BY <2>1 DEF Expected
  <2> QED
    BY <2>1, <2>2 DEF Expected, Same
<1>11. CASE UpdateStatus
  <2>1. /\ UNCHANGED <<svc, pod, owner, cPod>> /\ queue \subseteq queue' /\ news \subseteq news'
        /\ UNCHANGED loc \/ <<"loc", key>> \in news'
        /\ \E o : loc' = [loc EXCEPT ![key] = o] \/ loc' = loc
    BY <1>11 DEF UpdateStatus, Die, Return, StoreObject, Requeue, Tell, caches
  <2>2. ~Expected(l)
    BY <2>1, StillExpected
  <2>3. loc'[l] = loc[l]
    BY <2>1 DEF Expected
  <2> QED
    BY <2>1, <2>2, <2>3 DEF Same
<1>12. ASSUME NEW m \in Locs, CleanOrphans(m) PROVE FALSE
  BY <1>12 DEF CleanOrphans
<1>13. ~Crash /\ ~Restart
  BY DEF Crash, Restart, Die
<1>14. CASE UNCHANGED vars
  BY <1>1, <1>14 DEF vars, api, caches
<1> QED
  BY <1>2, <1>3, <1>4, <1>5, <1>6, <1>7, <1>8, <1>9, <1>10, <1>11, <1>12, <1>13, <1>14
     DEF Next, Users, Cluster, Watch, Worker

-----------------------------------------------------------------------------
(* The parts of the invariant.                                             *)

\* Caches only ever lag behind.
LEMMA AgeStep == TypeInv /\ TypeInv' /\ AgeInv /\ [Next]_vars => AgeInv'
<1> SUFFICES ASSUME TypeInv, TypeInv', AgeInv, [Next]_vars PROVE AgeInv'
  OBVIOUS
<1> USE DEF TypeInv, TypeOK
<1>d. ASSUME Die PROVE AgeInv'
  <2>1. \A p \in Pods : cPod'[p] = "none" /\ pod'[p] \in Phases
    BY <1>d DEF Die
  <2> QED
    BY <2>1 DEF AgeInv, Age, Phases, Live
<1>1. CASE UNCHANGED <<pod, cPod>>
  BY <1>1 DEF AgeInv
<1>2. ASSUME NEW m \in Locs, UserOrphan(m) PROVE AgeInv'
  <2>1. /\ pod' = [p \in Pods |-> IF p \in Alive(m, loc[m].uid) THEN "Orphan" ELSE pod[p]]
        /\ cPod' = cPod
    BY <1>2 DEF UserOrphan, caches
  <2>2. \A p \in Alive(m, loc[m].uid) : pod[p] \in Live
    BY DEF Alive
  <2>3. ASSUME NEW p \in Alive(m, loc[m].uid) PROVE Age(cPod[p]) < Age("Orphan")
    BY <2>2 DEF AgeInv, Age, Live, Alive, OwnedBy
  <2> QED
    BY <2>1, <2>3 DEF AgeInv
<1>3. ASSUME NEW p \in Pods,
             KillPod(p) \/ EvictPod(p) \/ StartPod(p) \/ RemovePod(p) \/ CollectPod(p)
      PROVE  AgeInv'
  <2>1. cPod' = cPod /\ \E f \in Phases : pod' = [pod EXCEPT ![p] = f] /\ Age(f) > Age(pod[p])
    BY <1>3, PhaseSteps
  <2>2. PICK f \in Phases : pod' = [pod EXCEPT ![p] = f] /\ Age(f) > Age(pod[p])
    BY <2>1
  <2>3. Age(cPod[p]) \in Nat /\ Age(pod[p]) \in Nat /\ Age(f) \in Nat
    BY DEF Age
  <2>4. Age(cPod[p]) < Age(f)
    BY <2>2, <2>3 DEF AgeInv
  <2> QED
    BY <2>1, <2>2, <2>4 DEF AgeInv
<1>4. ASSUME NEW p \in Pods, SyncPod(p) PROVE AgeInv'
  <2>1. CASE Die
    BY <1>d, <2>1
  <2>2. CASE pod[p] # "Orphan" /\ pod' = pod /\ cPod' = [cPod EXCEPT ![p] = pod[p]]
    BY <2>2 DEF AgeInv
  <2> QED
    BY <1>4, <2>1, <2>2 DEF SyncPod, api
<1>5. ASSUME CreatePod \/ CreatePodLost \/ DeletePod \/ DeletePodLost, pc' # "down"
      PROVE  AgeInv'
  <2>1. cPod' = cPod
    BY <1>5, OwnPodSteps
  <2>2. ASSUME NEW p \in Pods, pod[p] = "none" /\ cPod[p] = "none",
               pod' = [pod EXCEPT ![p] = "Pending"]
        PROVE  AgeInv'
    BY <2>1, <2>2 DEF AgeInv, Age
  <2>3. ASSUME head \in list, pod[head] \notin {"none", "gone"},
               pod' = [pod EXCEPT ![head] = IF @ = "Orphan" THEN @ ELSE "Terminating"]
        PROVE  AgeInv'
    <3>1. head \in Pods
      BY <2>3
    <3>2. cPod[head] # "Orphan" /\ (cPod[head] # pod'[head] => Age(cPod[head]) < Age(pod'[head]))
      BY <2>3, <3>1 DEF AgeInv, Age, Phases, Live
    <3> QED
      BY <2>1, <2>3, <3>1, <3>2 DEF AgeInv
  <2> QED
    BY <1>5, <2>2, <2>3, OwnPodSteps
<1>6. ASSUME NEW m \in Locs, CleanOrphans(m) PROVE AgeInv'
  <2>1. /\ pod' = [p \in Pods |-> IF pod[p] = "Orphan" /\ owner[p].loc = m THEN "gone" ELSE pod[p]]
        /\ cPod' = cPod
    BY <1>6 DEF CleanOrphans, caches
  <2>2. ASSUME NEW p \in Pods, pod[p] = "Orphan" PROVE Age(cPod[p]) < Age("gone")
    BY <2>2 DEF AgeInv, Age
  <2> QED
    BY <2>1, <2>2 DEF AgeInv
<1>7. CASE Restart
  BY <1>7 DEF Restart, api, AgeInv
<1>8. CASE pc' = "down" /\ (CreatePod \/ CreatePodLost \/ DeletePod \/ DeletePodLost)
  BY <1>8, <1>d DEF CreatePod, CreatePodLost, DeletePod, DeletePodLost, LoopDone, local
<1> QED
  BY <1>d, <1>1, <1>2, <1>3, <1>4, <1>5, <1>6, <1>7, <1>8, PodSteps

\* The caches of objects and services change with the news of them.
LEMMA SyncStep == TypeInv /\ SyncInv /\ [Next]_vars => SyncInv'
<1> SUFFICES ASSUME TypeInv, SyncInv, [Next]_vars, pc' # "down",
                    NEW l \in Locs
             PROVE  /\ <<"loc", l>> \notin news' => cLoc'[l] = loc'[l]
                    /\ <<"svc", l>> \notin news' => cSvc'[l] = svc'[l]
  BY DEF SyncInv
<1> DEFINE Good == /\ <<"loc", l>> \notin news' => cLoc'[l] = loc'[l]
                   /\ <<"svc", l>> \notin news' => cSvc'[l] = svc'[l]
<1> USE DEF TypeInv, TypeOK, SyncInv
<1>1. CASE pc = "down"
  BY <1>1, UpAgain DEF Restart, api
<1>2. CASE pc # "down"
  <2>0. ASSUME UNCHANGED <<loc, svc, cLoc, cSvc, news>> PROVE Good
    BY <1>2, <2>0
  <2>1. ASSUME NEW m \in Locs,
               \/ UserCreate(m) \/ UserScale(m) \/ UserDelete(m) \/ UserOrphan(m)
               \/ Finalize(m) \/ KillSvc(m) \/ CollectSvc(m)
        PROVE  Good
    BY <1>2, <2>1, ToldSteps
  <2>2. ASSUME NEW p \in Pods,
               KillPod(p) \/ EvictPod(p) \/ StartPod(p) \/ RemovePod(p) \/ CollectPod(p)
        PROVE  Good
    BY <2>0, <2>2, PhaseSteps
  <2>3. ASSUME NEW m \in Locs, SyncLoc(m) \/ SyncSvc(m) PROVE Good
    BY <1>2, <2>3 DEF SyncLoc, SyncSvc, Die, api
  <2>4. ASSUME NEW p \in Pods, SyncPod(p) PROVE Good
    BY <2>0, <2>4 DEF SyncPod, Die, api
  <2>5. ASSUME NEW m \in Locs, StartReconcile(m) PROVE Good
    BY <2>0, <2>5 DEF StartReconcile, Die, api, caches
  <2>6. CASE ListPods \/ Relist \/ ListSvc \/ RelistSvc
    BY <2>0, <2>6, LookSteps DEF api, caches
  <2>7. CASE CreatePod \/ CreatePodLost \/ DeletePod \/ DeletePodLost
    BY <2>0, <2>7, OwnPodSteps
  <2>8. CASE CreateSvc
    BY <1>2, <2>8 DEF CreateSvc, caches, Tell
  <2>9. CASE UpdateStatus
    <3>1. /\ UNCHANGED <<svc, cLoc, cSvc>> /\ news \subseteq news'
          /\ UNCHANGED loc \/ <<"loc", key>> \in news'
        /\ \E o : loc' = [loc EXCEPT ![key] = o] \/ loc' = loc
      BY <2>9 DEF UpdateStatus, Die, Return, StoreObject, Tell, caches
    <3> QED
      BY <1>2, <3>1
  <2>10. ASSUME NEW m \in Locs, CleanOrphans(m) PROVE FALSE
    BY <1>2, <2>10 DEF CleanOrphans
  <2>11. ~Crash /\ ~Restart
    BY <1>2 DEF Crash, Restart, Die
  <2>12. CASE UNCHANGED vars
    BY <2>0, <2>12 DEF vars, api, caches
  <2> QED
    BY <2>1, <2>2, <2>3, <2>4, <2>5, <2>6, <2>7, <2>8, <2>9, <2>10, <2>11, <2>12
       DEF Next, Users, Cluster, Watch, Worker
<1> QED
  BY <1>1, <1>2

-----------------------------------------------------------------------------
(* What the reconcile in hand sees.                                        *)

\* Steps that leave the object alone leave its pods alone.
LEMMA SameKids ==
  ASSUME NEW l \in Locs, Same(l), NEW u
  PROVE  /\ Alive(l, u)' = Alive(l, u)
         /\ \A p \in Alive(l, u) : pod'[p] = pod[p]
BY DEF Alive, OwnedBy, Same

\* So what was reported of them is still true.
LEMMA SameReport ==
  ASSUME NEW l \in Locs, Same(l), NEW u, NEW s, Reports(s, Alive(l, u))
  PROVE  Reports(s, Alive(l, u))'
<1> DEFINE K == Alive(l, u)
<1>1. Alive(l, u)' = K /\ \A p \in K : pod'[p] = pod[p]
  BY SameKids
<1>2. /\ {p \in K : pod'[p] = "Running"} = {p \in K : pod[p] = "Running"}
      /\ {p \in K : pod'[p] # "Pending"} = {p \in K : pod[p] # "Pending"}
      /\ {p \in K : pod'[p] = "Pending"} = {p \in K : pod[p] = "Pending"}
  BY <1>1
<1> HIDE DEF K
<1> QED
  BY <1>1, <1>2 DEF Reports, K

\* A cache that is up to date shows the pods of the object as they are: no pod
\* alive is in deletedPodCache.
LEMMA ChildrenAlive ==
  ASSUME DyingInv, NEW l \in Locs, l = key, ~Expected(l)
  PROVE  /\ Children = Alive(key, obj.uid)
         /\ \A p \in Children : owner[p].loc = key /\ cPod[p] \in Live /\ cPod[p] = pod[p]
<1>1. \A p \in Pods : owner[p].loc = key => cPod[p] = pod[p]
  BY DEF Expected
<1>2. \A p \in Pods : pod[p] \in Live => p \notin deleted
  BY DEF DyingInv, Live
<1> QED
  BY <1>1, <1>2 DEF Children, IsChild, Alive, OwnedBy

\* The reconcile in hand either sees what is, or will be called again.
LEMMA SeenStep ==
  ASSUME TypeInv, TypeInv', DyingInv, AgeInv, SyncInv, SeenInv, [Next]_vars
  PROVE  SeenInv'
<1> SUFFICES ASSUME pc' \notin {"down", "idle"}, ~Expected(key)' PROVE Seen'
  BY DEF SeenInv
<1> USE DEF TypeInv, TypeOK
<1>1. CASE pc = "down"
  BY <1>1, UpAgain DEF Restart
<1>2. CASE pc = "idle"
  <2>1. \E l \in Locs : StartReconcile(l)
    BY <1>2, ReconcileSteps DEF local, ListPods, CreatePod, DeletePod, Relist, ListSvc,
       CreateSvc, RelistSvc, UpdateStatus
  <2>2. PICK l \in Locs : StartReconcile(l)
    BY <2>1
  <2>3. /\ pc' = "list" /\ key' = l /\ obj' = cLoc[l] /\ UNCHANGED <<loc, news>>
    BY <2>2 DEF StartReconcile, Die, api
  <2>4. <<"loc", l>> \notin news
    BY <2>3 DEF Expected
  <2>5. cLoc[l] = loc[l]
    BY <1>2, <2>4 DEF SyncInv
  <2> QED
    BY <2>3, <2>5 DEF Seen
<1>3. CASE pc \notin {"down", "idle"}
  <2>0. key \in Locs
    BY <1>3
  <2>1. key' = key /\ (UNCHANGED obj \/ Relist \/ RelistSvc) /\ ~UpdateStatus
    BY <1>3, ReconcileSteps DEF local, StartReconcile, ListPods, CreatePod, DeletePod, Relist,
       ListSvc, CreateSvc, RelistSvc, UpdateStatus, Die, Return
  <2>2. PICK l \in Locs : l = key
    BY <2>0
  <2>3. PICK u \in Uids : u = obj.uid
    BY DEF Objects
  <2>4. ~Expected(l)' /\ ~StartReconcile(l)
    BY <1>3, <2>1, <2>2 DEF StartReconcile
  <2>5. ~Expected(l) /\ Same(l)
    BY <1>3, <2>4, StepCalm
  <2>6. Seen
    BY <1>3, <2>2, <2>5 DEF SeenInv
  <2>7. Alive(l, u)' = Alive(l, u) /\ loc'[l] = loc[l] /\ svc'[l] = svc[l]
    BY <2>5, SameKids DEF Same
  <2>8. \A s : Reports(s, Alive(l, u)) => Reports(s, Alive(l, u))'
    BY <2>5, SameReport
  <2>9. CASE UNCHANGED local
    <3>1. UNCHANGED <<pc, key, obj, list>>
      BY <2>9 DEF local
    <3>2. pc = "delete" => \A p \in list : owner'[p].loc = key /\ cPod'[p] \in Live
      BY <2>2, <2>5, <2>6 DEF Seen, Same
    <3>3. Reports(obj.status, Alive(key, obj.uid)) => Reports(obj.status, Alive(key, obj.uid))'
      <4>1. PICK s : s = obj.status
        OBVIOUS
      <4> QED
        BY <4>1, <3>1, <2>2, <2>3, <2>8
    <3>4. Alive(key, obj.uid)' = Alive(key, obj.uid)
      BY <3>1, <2>2, <2>3, <2>7
    <3> QED
      BY <3>1, <3>2, <3>3, <3>4, <2>2, <2>6, <2>7 DEF Seen
  <2>10. CASE ListPods
    <3>1. /\ UNCHANGED <<pod, owner, cPod, obj>>
          /\ \/ pc' = "relist" /\ Cardinality(Children) - obj.replicas = 0
             \/ pc' = "create"
             \/ pc' = "delete" /\ list' = Children
      BY <2>1, <2>10, <1>3 DEF ListPods, Die, api, caches
    <3>2. /\ Children = Alive(key, obj.uid)
          /\ \A p \in Children : owner[p].loc = key /\ cPod[p] \in Live
      BY <2>2, <2>5, ChildrenAlive
    <3>3. Cardinality(Children) \in Nat /\ obj.replicas \in Int
      BY PodSets DEF Children, Objects
    <3>4. pc' = "relist" => Cardinality(Alive(key, obj.uid)) = obj.replicas
      BY <3>1, <3>2, <3>3
    <3>5. pc' = "delete" => \A p \in list' : owner'[p].loc = key /\ cPod'[p] \in Live
      BY <3>1, <3>2
    <3>6. Alive(key, obj.uid)' = Alive(key, obj.uid)
      BY <3>1, <2>1, <2>2, <2>3, <2>7
    <3> QED
      BY <3>1, <3>4, <3>5, <3>6, <2>1, <2>2, <2>6, <2>7 DEF Seen
  <2>11. CASE CreatePod \/ DeletePod
    <3>1. /\ \A p \in Pods : owner'[p].loc = l => cPod'[p] = pod'[p]
          /\ \A p \in Pods : owner[p].loc = l => cPod[p] = pod[p]
      BY <2>4, <2>5 DEF Expected
    <3>2. ASSUME NEW p \in Pods, cPod[p] = "none", pod' = [pod EXCEPT ![p] = "Pending"],
                 owner' = [owner EXCEPT ![p] = [loc |-> key, uid |-> obj.uid]], cPod' = cPod
          PROVE  FALSE
      BY <2>2, <3>1, <3>2
    <3>3. ASSUME pc = "delete", head \in list, cPod' = cPod, owner' = owner,
                 pod' = [pod EXCEPT ![head] = IF @ = "Orphan" THEN @ ELSE "Terminating"]
          PROVE  FALSE
      <4>1. head \in Pods /\ owner[head].loc = l /\ cPod[head] \in Live
        BY <2>2, <2>6, <3>3 DEF Seen
      <4> QED
        BY <4>1, <3>1, <3>3 DEF Live
    <3> QED
      BY <2>11, <1>3, <3>2, <3>3, OwnPodSteps
  <2>12. CASE Relist
    <3>1. /\ pc = "relist" /\ pc' = "slist" /\ UNCHANGED <<pod, owner>>
          /\ obj' = [obj EXCEPT !.status = PodStatus(@, Children, cPod)]
      BY <2>12 DEF Relist, api
    <3>2. /\ Children = Alive(key, obj.uid) /\ \A p \in Children : cPod[p] = pod[p]
      BY <2>2, <2>5, ChildrenAlive
    <3>3. /\ {p \in Children : cPod[p] = "Running"} = {p \in Children : pod[p] = "Running"}
          /\ {p \in Children : cPod[p] # "Pending"} = {p \in Children : pod[p] # "Pending"}
          /\ {p \in Children : cPod[p] = "Pending"} = {p \in Children : pod[p] = "Pending"}
      BY <3>2
    <3>4. /\ obj.status \in Status /\ obj'.status = PodStatus(obj.status, Children, cPod)
          /\ obj'.uid = obj.uid /\ obj'.gen = obj.gen /\ obj'.replicas = obj.replicas
      BY <3>1 DEF Objects
    <3>5. Reports(obj'.status, Children)
      BY <3>3, <3>4 DEF Reports, PodStatus, Status
    <3>6. Alive(key, obj.uid)' = Alive(key, obj.uid)
      BY <3>4, <2>1, <2>2, <2>3, <2>7
    <3>7. Reports(obj.status, Alive(key, obj.uid))'
      <4>1. PICK K : K = Children
        OBVIOUS
      <4>2. Alive(key, obj.uid)' = K /\ Reports(obj'.status, K)
        BY <4>1, <3>2, <3>5, <3>6
      <4> QED
        BY <4>2, <3>1 DEF Reports
    <3> QED
      BY <3>1, <3>4, <3>6, <3>7, <2>1, <2>2, <2>6, <2>7 DEF Seen
  <2>13. CASE ListSvc
    <3>1. /\ pc = "slist" /\ UNCHANGED <<pod, owner, obj, news>>
          /\ pc' \in {"screate", "srelist"} /\ (pc' = "srelist" => cSvc[key] = obj.uid)
      BY <2>13 DEF ListSvc, api
    <3>2. cSvc[key] = svc[key]
      BY <1>3, <2>2, <2>5 DEF SyncInv, Expected
    <3>3. Alive(key, obj.uid)' = Alive(key, obj.uid)
      BY <3>1, <2>1, <2>2, <2>3, <2>7
    <3>4. Reports(obj.status, Alive(key, obj.uid)) => Reports(obj.status, Alive(key, obj.uid))'
      BY <3>1, <3>3 DEF Reports
    <3> QED
      BY <3>1, <3>2, <3>3, <3>4, <2>1, <2>2, <2>6, <2>7 DEF Seen
  <2>14. CASE CreateSvc
    <3>1. <<"svc", key>> \in news'
      BY <1>3, <2>14 DEF CreateSvc, Tell
    <3> QED
      BY <2>2, <2>4, <3>1 DEF Expected
  <2>15. CASE RelistSvc
    <3>1. /\ pc = "srelist" /\ UNCHANGED <<pod, owner>>
          /\ \/ pc' = "update" /\ obj' = [obj EXCEPT !.status.service = TRUE]
             \/ pc' = "slist" /\ obj' = obj
      BY <2>15 DEF RelistSvc, api
    <3>2. /\ obj'.uid = obj.uid /\ obj'.gen = obj.gen /\ obj'.replicas = obj.replicas
          /\ obj'.status.replicas = obj.status.replicas
          /\ obj'.status.pods = obj.status.pods /\ obj'.status.blanks = obj.status.blanks
          /\ pc' = "update" => obj'.status.service
      BY <3>1 DEF Objects, Status
    <3>3. Alive(key, obj.uid)' = Alive(key, obj.uid)
      BY <3>2, <2>1, <2>2, <2>3, <2>7
    <3>4. Reports(obj.status, Alive(key, obj.uid)) => Reports(obj.status, Alive(key, obj.uid))'
      BY <3>1, <3>2, <3>3 DEF Reports
    <3> QED
      BY <3>1, <3>2, <3>3, <3>4, <2>1, <2>2, <2>6, <2>7 DEF Seen
  <2> QED
    BY <1>3, <2>1, <2>4, <2>9, <2>10, <2>11, <2>12, <2>13, <2>14, <2>15, ReconcileSteps
       DEF StartReconcile
<1> QED
  BY <1>1, <1>2, <1>3

-----------------------------------------------------------------------------
(* Objects at rest.                                                        *)

\* An object that is left alone keeps what it has.
LEMMA SameSettled ==
  ASSUME NEW l \in Locs, Same(l), Settled(l)
  PROVE  Settled(l)'
<1>1. loc'[l] = loc[l] /\ svc'[l] = svc[l]
  BY DEF Same
<1>2. PICK u : u = loc[l].uid
  OBVIOUS
<1> DEFINE K == Alive(l, u)
<1>3. Alive(l, u)' = K /\ \A p \in K : pod'[p] = pod[p]
  BY SameKids
<1>4. /\ {p \in K : pod'[p] = "Running"} = {p \in K : pod[p] = "Running"}
      /\ {p \in K : pod'[p] # "Pending"} = {p \in K : pod[p] # "Pending"}
      /\ {p \in K : pod'[p] = "Pending"} = {p \in K : pod[p] = "Pending"}
  BY <1>3
<1>5. Alive(l, loc[l].uid) = K /\ Alive(l, loc[l].uid)' = K
  BY <1>1, <1>2, <1>3
<1> HIDE DEF K
<1>6. PodStatus(NewStatus, K, pod') = PodStatus(NewStatus, K, pod)
  BY <1>4 DEF PodStatus
<1> QED
  BY <1>1, <1>5, <1>6 DEF Settled

\* A reconcile that ends without the prospect of another leaves its object
\* with what it asks for.
LEMMA UpdateSettles ==
  ASSUME TypeInv, SyncInv, Seen, UpdateStatus, pc' # "down",
         NEW l \in Locs, l = key, ~Expected(l), ~Expected(l)'
  PROVE  Settled(l)
<1> USE DEF TypeInv, TypeOK
<1>1. /\ pc = "update" /\ pc' = "idle"
      /\ \/ cLoc[l].status = obj.status \/ cLoc[l].gen > obj.gen
         \/ StoreObject \/ Requeue
  BY DEF UpdateStatus, Die, Return
<1>2. ~Requeue
  BY DEF Requeue, Expected
<1>3. StoreObject => StatusSubresource
  BY <1>1 DEF StoreObject, Tell, Expected
<1>4. cLoc[l] = loc[l]
  BY <1>1 DEF SyncInv, Expected
<1>5. /\ obj.uid = loc[l].uid /\ obj.gen = loc[l].gen /\ obj.replicas = loc[l].replicas
      /\ Cardinality(Alive(l, obj.uid)) = obj.replicas
      /\ Reports(obj.status, Alive(l, obj.uid)) /\ obj.status.service
      /\ svc[l] = obj.uid
  BY <1>1 DEF Seen
<1>6. obj.gen \in Nat /\ obj.status \in Status
  BY DEF Objects
<1>7. StatusSubresource \/ loc[l].status = obj.status
  BY <1>1, <1>2, <1>3, <1>4, <1>5, <1>6
<1>8. obj.status = [PodStatus(NewStatus, Alive(l, obj.uid), pod) EXCEPT !.service = TRUE]
  BY <1>5, <1>6 DEF Reports, PodStatus, NewStatus, Status
<1> QED
  BY <1>5, <1>7, <1>8 DEF Settled

\* An object that nobody looks at keeps what it has, or somebody will look.
LEMMA RestStep ==
  ASSUME TypeInv, TypeInv', AgeInv, SyncInv, SeenInv, RestInv, [Next]_vars
  PROVE  RestInv'
<1> SUFFICES ASSUME pc' # "down", NEW l \in Locs, Present(loc'[l]), ~Expected(l)',
                    pc' = "idle" \/ key' # l
             PROVE  Settled(l)'
  BY DEF RestInv
<1> USE DEF TypeInv, TypeOK
<1>1. CASE pc = "down"
  <2>1. Restart
    BY <1>1, UpAgain
  <2>2. l \in queue'
    BY <2>1 DEF Restart, api
  <2> QED
    BY <2>2 DEF Expected
<1>2. CASE pc # "down"
  <2>1. ~StartReconcile(l)
    BY DEF StartReconcile, Die
  <2>2. ~Expected(l) /\ Same(l)
    BY <1>2, <2>1, StepCalm
  <2>3. Present(loc[l])
    BY <2>2 DEF Same
  <2>4. CASE pc = "idle" \/ key # l
    BY <1>2, <2>2, <2>3, <2>4, SameSettled DEF RestInv
  <2>5. CASE pc # "idle" /\ key = l
    <3>1. UpdateStatus
      BY <1>2, <2>5, ReconcileSteps, LookSteps, OwnPodSteps
         DEF local, StartReconcile, CreateSvc
    <3>2. Seen
      BY <1>2, <2>2, <2>5 DEF SeenInv
    <3> QED
      BY <2>2, <2>5, <3>1, <3>2, UpdateSettles, SameSettled
  <2> QED
    BY <2>4, <2>5
<1> QED
  BY <1>1, <1>2

-----------------------------------------------------------------------------

\* Initially nothing is there to be looked at ...
LEMMA WakeInit == Init => WakeInv
BY DEF Init, WakeInv, AgeInv, SyncInv, SeenInv, RestInv, Present, NoObject

\* ... and every step keeps the invariant.
LEMMA WakeStep == Inv /\ Inv' /\ WakeInv /\ [Next]_vars => WakeInv'
BY AgeStep, SyncStep, SeenStep, RestStep DEF Inv, WakeInv

\* Every object is expected to be looked at, or seen as it is, or content.
THEOREM WakeInvariance == Spec => []WakeInv
BY Invariance, WakeInit, WakeStep, PTL DEF Spec

\* When caches are up to date and the worker has nothing to do, every object
\* has what it asks for: the controller never sleeps through a change.
THEOREM WakeupCorrect == Spec => []NoLostWakeup
<1>1. WakeInv => NoLostWakeup
  BY DEF WakeInv, RestInv, Expected, NoLostWakeup
<1> QED
  BY <1>1, WakeInvariance, PTL
=============================================================================
