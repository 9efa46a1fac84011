---------------------------- MODULE BoxroomProofs ----------------------------
(***************************************************************************)
(* What the controller promises it still promises with any number of       *)
(* backups and restores in its cluster.  All that they do to what it works *)
(* on is a step that users could make, but for one: RestoreService, which  *)
(* brings a service that no object owns.  The other way round, what the    *)
(* controller does to the cluster does not keep a restore from leaving     *)
(* what it wrote on record; the invariant for that is about missions only. *)
(***************************************************************************)
EXTENDS Boxroom, WakeupProofs, ReplicaContractProofs

\* What a restored service is to the controller.
ServiceAppears(l) ==
  /\ svc[l] = NoSvc
  /\ svc' = [svc EXCEPT ![l] = OrphanSvc]
  /\ Tell(<<"svc", l>>)
  /\ UNCHANGED <<loc, born, made, pod, owner, caches, queue, deleted, local,
                 taken, budget>>

\* The controller sees its own steps, those of its surroundings, and this one.
LEMMA BoxroomSteps ==
  ASSUME [BoxroomNext]_boxroomVars
  PROVE  [Next]_vars \/ \E l \in Locs : ServiceAppears(l)
<1>1. CASE ClusterStep
  BY <1>1 DEF ClusterStep
<1>2. ASSUME NEW m \in Missions, MissionStep(m) PROVE UNCHANGED vars
  BY <1>2 DEF MissionStep
<1>3. ASSUME NEW m \in Missions, NEW l \in Locs, RestoreObject(m, l) PROVE Next
  BY <1>3 DEF RestoreObject, Next, Users
<1>4. ASSUME NEW m \in Missions, NEW l \in Locs, RestoreService(m, l)
      PROVE  ServiceAppears(l)
  BY <1>4 DEF RestoreService, ServiceAppears
<1>5. CASE UNCHANGED boxroomVars
  BY <1>5 DEF boxroomVars
<1> QED
  BY <1>1, <1>2, <1>3, <1>4, <1>5 DEF BoxroomNext

\* The appearance of a service disturbs no layer of the invariant ...
LEMMA InvAppears ==
  ASSUME Inv, NEW l \in Locs, ServiceAppears(l)
  PROVE  Inv'
<1>1. /\ UNCHANGED <<loc, born, made, pod, owner, cLoc, cPod, cSvc, queue, deleted,
                     pc, key, obj, list, head, left, taken, budget>>
      /\ svc' = [svc EXCEPT ![l] = OrphanSvc] /\ Tell(<<"svc", l>>)
  BY DEF ServiceAppears, caches, local
<1>2. TypeInv'
  <2>1. news' \subseteq {"loc", "svc"} \X Locs
    BY <1>1, TellType DEF Inv
  <2>2. svc' \in [Locs -> Uids \cup {OrphanSvc}]
    BY <1>1 DEF Inv, TypeInv, TypeOK
  <2> QED
    BY <1>1, <2>1, <2>2 DEF Inv, TypeInv, TypeOK, MadeInv, LoopInv
<1>3. DyingInv' /\ CacheInv' /\ ListInv'
  BY <1>1 DEF Inv, DyingInv, CacheInv, ListInv, OwnedBy
<1>4. VersionInv'
  BY <1>1 DEF Inv, VersionInv, IsEarlier
<1> QED
  BY <1>2, <1>3, <1>4 DEF Inv

\* ... and the controller is told of it, or is not there to be told.
LEMMA WakeAppears ==
  ASSUME Inv, WakeInv, NEW l \in Locs, ServiceAppears(l)
  PROVE  WakeInv'
<1> USE DEF Inv, TypeInv, TypeOK
<1>1. /\ UNCHANGED <<loc, pod, owner, cLoc, cPod, cSvc, queue, pc, key, obj, list>>
      /\ svc' = [svc EXCEPT ![l] = OrphanSvc] /\ Tell(<<"svc", l>>)
  BY DEF ServiceAppears, caches, local
<1>2. CASE pc = "down"
  BY <1>1, <1>2 DEF WakeInv, AgeInv, SyncInv, SeenInv, RestInv
<1>3. CASE pc # "down"
  <2>1. news' = news \cup {<<"svc", l>>}
    BY <1>1, <1>3 DEF Tell
  <2>2. AgeInv'
    BY <1>1 DEF WakeInv, AgeInv
  <2>3. SyncInv'
    BY <1>1, <2>1 DEF WakeInv, SyncInv
  <2>4. ASSUME NEW m \in Locs, ~Expected(m)'
        PROVE  ~Expected(m) /\ svc'[m] = svc[m] /\ Same(m)
    BY <1>1, <2>1, <2>4 DEF Expected, Same
  <2>5. SeenInv'
    <3> SUFFICES ASSUME pc \notin {"down", "idle"}, ~Expected(key)' PROVE Seen'
      BY <1>1 DEF SeenInv
    <3>1. PICK m \in Locs : m = key /\ m = key'
      BY <1>1
    <3>2. Seen /\ svc'[key] = svc[key]
      BY <2>4, <3>1 DEF WakeInv, SeenInv
    <3>3. /\ Alive(key, obj.uid)' = Alive(key, obj.uid)
          /\ Reports(obj.status, Alive(key, obj.uid))' <=> Reports(obj.status, Alive(key, obj.uid))
      BY <1>1 DEF Alive, OwnedBy, Reports
    <3> QED
      BY <1>1, <3>2, <3>3 DEF Seen
  <2>6. RestInv'
    <3> SUFFICES ASSUME NEW m \in Locs, Present(loc[m]), ~Expected(m)',
                        pc = "idle" \/ key # m
                 PROVE  Settled(m)'
      BY <1>1 DEF RestInv
    <3>1. Settled(m) /\ Same(m)
      BY <1>3, <2>4 DEF WakeInv, RestInv
    <3> QED
      BY <3>1, SameSettled
  <2> QED
    BY <2>2, <2>3, <2>5, <2>6 DEF WakeInv
<1> QED
  BY <1>2, <1>3

\* Both invariants of the controller hold beside the missions.
THEOREM BoxroomInvariance == BoxroomSpec => [](Inv /\ WakeInv)
<1>1. BoxroomInit => Inv /\ WakeInv
  BY InvInit, WakeInit DEF BoxroomInit
<1>2. Inv /\ WakeInv /\ [BoxroomNext]_boxroomVars => (Inv /\ WakeInv)'
  BY BoxroomSteps, InvStep, WakeStep, InvAppears, WakeAppears
<1> QED
  BY <1>1, <1>2, PTL DEF BoxroomSpec

\* No restore makes the controller overwrite what a user, or the restore, did
\* to an object.
THEOREM BoxroomSpecEdit == BoxroomSpec => NoLostSpecEdit
<1> DEFINE Keeps == \A l \in Locs : /\ loc'[l].uid = loc[l].uid
                                    /\ loc'[l].replicas = loc[l].replicas
                                    /\ loc'[l].deleting = loc[l].deleting
<1>1. ASSUME Inv, UpdateStatus PROVE Keeps
  BY <1>1, UpdateKeepsSpec
<1>2. Inv /\ WakeInv => [UpdateStatus => Keeps]_vars
  BY <1>1
<1> QED
  BY <1>2, BoxroomInvariance, PTL DEF NoLostSpecEdit

\* Nor does one make it sleep through a change, hide a live pod, or hang on a
\* pod that nobody else removed.
THEOREM BoxroomSafe ==
  BoxroomSpec => [](NoLostWakeup /\ HiddenAreDying /\ WedgeOnlyByOthers)
<1>1. WakeInv => NoLostWakeup
  BY DEF WakeInv, RestInv, Expected, NoLostWakeup
<1>2. Inv => HiddenAreDying
  BY DEF Inv, DyingInv, HiddenAreDying, Live
<1>3. Inv => WedgeOnlyByOthers
  BY DEF Inv, TypeInv, LoopInv, ListInv, WedgeOnlyByOthers, Exists, Live
<1> QED
  BY <1>1, <1>2, <1>3, BoxroomInvariance, PTL

\* What users may rely on of the controller they may rely on beside missions.
THEOREM BoxroomContract == BoxroomSpec => KeepsContract
<1>1. BoxroomInit => Contract!Init
  BY ContractInit DEF BoxroomInit
<1>2. ASSUME NEW l \in Locs, ServiceAppears(l) PROVE UNCHANGED Contract!vars
  <2>1. UNCHANGED <<loc, cLoc, pc, key, obj, owner, pod, taken>>
    BY <1>2 DEF ServiceAppears, caches, local
  <2> QED
    BY <2>1 DEF Contract!vars, Asked, Heard, Goal, Serving
<1>3. Inv /\ WakeInv /\ [BoxroomNext]_boxroomVars => [Contract!Next]_(Contract!vars)
  BY <1>2, BoxroomSteps, ContractStep
<1> QED
  BY <1>1, <1>3, BoxroomInvariance, PTL DEF BoxroomSpec, KeepsContract, Contract!Spec
-----------------------------------------------------------------------------
(* What restores do is on record.                                          *)

\* A service without owner is the work of a restore: without users that orphan
\* their services, the controller and the rest of the cluster make none.
LEMMA OrphansStay ==
  ASSUME "orphan" \notin Faults, Inv, [Next]_vars,
         NEW l \in Locs, svc'[l] = OrphanSvc
  PROVE  svc[l] = OrphanSvc
<1> USE DEF Inv, TypeInv, TypeOK
<1>1. CASE svc' = svc
  BY <1>1
<1>2. ASSUME NEW k \in Locs, svc' = [svc EXCEPT ![k] = NoSvc] PROVE svc[l] = OrphanSvc
  BY <1>2 DEF NoSvc, OrphanSvc
<1>3. ASSUME NEW k \in Locs, KillSvc(k) \/ CollectSvc(k) PROVE svc[l] = OrphanSvc
  BY <1>2, <1>3 DEF KillSvc, CollectSvc
<1>4. ASSUME NEW k \in Locs, CleanOrphans(k) PROVE svc[l] = OrphanSvc
  BY <1>4 DEF CleanOrphans, NoSvc, OrphanSvc
<1>5. ASSUME NEW k \in Locs, UserOrphan(k) PROVE FALSE
  BY <1>5 DEF UserOrphan, Disturb
<1>6. ASSUME CreateSvc PROVE svc[l] = OrphanSvc
  <2>1. obj.uid # OrphanSvc
    BY UidAssumption DEF OrphanSvc, Objects, Uids
  <2>2. svc' = svc \/ svc' = [svc EXCEPT ![key] = obj.uid]
    BY <1>6 DEF CreateSvc, api
  <2> QED
    BY <2>1, <2>2
<1>7. CASE UNCHANGED vars
  BY <1>7 DEF vars, api
<1>8. CASE Users
  BY <1>1, <1>3, <1>4, <1>5, <1>8
  DEF Users, UserCreate, UserScale, UserDelete, KillPod, EvictPod
<1>9. CASE Cluster
  BY <1>1, <1>3, <1>9 DEF Cluster, Finalize, StartPod, RemovePod, CollectPod
<1>10. CASE Watch \/ Crash \/ Restart
  BY <1>1, <1>10 DEF Watch, SyncLoc, SyncSvc, SyncPod, Crash, Restart, api
<1>11. CASE Worker
  BY <1>1, <1>6, <1>11
  DEF Worker, StartReconcile, ListPods, CreatePod, CreatePodLost, DeletePod,
      DeletePodLost, Relist, ListSvc, RelistSvc, UpdateStatus, api
<1> QED
  BY <1>7, <1>8, <1>9, <1>10, <1>11 DEF Next

\* The steps of a restore before its uploads, and from its search for a name.
Early == {"idle", "find", "fetch", "discover", "list", "apply", "check"}
Late == {"check", "upload", "log", "status", "done"}

\* The data that a mission keeps, and the files of the store.
Shape ==
  /\ step \in [Missions -> M!Steps] /\ slot \in [Missions -> M!Slots]
  /\ DOMAIN tree = Missions /\ DOMAIN pending = Missions /\ DOMAIN work = Missions
  /\ DOMAIN sent = Missions /\ DOMAIN wrote = Missions
  /\ DOMAIN store = M!Slots /\ clock \in 0..MaxClock
  /\ \A s \in M!Slots : DOMAIN store[s] = {"json", "yaml", "log", "status"}

\* Restores store under a root of their own, and get to their log with the
\* archive uploaded or with nothing to store.
Placed(m) ==
  /\ m \in Backups => slot[m].kind = "backup" /\ step[m] \notin {"find", "fetch", "apply"}
  /\ m \notin Backups =>
       /\ step[m] \in Early => sent[m] = {}
       /\ step[m] \in Late \/ sent[m] # {} => slot[m].kind = "restore"
       /\ step[m] \in {"log", "status", "done"} /\ M!In(tree[m]) # {} => "json" \in sent[m]

\* What a restore wrote stays in its tree: only what is still to be compared
\* may leave it.
TreeKept(m) == m \notin Backups =>
  /\ step[m] \in {"idle", "find", "fetch"} => wrote[m] = {} /\ work[m] = {}
  /\ wrote[m] \cup work[m] \cup pending[m] \subseteq M!In(tree[m])
  /\ (wrote[m] \cup work[m]) \cap pending[m] = {}

\* The archive of a restore is its own tree, and only who raced it replaces it.
Restores == Missions \ Backups
ArchiveKept ==
  /\ \A m \in Restores, s \in M!Slots : store[s].json.by = m =>
       "json" \in sent[m] /\ slot[m] = s /\ store[s].json.tree = tree[m]
  /\ \A m \in Restores : "json" \in sent[m] =>
       LET n == store[slot[m]].json.by IN
       /\ n # NoMission
       /\ n = m \/ {m, n} \in raced \/ slot[m].name = Unnamed
  /\ \A m, n \in Restores :
       /\ step[n] = "upload" /\ slot[n] = slot[m] /\ m # n /\ slot[m].name # Unnamed
       /\ step[m] = "upload" \/ "json" \in sent[m]
       => {m, n} \in raced

\* A service without owner was written by a restore.
Caused == \A l \in Locs : svc[l] = OrphanSvc =>
  \E m \in Restores : Service(l) \in wrote[m]

MissionInv == Shape /\ \A m \in Missions : Placed(m) /\ TreeKept(m)
RecordInv == MissionInv /\ ArchiveKept

\* At first no restore has done anything.
LEMMA RecordInit == BoxroomInit => RecordInv /\ Caused
<1> SUFFICES ASSUME BoxroomInit PROVE RecordInv /\ Caused
  OBVIOUS
<1> USE DEF BoxroomInit, M!Init
<1>1. ASSUME NEW n \in Names \cup {Unnamed} PROVE M!Root(n) \in M!Slots /\ M!Root(n).kind = "backup"
  BY ClockAssumption DEF M!Root, M!Slots, M!NoStamp
<1>2. /\ step \in [Missions -> M!Steps] /\ slot \in [Missions -> M!Slots]
      /\ \A m \in Missions : slot[m].kind = "backup"
  BY <1>1 DEF M!Steps
<1>3. \A m \in Restores : step[m] = "idle" /\ sent[m] = {} /\ m \notin Earlier
  BY EarlierAssumption DEF Restores
<1>4. \A s \in M!Slots : store[s] = M!NoFiles \/ \E m \in Earlier : s = slot[m] /\ store[s] = M!Left(CHOOSE k \in Earlier : s = slot[k])
  OBVIOUS
<1>5. \A s \in M!Slots : DOMAIN store[s] = {"json", "yaml", "log", "status"}
  BY <1>4 DEF M!NoFiles, M!Left
<1>6. Shape
  <2>1. /\ DOMAIN tree = Missions /\ DOMAIN pending = Missions /\ DOMAIN work = Missions
        /\ DOMAIN sent = Missions /\ DOMAIN wrote = Missions
    OBVIOUS
  <2>2. DOMAIN store = M!Slots /\ clock \in 0..MaxClock
    BY ClockAssumption
  <2> QED
    BY <1>2, <1>5, <2>1, <2>2 DEF Shape
<1>7. ASSUME NEW m \in Missions PROVE Placed(m) /\ TreeKept(m)
  BY <1>2, <1>3, <1>7 DEF Placed, TreeKept, Late, Restores
<1>8. \A m \in Restores, s \in M!Slots : store[s].json.by # m
  <2> SUFFICES ASSUME NEW m \in Restores, NEW s \in M!Slots PROVE store[s].json.by # m
    OBVIOUS
  <2>1. m # NoMission /\ m \notin Earlier
    BY <1>3, MissionsAssumption DEF Restores
  <2>2. CASE store[s] = M!NoFiles
    BY <2>1, <2>2 DEF M!NoFiles, M!NoArchive
  <2>3. CASE \E e \in Earlier : s = slot[e]
    <3> DEFINE k == CHOOSE k \in Earlier : s = slot[k]
    <3>1. k \in Earlier /\ store[s] = M!Left(k)
      BY <2>3
    <3>2. store[s].json.by \in {k, NoMission}
      BY <3>1 DEF M!Left, M!NoArchive
    <3> HIDE DEF k
    <3> QED
      BY <2>1, <3>1, <3>2
  <2> QED
    BY <2>2, <2>3, <1>4
<1>9. ArchiveKept
  BY <1>3, <1>8 DEF ArchiveKept
<1>10. Caused
  BY DEF Init, Caused, NoSvc, OrphanSvc
<1> QED
  BY <1>6, <1>7, <1>9, <1>10 DEF RecordInv, MissionInv

\* A step of one mission leaves the others alone, but for the end of their
\* process.
Others(m) == \A n \in Missions \ {m} :
  /\ slot'[n] = slot[n] /\ tree'[n] = tree[n] /\ pending'[n] = pending[n]
  /\ work'[n] = work[n] /\ sent'[n] = sent[n] /\ wrote'[n] = wrote[n]
  /\ step'[n] \in {step[n], "crashed"}

\* The slots that a mission may go to.
LEMMA SlotSteps ==
  ASSUME Shape, NEW s \in M!Slots
  PROVE  /\ M!Named(s) \in M!Slots /\ M!Named(s).kind = s.kind /\ M!Named(s).name = s.name
         /\ [s EXCEPT !.kind = "restore", !.stamp = clock] \in M!Slots
<1>1. clock \in M!NoStamp..MaxClock
  BY ClockAssumption DEF Shape, M!NoStamp
<1> QED
  BY <1>1 DEF M!Slots, M!Named

\* A file that is stored has its place, and only that one.
LEMMA PutSteps ==
  ASSUME Shape, NEW s \in M!Slots, NEW file \in {"json", "yaml", "log", "status"},
         NEW content, M!Put(s, file, content)
  PROVE  /\ DOMAIN store' = M!Slots
         /\ \A t \in M!Slots : DOMAIN store'[t] = {"json", "yaml", "log", "status"}
         /\ \A t \in M!Slots : store'[t].json = IF t = s /\ file = "json" THEN content
                                                ELSE store[t].json
BY DEF Shape, M!Put

\* Every step of a mission keeps the shape of the data.
LEMMA ShapeSteps ==
  ASSUME Shape, NEW m \in Missions, M!Mission(m) \/ M!Kill(m)
  PROVE  Shape' /\ Others(m)
<1>1. ASSUME NEW q \in M!Steps, M!Goto(m, q)
      PROVE  /\ step' \in [Missions -> M!Steps]
             /\ \A n \in Missions \ {m} : step'[n] \in {step[n], "crashed"}
  BY <1>1 DEF Shape, M!Goto
<1>2. ASSUME M!DieWith(m)
      PROVE  /\ step' \in [Missions -> M!Steps]
             /\ \A n \in Missions \ {m} : step'[n] \in {step[n], "crashed"}
  BY <1>2 DEF Shape, M!DieWith, M!Steps
<1>3. ASSUME UNCHANGED <<slot, tree, pending, work, sent, wrote, store, clock>>,
             (\E q \in M!Steps : M!Goto(m, q)) \/ M!DieWith(m)
      PROVE  Shape' /\ Others(m)
  BY <1>1, <1>2, <1>3 DEF Shape, Others
<1>4. CASE M!Kill(m) \/ M!Start(m) \/ M!Error(m) \/ M!Discover(m) \/ M!FindBackup(m)
  BY <1>3, <1>4
  DEF M!Kill, M!Start, M!Error, M!Discover, M!FindBackup, M!shared, M!local, M!facts,
      M!Steps
<1>5. ASSUME NEW call \in M!Lists, M!ListResource(m, call[1], call[2])
      PROVE  Shape' /\ Others(m)
  <2>1. /\ UNCHANGED <<slot, pending, work, sent, wrote, store, clock>>
        /\ DOMAIN tree' = Missions /\ \A n \in Missions \ {m} : tree'[n] = tree[n]
    BY <1>5 DEF M!ListResource, Shape, M!shared
  <2>2. \E q \in M!Steps : M!Goto(m, q)
    BY <1>5 DEF M!ListResource, M!Steps
  <2> QED
    BY <2>1, <2>2, <1>1 DEF Shape, Others
<1>6. ASSUME M!CheckExist(m) PROVE Shape' /\ Others(m)
  <2>1. UNCHANGED <<tree, pending, work, sent, wrote, store, clock>>
    BY <1>6 DEF M!CheckExist
  <2>2. (\E q \in M!Steps : M!Goto(m, q)) \/ M!DieWith(m)
    BY <1>6 DEF M!CheckExist, M!Steps
  <2>3. slot' \in [Missions -> M!Slots] /\ \A n \in Missions \ {m} : slot'[n] = slot[n]
    <3>1. slot' = slot \/ slot' = [slot EXCEPT ![m] = M!Named(slot[m])]
      BY <1>6 DEF M!CheckExist
    <3>2. slot \in [Missions -> M!Slots]
      BY DEF Shape
    <3>3. M!Named(slot[m]) \in M!Slots
      BY <3>2, SlotSteps
    <3> QED
      BY <3>1, <3>2, <3>3
  <2> QED
    BY <2>1, <2>2, <2>3, <1>1, <1>2 DEF Shape, Others
<1>7. ASSUME NEW file \in {"json", "yaml"}, M!UploadArchive(m, file)
      PROVE  Shape' /\ Others(m)
  <2>1. /\ UNCHANGED <<slot, tree, pending, work, wrote, clock>>
        /\ DOMAIN sent' = Missions /\ \A n \in Missions \ {m} : sent'[n] = sent[n]
    BY <1>7 DEF M!UploadArchive, Shape, M!facts
  <2>2. \E q \in M!Steps : M!Goto(m, q)
    BY <1>7 DEF M!UploadArchive, M!Steps
  <2>3. M!Put(slot[m], file, [by |-> m, tree |-> tree[m]]) /\ slot[m] \in M!Slots
    BY <1>7 DEF M!UploadArchive, Shape
  <2>4. /\ DOMAIN store' = M!Slots
        /\ \A t \in M!Slots : DOMAIN store'[t] = {"json", "yaml", "log", "status"}
    BY <2>3, PutSteps
  <2> QED
    BY <2>1, <2>2, <2>4, <1>1 DEF Shape, Others
<1>8. ASSUME M!UploadLog(m) \/ M!UploadStatus(m) PROVE Shape' /\ Others(m)
  <2>1. UNCHANGED <<slot, tree, pending, work, sent, wrote, clock>>
    BY <1>8 DEF M!UploadLog, M!UploadStatus, M!local, M!facts
  <2>2. \E q \in M!Steps : M!Goto(m, q)
    BY <1>8 DEF M!UploadLog, M!UploadStatus, M!Steps
  <2>3. \/ UNCHANGED store
        \/ \E file \in {"log", "status"} : \E content : M!Put(slot[m], file, content)
    BY <1>8 DEF M!UploadLog, M!UploadStatus
  <2>4. /\ DOMAIN store' = M!Slots
        /\ \A t \in M!Slots : DOMAIN store'[t] = {"json", "yaml", "log", "status"}
    BY <2>3, PutSteps DEF Shape
  <2> QED
    BY <2>1, <2>2, <2>4, <1>1 DEF Shape, Others
<1>9. ASSUME M!Fetch(m) PROVE Shape' /\ Others(m)
  <2>1. /\ UNCHANGED <<slot, work, sent, wrote, store, clock>>
        /\ DOMAIN tree' = Missions /\ \A n \in Missions \ {m} : tree'[n] = tree[n]
        /\ DOMAIN pending' = Missions /\ \A n \in Missions \ {m} : pending'[n] = pending[n]
    BY <1>9 DEF M!Fetch, Shape, M!shared
  <2>2. (\E q \in M!Steps : M!Goto(m, q)) \/ M!DieWith(m)
    BY <1>9 DEF M!Fetch, M!Steps
  <2> QED
    BY <2>1, <2>2, <1>1, <1>2 DEF Shape, Others
<1>10. ASSUME NEW r, NEW n, M!OpenNode(m, r, n) PROVE Shape' /\ Others(m)
  BY <1>10 DEF M!OpenNode, Shape, Others
<1>11. ASSUME NEW o \in Objs, M!ApplyObject(m, o) PROVE Shape' /\ Others(m)
  <2>1. /\ UNCHANGED <<slot, tree, pending, sent, store, clock>>
        /\ DOMAIN work' = Missions /\ \A n \in Missions \ {m} : work'[n] = work[n]
    BY <1>11 DEF M!ApplyObject, Shape
  <2>2. step' = step \/ M!DieWith(m)
    BY <1>11 DEF M!ApplyObject, M!Create, M!Apply, M!Undefined
  <2>3. DOMAIN wrote' = Missions /\ \A n \in Missions \ {m} : wrote'[n] = wrote[n]
    BY <1>11 DEF M!ApplyObject, M!Create, M!Apply, M!Undefined, M!Stored, M!NotStored, Shape
  <2> QED
    BY <2>1, <2>2, <2>3, <1>2 DEF Shape, Others
<1>12. ASSUME M!RestoreApplied(m) PROVE Shape' /\ Others(m)
  <2>1. UNCHANGED <<tree, pending, work, sent, wrote, store, clock>>
    BY <1>12 DEF M!RestoreApplied, M!shared, M!facts
  <2>2. \E q \in M!Steps : M!Goto(m, q)
    BY <1>12 DEF M!RestoreApplied, M!Steps
  <2>3. slot' \in [Missions -> M!Slots] /\ \A n \in Missions \ {m} : slot'[n] = slot[n]
    BY <1>12, SlotSteps DEF M!RestoreApplied, Shape
  <2> QED
    BY <2>1, <2>2, <2>3, <1>1 DEF Shape, Others
<1> QED
  BY <1>4, <1>5, <1>6, <1>7, <1>8, <1>9, <1>10, <1>11, <1>12 DEF M!Mission

\* Others keep what they had.
LEMMA OthersKept ==
  ASSUME MissionInv, NEW m \in Missions, Shape', Others(m), Placed(m)', TreeKept(m)'
  PROVE  MissionInv'
<1>1. ASSUME NEW n \in Missions \ {m} PROVE Placed(n)' /\ TreeKept(n)'
  BY <1>1 DEF MissionInv, Others, Placed, TreeKept, Early, Late
<1> QED
  BY <1>1 DEF MissionInv

\* A mission goes to its next step with its slot and its tree as they are.
LEMMA PlacedOn ==
  ASSUME MissionInv, NEW m \in Missions, NEW q, M!Goto(m, q),
         UNCHANGED <<slot, tree, sent>>,
         q \in {"find", "fetch", "apply"} => m \notin Backups,
         q \in Early => step[m] \in Early,
         q \in Late /\ m \notin Backups => step[m] \in Late /\ (step[m] = "check" => M!In(tree[m]) = {}),
         q \in {"log", "status", "done"} /\ m \notin Backups =>
           step[m] \in {"log", "status", "done"} \/ M!In(tree[m]) = {}
  PROVE  Placed(m)'
BY DEF MissionInv, Shape, Placed, M!Goto, Early, Late

\* Each mission keeps to its place.
LEMMA PlacedSteps ==
  ASSUME MissionInv, NEW m \in Missions, M!Mission(m) \/ M!Kill(m)
  PROVE  Placed(m)'
<1> USE DEF Early, Late
<1>1. CASE step' = step /\ UNCHANGED <<slot, tree, sent>>
  BY <1>1 DEF MissionInv, Placed
<1>2. CASE M!DieWith(m) /\ UNCHANGED <<slot, tree, sent>>
  BY <1>2 DEF MissionInv, Placed, M!DieWith, Shape
<1>3. CASE M!Kill(m)
  BY <1>2, <1>3 DEF M!Kill, M!local
<1>4. CASE M!Start(m) \/ M!Error(m) \/ M!Discover(m) \/ M!FindBackup(m)
  <2>1. UNCHANGED <<slot, tree, sent>>
    BY <1>4 DEF M!Start, M!Error, M!Discover, M!FindBackup, M!local
  <2>2. CASE M!Start(m)
    BY <2>1, <2>2, PlacedOn DEF M!Start
  <2>3. CASE M!Error(m)
    BY <2>1, <2>3, PlacedOn DEF M!Error
  <2>4. CASE M!Discover(m)
    BY <2>1, <2>4, PlacedOn DEF M!Discover
  <2>5. CASE M!FindBackup(m)
    <3>1. m \notin Backups
      BY <2>5 DEF M!FindBackup, MissionInv, Placed
    <3> QED
      BY <2>1, <2>5, <3>1, PlacedOn DEF M!FindBackup
  <2> QED
    BY <1>4, <2>2, <2>3, <2>4, <2>5
<1>5. ASSUME NEW call \in M!Lists, M!ListResource(m, call[1], call[2]) PROVE Placed(m)'
  <2>1. /\ UNCHANGED <<slot, sent>> /\ step[m] = "list"
        /\ \E q \in {"list", "check", "apply"} :
             M!Goto(m, q) /\ (q = "check" => m \in Backups) /\ (q = "apply" => m \notin Backups)
    BY <1>5 DEF M!ListResource
  <2> QED
    BY <2>1 DEF MissionInv, Shape, Placed, M!Goto
<1>6. ASSUME M!CheckExist(m) PROVE Placed(m)'
  <2>1. UNCHANGED <<tree, sent>> /\ step[m] = "check"
    BY <1>6 DEF M!CheckExist
  <2>2. CASE UNCHANGED slot /\ M!In(tree[m]) = {} /\ M!Goto(m, "log")
    BY <2>1, <2>2, PlacedOn DEF MissionInv, Placed
  <2>3. CASE UNCHANGED slot /\ M!Goto(m, "failed")
    BY <2>1, <2>3, PlacedOn
  <2>4. CASE slot' = [slot EXCEPT ![m] = M!Named(slot[m])] /\ M!Goto(m, "upload")
    <3>1. slot'[m].kind = slot[m].kind
      BY <2>4, SlotSteps DEF MissionInv, Shape
    <3> QED
      BY <2>1, <2>4, <3>1 DEF MissionInv, Shape, Placed, M!Goto
  <2> QED
    BY <1>2, <1>6, <2>1, <2>2, <2>3, <2>4 DEF M!CheckExist
<1>7. ASSUME NEW file \in {"json", "yaml"}, M!UploadArchive(m, file) PROVE Placed(m)'
  <2>1. /\ UNCHANGED <<slot, tree>> /\ step[m] = "upload"
        /\ sent' = [sent EXCEPT ![m] = @ \cup {file}]
    BY <1>7 DEF M!UploadArchive
  <2>2. \E q \in {"log", "upload", "failed"} :
          M!Goto(m, q) /\ (q = "log" => sent'[m] = {"json", "yaml"})
    BY <1>7 DEF M!UploadArchive, M!AllSent
  <2> QED
    BY <2>1, <2>2 DEF MissionInv, Shape, Placed, M!Goto
<1>8. CASE M!UploadLog(m) \/ M!UploadStatus(m)
  <2>1. UNCHANGED <<slot, tree, sent>>
    BY <1>8 DEF M!UploadLog, M!UploadStatus, M!local
  <2>2. /\ step[m] \in {"log", "status"}
        /\ \E q \in {"status", "failed", "done"} : M!Goto(m, q)
    BY <1>8 DEF M!UploadLog, M!UploadStatus
  <2> QED
    BY <2>1, <2>2, PlacedOn
<1>9. ASSUME M!Fetch(m) PROVE Placed(m)'
  <2>1. UNCHANGED <<slot, sent>> /\ step[m] = "fetch"
    BY <1>9 DEF M!Fetch
  <2>2. (\E q \in {"failed", "discover"} : M!Goto(m, q)) \/ M!DieWith(m)
    BY <1>9 DEF M!Fetch
  <2> QED
    BY <2>1, <2>2 DEF MissionInv, Shape, Placed, M!Goto, M!DieWith
<1>10. ASSUME NEW r, NEW n, M!OpenNode(m, r, n) PROVE Placed(m)'
  <2>1. UNCHANGED <<step, slot, sent>> /\ step[m] = "apply"
    BY <1>10 DEF M!OpenNode
  <2> QED
    BY <2>1 DEF MissionInv, Placed
<1>11. ASSUME NEW o \in Objs, M!ApplyObject(m, o) PROVE Placed(m)'
  <2>1. UNCHANGED <<slot, tree, sent>> /\ (step' = step \/ M!DieWith(m))
    BY <1>11 DEF M!ApplyObject, M!Create, M!Apply, M!Undefined
  <2> QED
    BY <2>1, <1>1, <1>2
<1>12. ASSUME M!RestoreApplied(m) PROVE Placed(m)'
  <2>1. /\ UNCHANGED <<tree, sent>> /\ step[m] = "apply" /\ M!Goto(m, "check")
        /\ slot' = [slot EXCEPT ![m] = [slot[m] EXCEPT !.kind = "restore", !.stamp = clock]]
    BY <1>12 DEF M!RestoreApplied, M!facts
  <2>2. slot'[m].kind = "restore"
    BY <2>1 DEF MissionInv, Shape, M!Slots
  <2> QED
    BY <2>1, <2>2 DEF MissionInv, Shape, Placed, M!Goto
<1> QED
  BY <1>3, <1>4, <1>5, <1>6, <1>7, <1>8, <1>9, <1>10, <1>11, <1>12 DEF M!Mission

\* Nothing that a restore wrote leaves its tree.
LEMMA TreeSteps ==
  ASSUME MissionInv, NEW m \in Missions, M!Mission(m) \/ M!Kill(m)
  PROVE  TreeKept(m)' /\ wrote[m] \subseteq wrote'[m]
<1> SUFFICES ASSUME m \notin Backups PROVE TreeKept(m)' /\ wrote[m] \subseteq wrote'[m]
  <2>1. m \in Backups => ~\E o \in Objs : M!ApplyObject(m, o)
    BY DEF MissionInv, Placed, M!ApplyObject
  <2>2. m \in Backups => UNCHANGED wrote
    BY <2>1 DEF M!Mission, M!Kill, M!Start, M!Error, M!Discover, M!ListResource,
       M!CheckExist, M!UploadArchive, M!UploadLog, M!UploadStatus, M!FindBackup, M!Fetch,
       M!OpenNode, M!RestoreApplied, M!facts
  <2> QED
    BY <2>2 DEF TreeKept
<1> USE DEF M!In
<1>1. ASSUME UNCHANGED <<tree, pending, work, wrote>>,
             step'[m] \in {"idle", "find", "fetch"} => step[m] \in {"idle", "find", "fetch"}
      PROVE  TreeKept(m)' /\ wrote[m] \subseteq wrote'[m]
  BY <1>1 DEF MissionInv, TreeKept
<1>2. CASE M!Kill(m)
  BY <1>1, <1>2 DEF M!Kill, M!DieWith, M!local, M!facts
<1>3. CASE M!Start(m) \/ M!Error(m) \/ M!Discover(m) \/ M!FindBackup(m)
  BY <1>1, <1>3
  DEF M!Start, M!Error, M!Discover, M!FindBackup, M!Goto, M!local, M!facts, MissionInv, Shape
<1>4. ASSUME NEW call \in M!Lists, M!ListResource(m, call[1], call[2])
      PROVE  TreeKept(m)' /\ wrote[m] \subseteq wrote'[m]
  <2>1. UNCHANGED <<tree, pending, work, wrote>>
    BY <1>4 DEF M!ListResource
  <2>2. \E q \in {"list", "check", "apply"} : M!Goto(m, q)
    BY <1>4 DEF M!ListResource
  <2> QED
    BY <2>1, <2>2, <1>1 DEF M!Goto, MissionInv, Shape
<1>5. CASE M!CheckExist(m) \/ M!UploadLog(m) \/ M!UploadStatus(m) \/ M!RestoreApplied(m)
  <2>1. UNCHANGED <<tree, pending, work, wrote>>
    BY <1>5 DEF M!CheckExist, M!UploadLog, M!UploadStatus, M!RestoreApplied, M!local, M!facts
  <2>2. \/ \E q \in {"log", "failed", "upload", "status", "done", "check"} : M!Goto(m, q)
        \/ M!DieWith(m)
    BY <1>5 DEF M!CheckExist, M!UploadLog, M!UploadStatus, M!RestoreApplied
  <2> QED
    BY <2>1, <2>2, <1>1 DEF M!Goto, M!DieWith, MissionInv, Shape
<1>6. ASSUME NEW file \in {"json", "yaml"}, M!UploadArchive(m, file)
      PROVE  TreeKept(m)' /\ wrote[m] \subseteq wrote'[m]
  <2>1. UNCHANGED <<tree, pending, work, wrote>>
    BY <1>6 DEF M!UploadArchive, M!facts
  <2>2. \E q \in {"log", "failed", "upload"} : M!Goto(m, q)
    BY <1>6 DEF M!UploadArchive
  <2> QED
    BY <2>1, <2>2, <1>1 DEF M!Goto, MissionInv, Shape
<1>7. ASSUME M!Fetch(m) PROVE TreeKept(m)' /\ wrote[m] \subseteq wrote'[m]
  <2>1. /\ UNCHANGED <<work, wrote>> /\ step[m] = "fetch"
        /\ work[m] = {} /\ wrote[m] = {}
    BY <1>7 DEF M!Fetch, MissionInv, TreeKept
  <2>2. \/ UNCHANGED <<tree, pending>>
        \/ \E t : /\ tree' = [tree EXCEPT ![m] = t]
                  /\ pending' = [pending EXCEPT ![m] = M!In(t)]
    BY <1>7 DEF M!Fetch
  <2>3. pending'[m] \subseteq M!In(tree'[m])
    BY <2>1, <2>2 DEF MissionInv, TreeKept, Shape
  <2> QED
    BY <2>1, <2>3 DEF TreeKept
<1>8. ASSUME NEW r, NEW n, M!OpenNode(m, r, n)
      PROVE  TreeKept(m)' /\ wrote[m] \subseteq wrote'[m]
  <2> DEFINE node == M!Node(pending[m], r, n)
  <2>1. /\ UNCHANGED <<step, wrote>> /\ step[m] = "apply" /\ work[m] = {}
        /\ pending' = [pending EXCEPT ![m] = @ \ node]
        /\ \/ /\ work' = [work EXCEPT ![m] = node \ seen[m]]
              /\ tree' = [tree EXCEPT ![m] = M!Only(@, M!In(@) \ (node \cap seen[m]))]
           \/ UNCHANGED <<work, tree>>
    BY <1>8 DEF M!OpenNode, M!Missing, M!Prune
  <2>2. node \subseteq pending[m]
    BY DEF M!Node
  <2>3. M!In(tree[m]) \ (node \cap seen[m]) \subseteq M!In(tree'[m])
    BY <2>1 DEF M!Only, MissionInv, Shape
  <2> HIDE DEF node
  <2>4. /\ pending'[m] = pending[m] \ node
        /\ work'[m] \subseteq node \ seen[m]
    BY <2>1 DEF MissionInv, Shape
  <2> QED
    BY <2>1, <2>2, <2>3, <2>4 DEF MissionInv, TreeKept
<1>9. ASSUME NEW o \in Objs, M!ApplyObject(m, o)
      PROVE  TreeKept(m)' /\ wrote[m] \subseteq wrote'[m]
  <2>1. /\ UNCHANGED <<tree, pending>> /\ o \in work[m] /\ step[m] = "apply"
        /\ work' = [work EXCEPT ![m] = @ \ {o}]
        /\ wrote' = wrote \/ wrote' = [wrote EXCEPT ![m] = @ \cup {o}]
        /\ step' = step \/ M!DieWith(m)
    BY <1>9 DEF M!ApplyObject, M!Create, M!Apply, M!Undefined, M!Stored, M!NotStored
  <2>2. step'[m] \notin {"idle", "find", "fetch"}
    BY <2>1 DEF M!DieWith
  <2>3. work'[m] \subseteq work[m] /\ wrote[m] \subseteq wrote'[m] /\ wrote'[m] \subseteq wrote[m] \cup work[m]
    BY <2>1 DEF MissionInv, Shape
  <2> QED
    BY <2>1, <2>2, <2>3 DEF MissionInv, TreeKept
<1> QED
  BY <1>2, <1>3, <1>4, <1>5, <1>6, <1>7, <1>8, <1>9 DEF M!Mission

\* A step that uploads no archive, and by which no restore comes to upload.
LEMMA ArchiveStill ==
  ASSUME RecordInv, UNCHANGED <<sent, raced>>,
         \A s \in M!Slots : store'[s].json = store[s].json,
         \A m \in Restores :
           /\ sent[m] # {} => slot'[m] = slot[m] /\ tree'[m] = tree[m]
           /\ step'[m] = "upload" => step[m] = "upload" /\ slot'[m] = slot[m]
  PROVE  ArchiveKept'
BY DEF RecordInv, MissionInv, ArchiveKept, Shape, Restores

\* The archive of a restore stays on record in every step of a mission.
LEMMA ArchiveSteps ==
  ASSUME RecordInv, MissionInv', NEW m \in Missions, M!Mission(m) \/ M!Kill(m)
  PROVE  ArchiveKept'
<1> USE DEF RecordInv
<1>1. Shape /\ Shape' /\ Others(m) /\ \A n \in Missions : Placed(n) /\ Placed(n)'
  BY ShapeSteps DEF MissionInv
<1>2. ASSUME UNCHANGED <<sent, raced>>,
             \A s \in M!Slots : store'[s].json = store[s].json,
             sent[m] = {} \/ UNCHANGED <<slot, tree>>,
             step'[m] = "upload" => step[m] = "upload" /\ UNCHANGED slot
      PROVE  ArchiveKept'
  BY <1>1, <1>2, ArchiveStill DEF Others, Restores
<1>3. CASE M!Kill(m)
  BY <1>2, <1>3 DEF M!Kill, M!DieWith, M!shared, M!local, M!facts
<1>4. CASE M!Start(m) \/ M!Error(m) \/ M!Discover(m) \/ M!FindBackup(m)
  <2>1. UNCHANGED <<sent, raced, store, slot, tree>>
    BY <1>4 DEF M!Start, M!Error, M!Discover, M!FindBackup, M!shared, M!local, M!facts
  <2>2. step'[m] # "upload"
    BY <1>1, <1>4 DEF M!Start, M!Error, M!Discover, M!FindBackup, M!Goto, Shape
  <2> QED
    BY <2>1, <2>2, <1>2
<1>5. ASSUME NEW call \in M!Lists, M!ListResource(m, call[1], call[2]) PROVE ArchiveKept'
  <2>1. /\ UNCHANGED <<sent, raced, store, slot>> /\ step[m] = "list"
        /\ m \notin Backups => UNCHANGED tree
        /\ \E q \in {"list", "check", "apply"} : M!Goto(m, q)
    BY <1>5 DEF M!ListResource, M!shared
  <2>2. step'[m] # "upload"
    BY <1>1, <2>1 DEF M!Goto, Shape
  <2>3. m \in Restores => sent[m] = {}
    BY <1>1, <2>1 DEF Placed, Early, Restores
  <2> QED
    BY <1>1, <2>1, <2>2, <2>3, ArchiveStill DEF Others, Restores
<1>6. ASSUME M!CheckExist(m) PROVE ArchiveKept'
  <2>1. UNCHANGED <<store, sent, tree>> /\ step[m] = "check"
    BY <1>6 DEF M!CheckExist
  <2>2. CASE /\ UNCHANGED <<slot, raced>>
             /\ (\E q \in {"log", "failed"} : M!Goto(m, q)) \/ M!DieWith(m)
    BY <1>1, <1>2, <2>1, <2>2 DEF M!Goto, M!DieWith, Shape
  <2>3. CASE /\ ~M!Exists(slot[m]) /\ M!Goto(m, "upload")
             /\ slot' = [slot EXCEPT ![m] = M!Named(slot[m])]
             /\ raced' = raced \cup {{m, n} : n \in M!Uploading(slot'[m])}
    <3>1. \A n \in Missions \ {m} : step'[n] = step[n] /\ slot'[n] = slot[n]
      BY <1>1, <2>3 DEF M!Goto, Shape
    <3>2. CASE m \in Backups
      BY <2>1, <2>3, <3>1, <3>2, SMTT(30) DEF ArchiveKept, Restores
    <3>3. CASE m \notin Backups
      <4>1. sent[m] = {} /\ slot'[m] = M!Named(slot[m]) /\ slot'[m].name = slot[m].name
        <5>1. sent[m] = {}
          BY <1>1, <2>1, <3>3 DEF Placed, Early
        <5>2. slot \in [Missions -> M!Slots] /\ slot[m] \in M!Slots
          BY <1>1 DEF Shape
        <5>3. slot'[m] = M!Named(slot[m])
          BY <2>3, <5>2, Zenon
        <5>4. M!Named(slot[m]).name = slot[m].name
          BY <1>1, <5>2, SlotSteps, Zenon
        <5> QED
          BY <5>1, <5>3, <5>4
      <4>2. ASSUME NEW n \in Restores, n # m, slot[n] = slot'[m], step[n] = "upload"
            PROVE  {m, n} \in raced'
        BY <2>3, <4>2 DEF M!Uploading, Restores
      <4>3. ASSUME NEW n \in Restores, n # m, slot[n] = slot'[m], slot[n].name # Unnamed,
                   "json" \in sent[n]
            PROVE  FALSE
        <5>1. slot[n] = slot[m] /\ store[slot[n]].json.by # NoMission
          BY <4>1, <4>3 DEF M!Named, ArchiveKept
        <5>2. store[slot[m]] = M!NoFiles
          BY <2>3, <4>1, <4>3, <5>1 DEF M!Exists
        <5> QED
          BY <5>1, <5>2 DEF M!NoFiles, M!NoArchive
      <4>4. \A k \in Restores : "json" \in sent[k] => k # m /\ slot'[k] = slot[k]
        BY <3>1, <4>1 DEF Restores
      <4>5. \A k \in Restores, s \in M!Slots : store'[s].json.by = k =>
              "json" \in sent'[k] /\ slot'[k] = s /\ store'[s].json.tree = tree'[k]
        BY <2>1, <4>4 DEF ArchiveKept
      <4>6. \A k \in Restores : "json" \in sent'[k] =>
              LET n == store'[slot'[k]].json.by IN
              /\ n # NoMission
              /\ n = k \/ {k, n} \in raced' \/ slot'[k].name = Unnamed
        BY <2>1, <2>3, <4>4 DEF ArchiveKept
      <4>7. \A k, n \in Restores :
              /\ step'[n] = "upload" /\ slot'[n] = slot'[k] /\ k # n /\ slot'[k].name # Unnamed
              /\ step'[k] = "upload" \/ "json" \in sent'[k]
              => {k, n} \in raced'
        <5> SUFFICES ASSUME NEW k \in Restores, NEW n \in Restores,
                            step'[n] = "upload", slot'[n] = slot'[k], k # n,
                            slot'[k].name # Unnamed,
                            step'[k] = "upload" \/ "json" \in sent[k]
                     PROVE  {k, n} \in raced'
          BY <2>1
        <5>1. CASE k # m /\ n # m
          BY <5>1, <2>3, <3>1 DEF ArchiveKept, Restores
        <5>2. CASE n = m
          BY <5>2, <3>1, <4>2, <4>3 DEF Restores
        <5>3. CASE k = m
          <6>1. step[n] = "upload" /\ slot[n] = slot'[m] /\ n # m
            BY <5>3, <3>1 DEF Restores
          <6> QED
            BY <5>3, <6>1, <4>2
        <5> QED
          BY <5>1, <5>2, <5>3
      <4> QED
        BY <4>5, <4>6, <4>7 DEF ArchiveKept
    <3> QED
      BY <3>2, <3>3
  <2> QED
    BY <1>6, <2>2, <2>3 DEF M!CheckExist
<1>7. ASSUME NEW file \in {"json", "yaml"}, M!UploadArchive(m, file) PROVE ArchiveKept'
  <2>1. /\ UNCHANGED <<slot, tree, raced>> /\ step[m] = "upload"
        /\ sent' = [sent EXCEPT ![m] = @ \cup {file}]
        /\ M!Put(slot[m], file, [by |-> m, tree |-> tree[m]])
    BY <1>7 DEF M!UploadArchive, M!facts
  <2>2. \A n \in Missions : step'[n] = "upload" => step[n] = "upload"
    BY <1>1, <2>1 DEF Others
  <2>3. \A s \in M!Slots : store'[s].json = IF s = slot[m] /\ file = "json"
                                               THEN [by |-> m, tree |-> tree[m]]
                                               ELSE store[s].json
    BY <1>1, <2>1, PutSteps DEF Shape
  <2>4. \A n \in Missions : sent'[n] = IF n = m THEN sent[m] \cup {file} ELSE sent[n]
    BY <1>1, <2>1 DEF Shape
  <2>5. \A n \in Restores : slot[n] \in M!Slots
    BY <1>1 DEF Shape, Restores
  <2>6. \A k \in Restores : "json" \in sent[k] \/ step[k] = "upload" => slot[k].kind = "restore"
    BY <1>1 DEF Placed, Late, Restores
  <2>7. ASSUME m \in Backups, NEW k \in Restores, "json" \in sent[k] \/ step[k] = "upload"
        PROVE  slot[k] # slot[m]
    BY <1>1, <2>6, <2>7 DEF Placed
  <2>8. \A k \in Restores, s \in M!Slots : store'[s].json.by = k =>
          "json" \in sent'[k] /\ slot'[k] = s /\ store'[s].json.tree = tree'[k]
    BY <2>1, <2>3, <2>4 DEF ArchiveKept, Restores
  <2>9. ASSUME NEW k \in Restores, "json" \in sent'[k]
        PROVE  LET n == store'[slot'[k]].json.by IN
               /\ n # NoMission
               /\ n = k \/ {k, n} \in raced' \/ slot'[k].name = Unnamed
    <3>1. CASE slot[k] = slot[m] /\ file = "json"
      <4>1. store'[slot[k]].json.by = m /\ m # NoMission
        BY <2>3, <2>5, <3>1, MissionsAssumption
      <4>2. CASE k = m
        BY <4>1, <4>2, <2>1
      <4>3. CASE k # m
        <5>1. "json" \in sent[k] /\ m \in Restores
          BY <2>4, <2>7, <2>9, <3>1, <4>3 DEF Restores
        <5>2. {k, m} \in raced \/ slot[k].name = Unnamed
          BY <2>1, <3>1, <4>3, <5>1 DEF ArchiveKept
        <5> QED
          BY <4>1, <5>2, <2>1
      <4> QED
        BY <4>2, <4>3
    <3>2. CASE slot[k] # slot[m] \/ file # "json"
      <4>1. "json" \in sent[k] /\ store'[slot[k]].json = store[slot[k]].json
        BY <2>3, <2>4, <2>5, <2>9, <3>2 DEF Restores
      <4> QED
        BY <4>1, <2>1 DEF ArchiveKept
    <3> QED
      BY <3>1, <3>2
  <2>10. \A k, n \in Restores :
           /\ step'[n] = "upload" /\ slot'[n] = slot'[k] /\ k # n /\ slot'[k].name # Unnamed
           /\ step'[k] = "upload" \/ "json" \in sent'[k]
           => {k, n} \in raced'
    BY <2>1, <2>2, <2>4 DEF ArchiveKept, Restores
  <2> QED
    BY <2>8, <2>9, <2>10 DEF ArchiveKept
<1>8. CASE M!UploadLog(m) \/ M!UploadStatus(m)
  <2>1. UNCHANGED <<sent, raced, slot, tree>>
    BY <1>8 DEF M!UploadLog, M!UploadStatus, M!local, M!facts
  <2>2. step'[m] # "upload"
    BY <1>1, <1>8 DEF M!UploadLog, M!UploadStatus, M!Goto, Shape
  <2>3. \/ UNCHANGED store
        \/ \E file \in {"log", "status"} : \E content : M!Put(slot[m], file, content)
    BY <1>8 DEF M!UploadLog, M!UploadStatus
  <2>4. \A s \in M!Slots : store'[s].json = store[s].json
    <3>1. slot[m] \in M!Slots
      BY <1>1 DEF Shape
    <3> QED
      BY <1>1, <2>3, <3>1, PutSteps
  <2> QED
    BY <2>1, <2>2, <2>4, <1>2
<1>9. ASSUME M!Fetch(m) PROVE ArchiveKept'
  <2>1. /\ UNCHANGED <<sent, raced, store, slot>> /\ step[m] = "fetch"
        /\ (\E q \in {"failed", "discover"} : M!Goto(m, q)) \/ M!DieWith(m)
    BY <1>9 DEF M!Fetch, M!shared
  <2>2. step'[m] # "upload" /\ sent[m] = {}
    BY <1>1, <2>1 DEF M!Goto, M!DieWith, Shape, Placed, Early
  <2> QED
    BY <1>2, <2>1, <2>2
<1>10. ASSUME NEW r, NEW n, M!OpenNode(m, r, n) PROVE ArchiveKept'
  <2>1. UNCHANGED <<sent, raced, store, slot, step>> /\ step[m] = "apply"
    BY <1>10 DEF M!OpenNode
  <2>2. m \in Backups \/ sent[m] = {}
    BY <1>1, <2>1 DEF Placed, Early
  <2> QED
    BY <1>1, <1>2, <2>1, <2>2 DEF Placed
<1>11. ASSUME NEW o \in Objs, M!ApplyObject(m, o) PROVE ArchiveKept'
  <2>1. UNCHANGED <<sent, raced, store, slot, tree>> /\ (step' = step \/ M!DieWith(m))
    BY <1>11 DEF M!ApplyObject, M!Create, M!Apply, M!Undefined
  <2>2. step'[m] = "upload" => step[m] = "upload"
    BY <2>1 DEF M!DieWith
  <2> QED
    BY <1>2, <2>1, <2>2
<1>12. ASSUME M!RestoreApplied(m) PROVE ArchiveKept'
  <2>1. UNCHANGED <<sent, raced, store, tree>> /\ step[m] = "apply" /\ M!Goto(m, "check")
    BY <1>12 DEF M!RestoreApplied, M!shared, M!facts
  <2>2. sent[m] = {} /\ step'[m] # "upload"
    BY <1>1, <2>1 DEF Placed, Early, M!Goto, Shape
  <2> QED
    BY <1>2, <2>1, <2>2
<1> QED
  BY <1>3, <1>4, <1>5, <1>6, <1>7, <1>8, <1>9, <1>10, <1>11, <1>12 DEF M!Mission

\* A service that a restore brings is one it remembers to have written.
LEMMA ServiceWritten ==
  ASSUME Inv, Shape, NEW m \in Missions, NEW l \in Locs, RestoreService(m, l)
  PROVE  Service(l) \in wrote'[m]
<1> DEFINE o == <<"services", l>>
<1>1. o \in Objs /\ o = Service(l) /\ o[1] = "services" /\ o[2] = l
  BY DEF Service, Objs, Kinds
<1>2. svc[l] = NoSvc /\ svc'[l] = OrphanSvc /\ OrphanSvc # NoSvc
  BY DEF RestoreService, OrphanSvc, NoSvc, Inv, TypeInv, TypeOK
<1>3. View[o] = 0 /\ View'[o] = 1
  BY <1>1, <1>2 DEF View
<1>4. M!ApplyObject(m, o)
  BY <1>1 DEF RestoreService
<1> HIDE DEF o
<1>5. ~M!NotStored
  BY <1>3 DEF M!NotStored
<1>6. M!Stored(m, o)
  BY <1>4, <1>5 DEF M!ApplyObject, M!Create, M!Apply, M!Undefined
<1>7. wrote' = [wrote EXCEPT ![m] = @ \cup {o}]
  BY <1>6 DEF M!Stored
<1> QED
  BY <1>1, <1>7 DEF Shape

\* What is on record at every time.
LEMMA RecordCorrect ==
  ASSUME "orphan" \notin Faults
  PROVE  BoxroomSpec => [](RecordInv /\ Caused)
<1>1. ASSUME Inv, RecordInv, Caused, [BoxroomNext]_boxroomVars
      PROVE  RecordInv' /\ Caused'
  <2>1. CASE UNCHANGED <<step, slot, tree, pending, work, sent, wrote, store, clock, raced>>
             /\ [Next]_vars
    <3>1. RecordInv'
      BY <1>1, <2>1 DEF RecordInv, MissionInv, Shape, Placed, TreeKept, ArchiveKept
    <3>2. Caused'
      BY <1>1, <2>1, OrphansStay DEF Caused
    <3> QED
      BY <3>1, <3>2
  <2>2. ASSUME NEW m \in Missions, M!Mission(m) \/ M!Kill(m)
        PROVE  RecordInv' /\ \A n \in Missions : wrote[n] \subseteq wrote'[n]
    <3>1. Shape' /\ Others(m) /\ Placed(m)' /\ TreeKept(m)' /\ wrote[m] \subseteq wrote'[m]
      BY <1>1, <2>2, ShapeSteps, PlacedSteps, TreeSteps DEF RecordInv, MissionInv
    <3>2. MissionInv'
      BY <1>1, <3>1, OthersKept DEF RecordInv
    <3>3. ArchiveKept'
      BY <1>1, <2>2, <3>2, ArchiveSteps
    <3> QED
      BY <3>1, <3>2, <3>3 DEF RecordInv, Others
  <2>3. CASE ClusterStep
    BY <2>1, <2>3 DEF ClusterStep, resting
  <2>4. ASSUME NEW m \in Missions, MissionStep(m) PROVE RecordInv' /\ Caused'
    <3>1. UNCHANGED svc /\ RecordInv' /\ \A n \in Missions : wrote[n] \subseteq wrote'[n]
      BY <2>2, <2>4 DEF MissionStep, vars, api
    <3> QED
      BY <1>1, <3>1 DEF Caused, Restores
  <2>5. ASSUME NEW m \in Missions, NEW l \in Locs, RestoreObject(m, l)
        PROVE  RecordInv' /\ Caused'
    <3>1. UNCHANGED svc /\ M!ApplyObject(m, Object(l)) /\ Object(l) \in Objs
      BY <2>5 DEF RestoreObject, UserCreate, Object, Objs, Kinds
    <3>2. RecordInv' /\ \A n \in Missions : wrote[n] \subseteq wrote'[n]
      BY <2>2, <3>1 DEF M!Mission
    <3> QED
      BY <1>1, <3>1, <3>2 DEF Caused, Restores
  <2>6. ASSUME NEW m \in Missions, NEW l \in Locs, RestoreService(m, l)
        PROVE  RecordInv' /\ Caused'
    <3>1. M!ApplyObject(m, Service(l)) /\ Service(l) \in Objs
      BY <2>6 DEF RestoreService, Service, Objs, Kinds
    <3>2. RecordInv' /\ \A n \in Missions : wrote[n] \subseteq wrote'[n]
      BY <2>2, <3>1 DEF M!Mission
    <3>3. m \in Restores /\ Service(l) \in wrote'[m]
      BY <1>1, <2>6, <3>1, ServiceWritten
      DEF RecordInv, MissionInv, Placed, Restores, M!ApplyObject
    <3>4. \A k \in Locs : k # l => svc'[k] = svc[k]
      BY <2>6 DEF RestoreService
    <3> QED
      BY <1>1, <3>2, <3>3, <3>4 DEF Caused, Restores
  <2>7. CASE UNCHANGED boxroomVars
    BY <2>1, <2>7 DEF boxroomVars, resting
  <2> QED
    BY <1>1, <2>3, <2>4, <2>5, <2>6, <2>7 DEF BoxroomNext
<1>2. Inv /\ WakeInv /\ RecordInv /\ Caused /\ [BoxroomNext]_boxroomVars => RecordInv' /\ Caused'
  BY <1>1
<1> QED
  BY <1>2, RecordInit, BoxroomInvariance, PTL DEF BoxroomSpec

\* However many restores run in the cluster of the controller, and whatever
\* becomes of them: who finds a service without owner there finds it in the
\* archive of the restore that made it, or knows that this archive was
\* overwritten.
THEOREM BoxroomRecord ==
  ASSUME "orphan" \notin Faults
  PROVE  BoxroomSpec => []OrphansOnRecord
<1>1. RecordInv /\ Caused => OrphansOnRecord
  <2> SUFFICES ASSUME RecordInv, Caused, NEW l \in Locs, svc[l] = OrphanSvc
               PROVE  \E m \in Missions \ Backups :
                        LET archive == store[slot[m]].json IN
                        /\ Service(l) \in wrote[m] /\ tree[m][Service(l)] # 0
                        /\ step[m] = "done" => \/ archive.tree[Service(l)] # 0
                                               \/ {m, archive.by} \in raced
                                               \/ slot[m].name = Unnamed
    BY DEF OrphansOnRecord
  <2>1. PICK m \in Restores : Service(l) \in wrote[m]
    BY DEF Caused
  <2>2. m \in Missions \ Backups /\ Service(l) \in M!In(tree[m]) /\ slot[m] \in M!Slots
    BY <2>1 DEF RecordInv, MissionInv, TreeKept, Restores, Shape
  <2>3. tree[m][Service(l)] # 0
    BY <2>2 DEF M!In, M!Absent
  <2>4. step[m] = "done" => "json" \in sent[m]
    BY <2>2 DEF RecordInv, MissionInv, Placed
  <2>5. step[m] = "done" => \/ store[slot[m]].json.tree[Service(l)] # 0
                            \/ {m, store[slot[m]].json.by} \in raced
                            \/ slot[m].name = Unnamed
    BY <2>1, <2>2, <2>3, <2>4 DEF RecordInv, ArchiveKept
  <2> QED
    BY <2>1, <2>2, <2>3, <2>5
<1> QED
  BY <1>1, RecordCorrect, PTL
=============================================================================
