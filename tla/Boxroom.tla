------------------------------ MODULE Boxroom -------------------------------
(***************************************************************************)
(* Both halves of boxroom in one cluster: the controller of module         *)
(* StorageLocations keeps pods and services while the missions of module   *)
(* Missions back up and restore what it works on.  To a mission a          *)
(* StorageLocations object and its service are two objects like any other; *)
(* pods never come into a tree (the default filters take them out).  To    *)
(* the controller a restore is one more client of the API server, which    *)
(* creates services that nobody owns.                                      *)
(*                                                                         *)
(* The two share nothing but the cluster: loc and svc are the cluster that *)
(* missions see, as View says.                                             *)
(***************************************************************************)
EXTENDS StorageLocations

CONSTANTS
  Missions, NoMission, Backups, Earlier, \* as in module Missions
  Names, Unnamed, Space, ClusterLevel,
  MissionFaults, MaxMissionFaults,       \* bound: its Faults, MaxFaults
  MaxClock

ASSUME MissionsAssumption == NoMission \notin Missions /\ Backups \subseteq Missions
ASSUME EarlierAssumption == Earlier \subseteq Backups
ASSUME ClockAssumption == MaxClock \in Nat

VARIABLES
  \* of module Missions, some under another name
  spaces, store, clock,
  step, slot, tree, result, listed, todo, seen, pending, work, sent,
  ever, always, gaps, goal, skipped, wrote, raced, mbudget, edits

\* A mission sees an object by what it asks for, and that a service is there.
Object(l) == <<"storagelocations", l>>
Service(l) == <<"services", l>>
Kinds == {"storagelocations", "services"}
Objs == Kinds \X Locs
MaxVersion == 1 + CHOOSE r \in Replicas : \A q \in Replicas : q <= r
View == [o \in Objs |->
  IF o[1] = "services" THEN IF svc[o[2]] = NoSvc THEN 0 ELSE 1
  ELSE IF Present(loc[o[2]]) THEN 1 + loc[o[2]].replicas ELSE 0]

M == INSTANCE Missions WITH
  cluster <- View, pc <- step, made <- wrote, budget <- mbudget,
  ClusterObjs <- {}, Resources <- Kinds, Namespaces <- {Space},
  ResourceOf <- [o \in Objs |-> o[1]], NamespaceOf <- [o \in Objs |-> Space],
  Times <- [k \in Kinds |-> 1],
  Filtered <- {}, Wanted <- [m \in Missions |-> Objs],
  FirstClusters <- {[o \in Objs |-> 0]},
  FirstBackups <- {[o \in Objs |-> 1 + IF o[1] = "services" THEN 0 ELSE r] : r \in Replicas},
  Faults <- MissionFaults, MaxFaults <- MaxMissionFaults, MaxEdits <- 0

resting == <<spaces, store, clock, step, slot, tree, result, listed, todo, seen,
             pending, work, sent, gaps, goal, skipped, wrote, raced, mbudget, edits>>

BoxroomInit == Init /\ M!Init
-----------------------------------------------------------------------------

\* Whatever the controller, the users and the rest of the cluster do, the
\* missions that run live through it.
ClusterStep == Next /\ M!Observe /\ UNCHANGED resting

\* A mission does something that leaves the cluster alone.
MissionStep(m) == UNCHANGED vars /\ (M!Mission(m) \/ M!Kill(m))

\* preHandleObjectBeforeCreate takes status, uid and generation out of an
\* object, so that the API server stores it like one that a user applies.
RestoreObject(m, l) == UserCreate(l) /\ M!ApplyObject(m, Object(l))

\* It takes the ownerReferences out, too: the service has its label and its
\* name, and no owner.
RestoreService(m, l) ==
  /\ svc[l] = NoSvc
  /\ svc' = [svc EXCEPT ![l] = OrphanSvc]
  /\ Tell(<<"svc", l>>)
  /\ UNCHANGED <<loc, born, made, pod, owner, caches, queue, deleted, local,
                 taken, budget>>
  /\ M!ApplyObject(m, Service(l))

BoxroomNext ==
  \/ ClusterStep
  \/ \E m \in Missions : MissionStep(m)
  \/ \E m \in Missions, l \in Locs : RestoreObject(m, l) \/ RestoreService(m, l)

boxroomVars == <<vars, resting, ever, always>>

\* Missions may stop anywhere; fairness is that of the controller.
BoxroomSpec == BoxroomInit /\ [][BoxroomNext]_boxroomVars
FairBoxroomSpec == BoxroomSpec /\ Fairness
-----------------------------------------------------------------------------

\* The manager is down and stays down: it dies of a service without owner at
\* every start, until somebody removes the service.
Ruined == pc = "down" /\ \E l \in Locs : svc[l] = OrphanSvc

\* The worker makes services for an object that is gone: syncChildService calls
\* itself with the object it has, while the garbage collector removes them.
Outlived == pc \in {"slist", "screate", "srelist"} /\ obj.uid # loc[key].uid

\* However a restore and the controller come in each other's way, after it the
\* objects get what they ask for, or one of three things has happened: an
\* endless retry; an object deleted under the hands of the worker, which never
\* looks at what took its place; or the restore brought a service back before
\* the controller had.  Nothing else stops the controller for good.
Recovers ==
  \/ <>[](\A l \in Locs : Present(loc[l]) => Settled(l))
  \/ <>[]Wedged \/ <>[]Outlived \/ <>[]Ruined

\* What ruins the controller is on record, unless users orphan services: one
\* without owner is in the tree of a restore that created it, and, once that
\* restore is done, in the archive it leaves in the store, or in one that has
\* been overwritten, by a restore it raced or under a name nobody gave.
OrphansOnRecord ==
  \A l \in Locs : svc[l] = OrphanSvc =>
    \E m \in Missions \ Backups :
      LET archive == store[slot[m]].json IN
      /\ Service(l) \in wrote[m] /\ tree[m][Service(l)] # 0
      /\ step[m] = "done" => \/ archive.tree[Service(l)] # 0
                             \/ {m, archive.by} \in raced \/ slot[m].name = Unnamed
=============================================================================
