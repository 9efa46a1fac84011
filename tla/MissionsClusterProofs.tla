----------------------- MODULE MissionsClusterProofs ------------------------
(***************************************************************************)
(* What backups and restores find out about the cluster, and what they     *)
(* make of it, for every number of missions, objects and faults.           *)
(***************************************************************************)
EXTENDS MissionsProofs

-----------------------------------------------------------------------------
(* What a mission knows of the cluster.                                    *)

\* Every object is in a namespace that exists, or in none.  What existed all
\* the while exists, and what exists has existed while the mission ran.
Watched ==
  /\ \A o \in In(cluster) : o \in ClusterObjs \/ NamespaceOf[o] \in spaces
  /\ \A m \in Missions : Running(m) =>
       /\ always[m] \subseteq In(cluster)
       /\ \A o \in In(cluster) : <<o, cluster[o]>> \in ever[m]

\* A mission that has got as far as the lists, not counting those that ended
\* before their first upload.
Late == {"check", "upload"} \cup Over
Listing(m) == pc[m] \in {"list", "apply"} \cup Late \/ Uploaded[m] # {}

\* Backups take none of the steps of a restore, and a restore stores under a
\* root of its own.
Kinded(m) ==
  /\ m \in Backups => slot[m].kind = "backup" /\ pc[m] \notin {"find", "fetch", "apply"}
  /\ m \notin Backups /\ (pc[m] \in Late \/ Uploaded[m] # {}) => slot[m].kind = "restore"

\* What it looks for in the cluster, and what it found.
Asked(m) == IF m \in Backups THEN Wanted[m] ELSE Objs
Found(m) == IF m \in Backups THEN In(tree[m]) ELSE seen[m]

\* What existed all the while was found, unless every list that would have
\* found it failed or is still to come.
Covered(m) ==
  \A o \in always[m] \cap Asked(m) :
    \/ o \in Found(m)
    \/ \A k \in 1..Times[ResourceOf[o]] : <<ResourceOf[o], k>> \in todo[m] \cup gaps[m]
Listed(m) == Listing(m) =>
  /\ pc[m] # "list" => todo[m] = {}
  /\ Covered(m)
  /\ pc[m] = "list" =>
       \A o \in always[m] : o \in ClusterObjs \/ NamespaceOf[o] \in listed[m]

\* A backup holds what it was asked for and what existed.
Copied(m) == m \in Backups =>
  /\ pc[m] \in {"idle", "discover"} => In(tree[m]) = {}
  /\ \A o \in In(tree[m]) : o \in Wanted[m] /\ <<o, tree[m][o]>> \in ever[m]

\* What a restore wrote is kept in its tree.
MadeKept(m) == m \notin Backups =>
  /\ made[m] \subseteq In(tree[m]) /\ (made[m] \cup work[m]) \cap pending[m] = {}
  /\ pc[m] \in {"idle", "find", "fetch"} => made[m] = {}

\* What a restore has compared and kept was not seen; what it should restore
\* is still to do, existed, or is reported.  Restores that ended early do not
\* count.
Existed(m, o) == \E v \in 1..MaxVersion : <<o, v>> \in ever[m]
Applying(m) == pc[m] = "discover" \/ Listing(m)
Settled(m) == In(goal[m]) \ (skipped[m] \cup pending[m] \cup work[m])
Restored(m) == m \notin Backups =>
  /\ pc[m] \in {"idle", "find", "fetch", "discover"} => seen[m] = {}
  /\ \A o \in seen[m] : Existed(m, o)
  /\ Applying(m) =>
       /\ pc[m] \in {"discover", "list"} => pending[m] = In(tree[m])
       /\ pc[m] \notin {"discover", "list", "apply"} => pending[m] = {} /\ work[m] = {}
       /\ (In(tree[m]) \ pending[m]) \cap seen[m] = {}
       /\ result[m] = "Success" => \A o \in Settled(m) : Existed(m, o)

Knows(m) == Kinded(m) /\ Listed(m) /\ Copied(m) /\ MadeKept(m) /\ Restored(m)
KnowsInv == Watched /\ \A m \in Missions : Knows(m)

-----------------------------------------------------------------------------
(* The cluster, as missions watch it.                                      *)

\* A change of the cluster that missions observe.
LEMMA ObserveWatched ==
  ASSUME TypeOK, Watched, Observe, cluster' \in Trees,
         \A o \in In(cluster') : o \in ClusterObjs \/ NamespaceOf[o] \in spaces',
         \A m \in Missions : pc'[m] = pc[m] \/ pc'[m] = "crashed"
  PROVE  Watched'
BY DEF Watched, Observe, Running, TypeOK

\* A step that leaves the cluster alone.
LEMMA StillWatched ==
  ASSUME TypeOK, Watched, UNCHANGED <<cluster, ever, always>>, spaces \subseteq spaces',
         \A m \in Missions : pc'[m] \notin {"idle", "done", "failed", "crashed"}
                               => Running(m)
  PROVE  Watched'
BY DEF Watched, Running, TypeOK

\* A mission that goes from step to step runs.
LEMMA StillRunning ==
  ASSUME TypeOK, NEW m \in Missions, Running(m),
         (\E step : Goto(m, step)) \/ DieWith(m) \/ pc' = pc
  PROVE  \A n \in Missions : pc'[n] \notin {"idle", "done", "failed", "crashed"} => Running(n)
BY DEF Goto, DieWith, Running, TypeOK

\* Every step keeps missions informed.
LEMMA WatchedStep == TypeOK /\ Ordered /\ Watched /\ [Next]_vars => Watched'
<1> SUFFICES ASSUME TypeOK, Ordered, Watched, [Next]_vars PROVE Watched'
  OBVIOUS
<1> USE ObjsAssumption
<1>1. ASSUME NEW o \in Objs, UserWrite(o) PROVE Watched'
  <2>1. cluster' \in Trees /\ In(cluster') \subseteq In(cluster) \cup {o}
    BY <1>1 DEF UserWrite, TypeOK, Trees, In
  <2>2. spaces' = spaces /\ pc' = pc /\ (o \in ClusterObjs \/ NamespaceOf[o] \in spaces)
    BY <1>1 DEF UserWrite, Edit
  <2> QED
    BY <1>1, <2>1, <2>2, ObserveWatched DEF UserWrite, Edit, Watched
<1>2. ASSUME NEW o \in Objs, UserDelete(o) PROVE Watched'
  <2>1. cluster' \in Trees /\ In(cluster') \subseteq In(cluster)
    BY <1>2, BoundsAssumption DEF UserDelete, TypeOK, Trees, In, Absent
  <2> QED
    BY <1>2, <2>1, ObserveWatched DEF UserDelete, Edit, Watched
<1>3. ASSUME NEW n \in Namespaces, UserDeleteSpace(n) PROVE Watched'
  <2>1. cluster' \in Trees
    BY <1>3, BoundsAssumption DEF UserDeleteSpace, TypeOK, Trees, Absent
  <2>2. \A o \in In(cluster') :
          o \in In(cluster) /\ (o \in ClusterObjs \/ NamespaceOf[o] # n)
    BY <1>3 DEF UserDeleteSpace, In
  <2> QED
    BY <1>3, <2>1, <2>2, ObserveWatched DEF UserDeleteSpace, Edit, Watched
<1>4. CASE Tick
  BY <1>4, StillWatched DEF Tick, Running
<1>5. CASE UNCHANGED vars
  BY <1>5, StillWatched DEF vars, shared, Running
<1>6. ASSUME NEW m \in Missions, Start(m) PROVE Watched'
  BY <1>6 DEF Start, Watched, shared, Running, Goto, TypeOK
<1>7. ASSUME NEW m \in Missions, Mission(m) \/ Kill(m), ~Start(m) PROVE Watched'
  <2>1. CASE /\ UNCHANGED <<cluster, spaces, ever, always>> /\ Running(m)
             /\ (\E step : Goto(m, step)) \/ DieWith(m)
    BY <2>1, StillRunning, StillWatched
  <2>2. ASSUME NEW r, NEW n, OpenNode(m, r, n) PROVE Watched'
    <3>1. UNCHANGED <<cluster, ever, always, pc>> /\ spaces \subseteq spaces' /\ Running(m)
      BY <2>2 DEF OpenNode, ClusterUnchanged, Running
    <3> QED
      BY <3>1, StillRunning, StillWatched
  <2>3. ASSUME NEW o \in Objs, ApplyObject(m, o) PROVE Watched'
    <3>1. \/ NotStored
          \/ Stored(m, o) /\ (o \in ClusterObjs \/ NamespaceOf[o] \in spaces)
      BY <2>3 DEF ApplyObject, Create, Apply, Undefined, Placeable
    <3>2. tree[m][o] \in 0..MaxVersion
      BY DEF TypeOK, Trees
    <3>3. cluster' \in Trees
      BY <3>1, <3>2 DEF Stored, NotStored, TypeOK, Trees
    <3>4. \A q \in In(cluster') :
            q \in In(cluster) \/ q \in ClusterObjs \/ NamespaceOf[q] \in spaces
      BY <3>1 DEF Stored, NotStored, In, TypeOK, Trees
    <3>5. \A n \in Missions : pc'[n] = pc[n] \/ pc'[n] = "crashed"
      BY <2>3 DEF ApplyObject, Create, Apply, Undefined, DieWith, TypeOK
    <3>6. Observe /\ spaces' = spaces
      BY <2>3 DEF ApplyObject
    <3> QED
      BY <3>3, <3>4, <3>5, <3>6, ObserveWatched DEF Watched
  <2>4. CASE Kill(m) \/ Error(m) \/ Discover(m)
    BY <2>1, <2>4 DEF Kill, Error, Discover, Running, shared, ClusterUnchanged
  <2>5. ASSUME NEW r, NEW k, ListResource(m, r, k) PROVE Watched'
    BY <2>1, <2>5 DEF ListResource, Running, shared
  <2>6. CASE CheckExist(m) \/ UploadLog(m) \/ UploadStatus(m)
    BY <2>1, <2>6 DEF CheckExist, UploadLog, UploadStatus, Running, ClusterUnchanged
  <2>7. ASSUME NEW file, UploadArchive(m, file) PROVE Watched'
    BY <2>1, <2>7 DEF UploadArchive, Running, ClusterUnchanged
  <2>8. CASE FindBackup(m) \/ RestoreApplied(m)
    BY <2>1, <2>8 DEF FindBackup, RestoreApplied, Running, shared
  <2>9. CASE Fetch(m)
    BY <2>1, <2>9 DEF Fetch, Running, shared
  <2> QED
    BY <1>7, <2>2, <2>3, <2>4, <2>5, <2>6, <2>7, <2>8, <2>9 DEF Mission
<1> QED
  BY <1>1, <1>2, <1>3, <1>4, <1>5, <1>6, <1>7 DEF Next, Users

-----------------------------------------------------------------------------
(* What one mission knows is not touched by the others.                    *)

\* The data of a mission stays, while what existed goes on.
SameData(m) ==
  /\ tree'[m] = tree[m] /\ seen'[m] = seen[m] /\ pending'[m] = pending[m]
  /\ work'[m] = work[m] /\ made'[m] = made[m] /\ goal'[m] = goal[m]
  /\ skipped'[m] = skipped[m] /\ result'[m] = result[m] /\ todo'[m] = todo[m]
  /\ listed'[m] = listed[m] /\ gaps'[m] = gaps[m]
  /\ slot'[m].kind = slot[m].kind
  /\ always'[m] \subseteq always[m] /\ ever[m] \subseteq ever'[m]

\* It rests, or dies, or goes on with its uploads.
Rests(m) ==
  /\ SameData(m)
  /\ \/ Uploaded'[m] = Uploaded[m] /\ pc'[m] = pc[m]
     \/ Uploaded'[m] = Uploaded[m] /\ pc'[m] \in {"failed", "crashed"}
     \/ pc[m] \in Late /\ pc'[m] \in Late \cup {"failed"}

\* Then what it knows stays true.
LEMMA RestsKeeps ==
  ASSUME TypeOK, Ordered, NEW m \in Missions, Knows(m), Rests(m)
  PROVE  Knows(m)'
<1>1. /\ Uploaded[m] # {} => pc[m] \notin Before
      /\ pc'[m] = pc[m] \/ pc'[m] \in Late \cup {"failed", "crashed"}
  BY DEF Ordered, Before, Uploaded, Rests
<1>2. pc'[m] \in Late => pc[m] \in Late
  BY DEF Rests, Late, Over
<1>3. Uploaded'[m] # {} => Uploaded[m] # {} \/ pc[m] \in Late
  BY DEF Rests
<1>4. Kinded(m)'
  BY <1>1, <1>2, <1>3 DEF Knows, Kinded, Rests, SameData, Late, Over
<1>5. Listing(m)' => Listing(m) /\ (pc'[m] = pc[m] \/ pc[m] \notin Before \ {"check"})
  BY <1>1, <1>2, <1>3 DEF Listing, Rests, Late, Over, Before
<1>6. Listed(m)'
  <2>1. Covered(m) => Covered(m)'
    BY DEF Covered, Rests, SameData, Found, Asked
  <2>2. Listing(m)' => (pc'[m] = "list" <=> pc[m] = "list")
    BY <1>1, <1>5 DEF Late, Over, Before
  <2> QED
    BY <1>5, <2>1, <2>2 DEF Knows, Listed, Rests, SameData
<1>7. Copied(m)'
  BY <1>1 DEF Knows, Copied, Rests, SameData, Late, Over
<1>8. MadeKept(m)'
  BY <1>1 DEF Knows, MadeKept, Rests, SameData, Late, Over
<1>9. Restored(m)'
  <2>1. ASSUME NEW o, Existed(m, o) PROVE Existed(m, o)'
    BY <2>1 DEF Existed, Rests, SameData
  <2>2. ASSUME m \notin Backups
        PROVE  /\ pc'[m] \in {"idle", "find", "fetch", "discover"} => seen'[m] = {}
               /\ \A o \in seen'[m] : Existed(m, o)'
    BY <1>1, <2>1, <2>2 DEF Knows, Restored, Rests, SameData, Late, Over
  <2>3. Applying(m)' => Applying(m) /\ (pc'[m] = pc[m] \/ pc[m] \notin Before \ {"check"})
    BY <1>1, <1>5 DEF Applying, Late, Over
  <2>4. Settled(m)' = Settled(m)
    BY DEF Settled, Rests, SameData
  <2>5. ASSUME m \notin Backups, Applying(m)'
        PROVE  /\ pc'[m] \in {"discover", "list"} => pending'[m] = In(tree'[m])
               /\ pc'[m] \notin {"discover", "list", "apply"} =>
                    pending'[m] = {} /\ work'[m] = {}
               /\ (In(tree'[m]) \ pending'[m]) \cap seen'[m] = {}
               /\ result'[m] = "Success" => \A o \in Settled(m)' : Existed(m, o)'
    BY <1>1, <2>1, <2>3, <2>4, <2>5
    DEF Knows, Restored, Rests, SameData, Before, Late, Over
  <2> QED
    BY <2>2, <2>5 DEF Restored
<1> QED
  BY <1>4, <1>6, <1>7, <1>8, <1>9 DEF Knows

\* What was known of the past stays known when the cluster changes.
LEMMA ObserveGrows ==
  ASSUME TypeOK, Observe
  PROVE  \A n \in Missions : always'[n] \subseteq always[n] /\ ever[n] \subseteq ever'[n]
BY DEF Observe, TypeOK

\* Users and the clock leave all missions alone.
LEMMA UsersRest ==
  ASSUME TypeOK, Users \/ Tick \/ UNCHANGED vars
  PROVE  \A n \in Missions : Rests(n)
<1>1. UNCHANGED <<pc, local, facts>>
  BY DEF Users, UserWrite, UserDelete, UserDeleteSpace, Edit, Tick, vars
<1>2. \A n \in Missions : always'[n] \subseteq always[n] /\ ever[n] \subseteq ever'[n]
  BY ObserveGrows
  DEF Users, UserWrite, UserDelete, UserDeleteSpace, Edit, Tick, vars
<1> QED
  BY <1>1, <1>2 DEF Rests, SameData, local, facts, Uploaded

\* The steps of a mission leave the others alone, or kill them.
LEMMA OthersRest ==
  ASSUME TypeOK, NEW m \in Missions, Mission(m) \/ Kill(m), NEW n \in Missions \ {m}
  PROVE  Rests(n)
<1>1. CASE Kill(m)
  BY <1>1 DEF Kill, DieWith, local, facts, Rests, SameData, Uploaded, TypeOK
<1>2. CASE Start(m)
  BY <1>2 DEF Start, Goto, local, facts, Rests, SameData, Uploaded, TypeOK
<1>3. CASE Error(m)
  BY <1>3 DEF Error, Goto, local, facts, Rests, SameData, Uploaded, TypeOK
<1>4. CASE Discover(m)
  BY <1>4 DEF Discover, Goto, ClusterUnchanged, facts, Rests, SameData, Uploaded, TypeOK
<1>5. ASSUME NEW r, NEW k, ListResource(m, r, k) PROVE Rests(n)
  BY <1>5 DEF ListResource, Goto, Rests, SameData, Uploaded, TypeOK
<1>6. CASE CheckExist(m)
  BY <1>6 DEF CheckExist, Goto, DieWith, ClusterUnchanged, Rests, SameData, Uploaded, TypeOK
<1>7. ASSUME NEW file, UploadArchive(m, file) PROVE Rests(n)
  BY <1>7 DEF UploadArchive, Goto, ClusterUnchanged, facts, Rests, SameData, Uploaded, TypeOK
<1>8. CASE UploadLog(m)
  BY <1>8 DEF UploadLog, Goto, ClusterUnchanged, local, facts, Rests, SameData, Uploaded,
              TypeOK
<1>9. CASE UploadStatus(m)
  BY <1>9 DEF UploadStatus, Goto, ClusterUnchanged, local, facts, Rests, SameData, Uploaded,
              TypeOK
<1>10. CASE FindBackup(m)
  BY <1>10 DEF FindBackup, Goto, local, facts, Rests, SameData, Uploaded, TypeOK
<1>11. CASE Fetch(m)
  <2>1. /\ tree'[n] = tree[n] /\ pending'[n] = pending[n] /\ goal'[n] = goal[n]
        /\ skipped'[n] = skipped[n]
    BY <1>11 DEF Fetch, TypeOK
  <2>2. pc'[n] = pc[n] \/ pc'[n] = "crashed"
    BY <1>11 DEF Fetch, Goto, DieWith, TypeOK
  <2>3. /\ UNCHANGED <<slot, result, listed, todo, seen, work, sent, ever, always>>
        /\ UNCHANGED <<gaps, made>>
    BY <1>11 DEF Fetch
  <2> QED
    BY <2>1, <2>2, <2>3 DEF Rests, SameData, Uploaded
<1>12. ASSUME NEW r, NEW l, OpenNode(m, r, l) PROVE Rests(n)
  BY <1>12 DEF OpenNode, ClusterUnchanged, Rests, SameData, Uploaded, TypeOK
<1>13. ASSUME NEW o \in Objs, ApplyObject(m, o) PROVE Rests(n)
  <2>1. made'[n] = made[n] /\ result'[n] = result[n]
    BY <1>13
    DEF ApplyObject, Create, Apply, Undefined, Stored, NotStored, Reported, TypeOK
  <2>2. pc'[n] = pc[n] \/ pc'[n] = "crashed"
    BY <1>13 DEF ApplyObject, Create, Apply, Undefined, DieWith, TypeOK
  <2>3. work'[n] = work[n]
    BY <1>13 DEF ApplyObject, TypeOK
  <2>4. UNCHANGED <<slot, tree, listed, todo, seen, pending, sent, gaps, goal, skipped>>
    BY <1>13 DEF ApplyObject
  <2>5. always'[n] \subseteq always[n] /\ ever[n] \subseteq ever'[n]
    BY <1>13, ObserveGrows DEF ApplyObject
  <2> QED
    BY <2>1, <2>2, <2>3, <2>4, <2>5 DEF Rests, SameData, Uploaded
<1>14. CASE RestoreApplied(m)
  BY <1>14 DEF RestoreApplied, Goto, facts, Rests, SameData, Uploaded, TypeOK
<1> QED
  BY <1>1, <1>2, <1>3, <1>4, <1>5, <1>6, <1>7, <1>8, <1>9, <1>10, <1>11, <1>12, <1>13,
     <1>14 DEF Mission

-----------------------------------------------------------------------------
(* What a mission knows through its own steps.                             *)

\* What existed exists in the history.
LEMMA SeenExisted ==
  ASSUME TypeOK, Watched, NEW m \in Missions, Running(m), NEW o \in In(cluster)
  PROVE  /\ cluster[o] \in 1..MaxVersion /\ <<o, cluster[o]>> \in ever[m]
         /\ Existed(m, o)
<1>1. cluster[o] \in 1..MaxVersion
  BY BoundsAssumption DEF TypeOK, Trees, In, Absent
<1> QED
  BY <1>1 DEF Watched, Existed

\* A mission that starts knows nothing yet.
LEMMA StartKnows ==
  ASSUME TypeOK, Ordered, NEW m \in Missions, Knows(m), Start(m)
  PROVE  Knows(m)'
<1>1. /\ pc[m] = "idle" /\ Uploaded[m] = {} /\ Uploaded' = Uploaded
      /\ pc'[m] = IF m \in Backups THEN "discover" ELSE "find"
      /\ UNCHANGED <<local, facts>>
  BY DEF Start, Goto, TypeOK, Ordered, Before, Uploaded, local
<1>2. Kinded(m)'
  BY <1>1 DEF Knows, Kinded, local, Late, Over
<1>3. ~Listing(m)' /\ Listed(m)'
  BY <1>1 DEF Listing, Listed, Late, Over
<1>4. Copied(m)'
  BY <1>1 DEF Knows, Copied, local
<1>5. MadeKept(m)'
  BY <1>1 DEF Knows, MadeKept, local, facts
<1>6. Restored(m)'
  BY <1>1, <1>3 DEF Knows, Restored, Applying, local
<1> QED
  BY <1>2, <1>3, <1>4, <1>5, <1>6 DEF Knows

\* All lists are to come, and everything that exists is in a namespace found.
LEMMA DiscoverKnows ==
  ASSUME TypeOK, Ordered, Watched, NEW m \in Missions, Knows(m), Discover(m)
  PROVE  Knows(m)'
<1>1. /\ pc[m] = "discover" /\ Uploaded[m] = {} /\ Uploaded' = Uploaded
      /\ pc'[m] = "list" /\ todo'[m] = Lists /\ listed'[m] = spaces
      /\ UNCHANGED <<cluster, slot, tree, result, seen, pending, work, sent, ever, always>>
      /\ UNCHANGED facts
  BY DEF Discover, Goto, TypeOK, Ordered, Before, Uploaded, ClusterUnchanged
<1>2. Kinded(m)'
  BY <1>1 DEF Knows, Kinded, Late, Over
<1>3. Listed(m)'
  <2>1. ASSUME NEW o \in always[m]
        PROVE  /\ o \in Objs /\ (o \in ClusterObjs \/ NamespaceOf[o] \in spaces)
               /\ \A k \in 1..Times[ResourceOf[o]] : <<ResourceOf[o], k>> \in Lists
    <3>1. o \in Objs /\ o \in In(cluster)
      BY <1>1 DEF Watched, Running, TypeOK
    <3>2. ResourceOf[o] \in Resources
      BY <3>1, ObjsAssumption
    <3>3. \A k \in 1..Times[ResourceOf[o]] : <<ResourceOf[o], k>> \in Lists
      BY <3>2 DEF Lists
    <3> QED
      BY <3>1, <3>3 DEF Watched
  <2>2. Covered(m)'
    BY <1>1, <2>1 DEF Covered
  <2> QED
    BY <1>1, <2>1, <2>2 DEF Listed
<1>4. Copied(m)'
  BY <1>1 DEF Knows, Copied
<1>5. MadeKept(m)'
  BY <1>1 DEF Knows, MadeKept, facts
<1>6. Restored(m)'
  <2>1. Applying(m) /\ Settled(m)' = Settled(m) /\ \A o : Existed(m, o)' <=> Existed(m, o)
    BY <1>1 DEF Applying, Settled, Existed, facts
  <2> QED
    BY <1>1, <2>1 DEF Knows, Restored
<1> QED
  BY <1>2, <1>3, <1>4, <1>5, <1>6 DEF Knows

\* A list finds what is there, or is among the gaps.
LEMMA ListKnows ==
  ASSUME TypeOK, Ordered, Watched, NEW m \in Missions, Knows(m), NEW r, NEW k,
         ListResource(m, r, k)
  PROVE  Knows(m)'
<1>1. /\ pc[m] = "list" /\ Uploaded[m] = {} /\ Uploaded' = Uploaded
      /\ todo'[m] = todo[m] \ {<<r, k>>}
      /\ pc'[m] = IF todo'[m] # {} THEN "list" ELSE IF m \in Backups THEN "check" ELSE "apply"
      /\ UNCHANGED <<cluster, slot, result, listed, pending, work, sent, ever, always, goal>>
      /\ UNCHANGED <<skipped, made>>
  BY DEF ListResource, Goto, TypeOK, Ordered, Before, Uploaded, shared
<1>2. \/ /\ m \in Backups
         /\ tree'[m] = [o \in Objs |-> IF o \in Visible(m, r) \cap Wanted[m]
                                         THEN cluster[o] ELSE tree[m][o]]
         /\ seen' = seen /\ gaps' = gaps
      \/ /\ m \notin Backups
         /\ seen'[m] = seen[m] \cup Visible(m, r)
         /\ tree' = tree /\ gaps' = gaps
      \/ /\ gaps'[m] = gaps[m] \cup {<<r, k>>}
         /\ tree' = tree /\ seen' = seen
  BY DEF ListResource, TypeOK
<1>3. Running(m) /\ Listing(m)
  BY <1>1 DEF Running, Listing
<1>4. Visible(m, r) \subseteq In(cluster)
  BY DEF Visible
<1>5. \A o \in In(cluster) : /\ o \in Objs /\ cluster[o] \in 1..MaxVersion
                             /\ <<o, cluster[o]>> \in ever[m] /\ Existed(m, o)
  BY <1>3, SeenExisted DEF In
<1>6. \A o : Existed(m, o)' <=> Existed(m, o)
  BY <1>1 DEF Existed
<1>7. Kinded(m)'
  BY <1>1 DEF Knows, Kinded, Late, Over
<1>8. Listed(m)'
  <2>1. ASSUME NEW o \in always[m] \cap Asked(m)
        PROVE  \/ o \in Found(m)'
               \/ \A j \in 1..Times[ResourceOf[o]] :
                    <<ResourceOf[o], j>> \in todo'[m] \cup gaps'[m]
    <3>1. o \in Found(m) => o \in Found(m)'
      BY <1>2, <1>5, <1>4, BoundsAssumption DEF Found, In, Absent
    <3>2. CASE \A j \in 1..Times[ResourceOf[o]] : <<ResourceOf[o], j>> \in todo[m] \cup gaps[m]
      <4>1. CASE ResourceOf[o] # r
        BY <1>1, <1>2, <3>2, <4>1
      <4>2. CASE ResourceOf[o] = r
        <5>1. o \in Visible(m, r)
          BY <1>1, <1>3, <4>2 DEF Knows, Listed, Watched, Visible
        <5>2. CASE gaps'[m] = gaps[m] \cup {<<r, k>>}
          BY <1>1, <3>2, <5>2
        <5>3. CASE ~(gaps'[m] = gaps[m] \cup {<<r, k>>})
          <6>1. o \in Objs /\ cluster[o] # Absent
            BY <5>1, <1>4 DEF In
          <6> QED
            BY <1>2, <5>1, <5>3, <6>1 DEF Found, Asked, In
        <5> QED
          BY <5>2, <5>3
      <4> QED
        BY <4>1, <4>2
    <3> QED
      BY <1>3, <3>1, <3>2 DEF Knows, Listed, Covered
  <2>2. Covered(m)'
    BY <1>1, <2>1 DEF Covered, Asked
  <2> QED
    BY <1>1, <1>3, <2>2 DEF Knows, Listed
<1>9. Copied(m)'
  <2>1. ASSUME m \in Backups, NEW o \in In(tree'[m])
        PROVE  o \in Wanted[m] /\ <<o, tree'[m][o]>> \in ever[m]
    <3>1. o \in Objs
      BY DEF In
    <3>2. CASE tree'[m][o] = tree[m][o]
      <4>1. o \in In(tree[m])
        BY <2>1, <3>1, <3>2 DEF In
      <4> QED
        BY <2>1, <3>2, <4>1 DEF Knows, Copied
    <3>3. CASE tree'[m][o] # tree[m][o]
      <4>1. o \in Visible(m, r) \cap Wanted[m] /\ tree'[m][o] = cluster[o]
        BY <1>2, <2>1, <3>1, <3>3
      <4> QED
        BY <1>4, <1>5, <4>1
    <3> QED
      BY <3>2, <3>3
  <2> QED
    BY <1>1, <2>1 DEF Copied
<1>10. MadeKept(m)'
  BY <1>1, <1>2 DEF Knows, MadeKept
<1>11. Restored(m)'
  <2> SUFFICES ASSUME m \notin Backups PROVE Restored(m)'
    BY DEF Restored
  <2>1. tree' = tree /\ Settled(m)' = Settled(m)
    BY <1>1, <1>2 DEF Settled
  <2>2. \A o \in seen'[m] : Existed(m, o)'
    BY <1>2, <1>4, <1>5, <1>6 DEF Knows, Restored
  <2>3. pending[m] = In(tree[m])
    BY <1>1, <1>3 DEF Knows, Restored, Applying
  <2> QED
    BY <1>1, <1>3, <1>6, <2>1, <2>2, <2>3 DEF Knows, Restored, Applying
<1> QED
  BY <1>7, <1>8, <1>9, <1>10, <1>11 DEF Knows

\* The download sets the goal; what cannot be unpacked is skipped.
LEMMA FetchKnows ==
  ASSUME TypeOK, Ordered, NEW m \in Missions, Knows(m), Fetch(m)
  PROVE  Knows(m)'
<1>1. /\ pc[m] = "fetch" /\ Uploaded[m] = {} /\ Uploaded' = Uploaded /\ work[m] = {}
      /\ pc'[m] \in {"failed", "discover", "crashed"}
      /\ UNCHANGED <<slot, result, listed, todo, seen, work, sent, ever, always, made>>
  BY DEF Fetch, Goto, DieWith, Running, TypeOK, Ordered, Before, Uploaded
<1>2. m \notin Backups /\ made[m] = {} /\ seen[m] = {}
  BY <1>1 DEF Knows, Kinded, MadeKept, Restored
<1>3. ~Listing(m)' /\ Listed(m)'
  BY <1>1 DEF Listing, Listed, Late, Over
<1>4. Kinded(m)'
  BY <1>1, <1>2 DEF Kinded, Late, Over
<1>5. Copied(m)'
  BY <1>2 DEF Copied
<1>6. CASE /\ UNCHANGED <<tree, pending, goal, skipped>> /\ pc'[m] # "discover"
  <2>1. MadeKept(m)'
    BY <1>1, <1>2, <1>6 DEF MadeKept
  <2>2. Restored(m)'
    BY <1>1, <1>2, <1>3, <1>6 DEF Restored, Applying
  <2> QED
    BY <1>3, <1>4, <1>5, <2>1, <2>2 DEF Knows
<1>7. ASSUME NEW whole, NEW t,
             tree' = [tree EXCEPT ![m] = t], pending' = [pending EXCEPT ![m] = In(t)],
             goal' = [goal EXCEPT ![m] = whole],
             skipped' = [skipped EXCEPT ![m] = In(whole) \ In(t)]
      PROVE  Knows(m)'
  <2>1. /\ tree'[m] = t /\ pending'[m] = In(t) /\ goal'[m] = whole
        /\ skipped'[m] = In(whole) \ In(t)
    BY <1>7 DEF TypeOK
  <2>2. MadeKept(m)'
    BY <1>1, <1>2 DEF MadeKept
  <2>3. Settled(m)' = {}
    BY <2>1 DEF Settled
  <2>4. Restored(m)'
    BY <1>1, <1>2, <1>3, <2>1, <2>3 DEF Restored, Applying
  <2> QED
    BY <1>3, <1>4, <1>5, <2>2, <2>4 DEF Knows
<1> QED
  <2>1. \/ /\ UNCHANGED <<tree, pending, goal, skipped>>
           /\ Goto(m, "failed") \/ DieWith(m)
        \/ \E whole, t :
             /\ tree' = [tree EXCEPT ![m] = t] /\ pending' = [pending EXCEPT ![m] = In(t)]
             /\ goal' = [goal EXCEPT ![m] = whole]
             /\ skipped' = [skipped EXCEPT ![m] = In(whole) \ In(t)]
    BY DEF Fetch
  <2>2. Goto(m, "failed") \/ DieWith(m) => pc'[m] # "discover"
    BY <1>1 DEF Goto, DieWith, TypeOK
  <2> QED
    BY <1>6, <1>7, <2>1, <2>2

\* A node is compared: what is missing is in hand, what was seen has existed.
LEMMA OpenKnows ==
  ASSUME TypeOK, Ordered, NEW m \in Missions, Knows(m),
         NEW r, NEW n \in Namespaces \cup {ClusterLevel}, OpenNode(m, r, n)
  PROVE  Knows(m)'
<1> DEFINE node == Node(pending[m], r, n)
<1>1. /\ pc[m] = "apply" /\ Uploaded[m] = {} /\ Uploaded' = Uploaded /\ work[m] = {}
      /\ node \subseteq pending[m] /\ pending'[m] = pending[m] \ node
      /\ UNCHANGED <<slot, result, listed, todo, seen, sent, ever, always, made, goal, gaps>>
      /\ UNCHANGED pc
  BY DEF OpenNode, TypeOK, Ordered, Before, Uploaded, ClusterUnchanged, Node
<1>2. m \notin Backups /\ Listing(m) /\ Applying(m)
  BY <1>1 DEF Knows, Kinded, Listing, Applying
<1>3. \/ /\ work'[m] = node \ seen[m]
         /\ In(tree'[m]) = In(tree[m]) \ (node \cap seen[m])
         /\ skipped'[m] = skipped[m]
      \/ /\ node \cap seen[m] = {}
         /\ work' = work /\ tree' = tree /\ skipped'[m] = skipped[m] \cup node
  <2>1. CASE /\ work' = [work EXCEPT ![m] = Missing(node, seen[m])]
             /\ tree' = [tree EXCEPT ![m] = Prune(@, node, seen[m])]
             /\ UNCHANGED skipped
    <3>1. work'[m] = node \ seen[m] /\ tree'[m] = Prune(tree[m], node, seen[m])
      BY <2>1 DEF TypeOK, Missing
    <3>2. tree[m] \in Trees
      BY DEF TypeOK
    <3>3. In(tree'[m]) = In(tree[m]) \cap (In(tree[m]) \ (node \cap seen[m]))
      BY <3>1, <3>2, TreeParts DEF Prune
    <3> QED
      BY <2>1, <3>1, <3>3
  <2>2. CASE /\ Node(seen[m], r, n) = {} /\ UNCHANGED <<work, tree>>
             /\ skipped' = [skipped EXCEPT ![m] = @ \cup node]
    BY <2>2 DEF Node, TypeOK
  <2> QED
    BY <2>1, <2>2 DEF OpenNode
<1>4. Kinded(m)'
  BY <1>1 DEF Knows, Kinded
<1>5. Listed(m)'
  <2>1. Covered(m)' <=> Covered(m)
    BY <1>1, <1>2 DEF Covered, Found
  <2> QED
    BY <1>1, <1>2, <2>1 DEF Knows, Listed
<1>6. Copied(m)'
  BY <1>2 DEF Copied
<1>7. MadeKept(m)'
  <2>1. made[m] \subseteq In(tree[m]) /\ made[m] \cap pending[m] = {}
    BY <1>2 DEF Knows, MadeKept
  <2>2. made[m] \subseteq In(tree'[m])
    BY <1>1, <1>3, <2>1
  <2>3. (made[m] \cup work'[m]) \cap pending'[m] = {}
    BY <1>1, <1>3, <2>1
  <2> QED
    BY <1>1, <2>2, <2>3 DEF MadeKept
<1>8. Restored(m)'
  <2>1. /\ \A o \in seen[m] : Existed(m, o)
        /\ (In(tree[m]) \ pending[m]) \cap seen[m] = {}
        /\ result[m] = "Success" => \A o \in Settled(m) : Existed(m, o)
    BY <1>2 DEF Knows, Restored
  <2>2. (In(tree'[m]) \ pending'[m]) \cap seen[m] = {}
    BY <1>1, <1>3, <2>1
  <2>3. \A o \in Settled(m)' : o \in Settled(m) \/ o \in seen[m]
    BY <1>1, <1>3 DEF Settled
  <2>4. \A o : Existed(m, o)' <=> Existed(m, o)
    BY <1>1 DEF Existed
  <2> QED
    BY <1>1, <2>1, <2>2, <2>3, <2>4 DEF Restored
<1> QED
  BY <1>4, <1>5, <1>6, <1>7, <1>8 DEF Knows

\* An object is created, or is there, or is reported.
LEMMA ApplyKnows ==
  ASSUME TypeOK, Ordered, Watched, NEW m \in Missions, Knows(m), NEW o \in Objs,
         ApplyObject(m, o)
  PROVE  Knows(m)'
<1>1. /\ pc[m] = "apply" /\ Uploaded[m] = {} /\ Uploaded' = Uploaded
      /\ o \in work[m] /\ work'[m] = work[m] \ {o}
      /\ UNCHANGED <<slot, tree, listed, todo, seen, pending, sent, gaps, goal, skipped>>
  BY DEF ApplyObject, TypeOK, Ordered, Before, Uploaded
<1>2. /\ m \notin Backups /\ Running(m) /\ Listing(m) /\ Applying(m)
      /\ always'[m] \subseteq always[m] /\ ever[m] \subseteq ever'[m]
  BY <1>1, ObserveGrows DEF ApplyObject, Knows, Kinded, Running, Listing, Applying
<1>3. pc'[m] \in {"apply", "crashed"} /\ made'[m] \subseteq made[m] \cup {o}
  BY <1>1 DEF ApplyObject, Create, Apply, Undefined, DieWith, Stored, NotStored, TypeOK
<1>4. \/ result'[m] = "PartialFailed"
      \/ result'[m] = result[m] /\ (Stored(m, o) \/ cluster[o] # Absent)
      \/ pc'[m] = "crashed"
  BY <1>1 DEF ApplyObject, Create, Apply, Undefined, DieWith, Reported, Running, TypeOK
<1>5. o \in In(tree[m]) /\ tree[m][o] \in 1..MaxVersion
  BY <1>1, BoundsAssumption DEF TypeOK, Trees, In, Absent
<1>6. \A q : Existed(m, q) => Existed(m, q)'
  BY <1>2 DEF Existed
<1>7. Kinded(m)'
  BY <1>1, <1>2, <1>3 DEF Kinded, Late, Over
<1>8. Listed(m)'
  <2>1. Covered(m) => Covered(m)'
    BY <1>1, <1>2 DEF Covered, Found, Asked
  <2> QED
    BY <1>1, <1>2, <1>3, <2>1 DEF Knows, Listed
<1>9. Copied(m)'
  BY <1>2 DEF Copied
<1>10. MadeKept(m)'
  BY <1>1, <1>2, <1>3, <1>5 DEF Knows, MadeKept
<1>11. Restored(m)'
  <2>1. ASSUME pc'[m] # "crashed", result'[m] = "Success"
        PROVE  result[m] = "Success" /\ Existed(m, o)'
    <3>1. CASE cluster[o] # Absent
      <4>1. o \in In(cluster)
        BY <3>1 DEF In
      <4> QED
        BY <1>2, <1>4, <1>6, <2>1, <4>1, SeenExisted
    <3>2. CASE Stored(m, o)
      <4>1. cluster'[o] = tree[m][o] /\ o \in In(cluster')
        BY <1>5, <3>2, BoundsAssumption DEF Stored, TypeOK, Trees, In, Absent
      <4>2. <<o, tree[m][o]>> \in ever'[m]
        BY <1>2, <4>1 DEF ApplyObject, Observe
      <4> QED
        BY <1>4, <1>5, <2>1, <4>2 DEF Existed
    <3> QED
      BY <1>4, <2>1, <3>1, <3>2
  <2>2. \A q \in Settled(m)' : q \in Settled(m) \/ q = o
    BY <1>1 DEF Settled
  <2>3. Applying(m)' => pc'[m] = "apply"
    BY <1>1, <1>3 DEF Applying, Listing, Late, Over
  <2>4. \A q \in seen'[m] : Existed(m, q)'
    BY <1>1, <1>2, <1>6 DEF Knows, Restored
  <2>5. (In(tree'[m]) \ pending'[m]) \cap seen'[m] = {}
    BY <1>1, <1>2 DEF Knows, Restored
  <2>6. ASSUME Applying(m)', result'[m] = "Success", NEW q \in Settled(m)'
        PROVE  Existed(m, q)'
    BY <1>2, <1>6, <2>1, <2>2, <2>3, <2>6 DEF Knows, Restored
  <2> QED
    BY <1>3, <2>3, <2>4, <2>5, <2>6 DEF Restored
<1> QED
  BY <1>7, <1>8, <1>9, <1>10, <1>11 DEF Knows

\* The root moves to the slots of restores.
LEMMA AppliedKnows ==
  ASSUME TypeOK, Ordered, NEW m \in Missions, Knows(m), RestoreApplied(m)
  PROVE  Knows(m)'
<1>1. /\ pc[m] = "apply" /\ pc'[m] = "check" /\ Uploaded[m] = {} /\ Uploaded' = Uploaded
      /\ pending[m] = {} /\ work[m] = {} /\ slot'[m].kind = "restore"
      /\ UNCHANGED <<tree, result, listed, todo, seen, pending, work, sent, ever, always>>
      /\ UNCHANGED facts
  <2>1. slot'[m].kind = "restore"
    BY DEF RestoreApplied, TypeOK, Slots
  <2> QED
    BY <2>1 DEF RestoreApplied, Goto, TypeOK, Ordered, Before, Uploaded
<1>2. m \notin Backups /\ Listing(m) /\ Applying(m)
  BY <1>1 DEF Knows, Kinded, Listing, Applying
<1>3. Kinded(m)'
  BY <1>1, <1>2 DEF Kinded
<1>4. Listed(m)'
  <2>1. Covered(m)' <=> Covered(m)
    BY <1>1 DEF Covered, Found, facts
  <2> QED
    BY <1>1, <1>2, <2>1 DEF Knows, Listed
<1>5. Copied(m)'
  BY <1>2 DEF Copied
<1>6. MadeKept(m)'
  BY <1>1, <1>2 DEF Knows, MadeKept, facts
<1>7. Restored(m)'
  <2>1. Settled(m)' = Settled(m) /\ \A o : Existed(m, o)' <=> Existed(m, o)
    BY <1>1 DEF Settled, Existed, facts
  <2> QED
    BY <1>1, <1>2, <2>1 DEF Knows, Restored
<1> QED
  BY <1>3, <1>4, <1>5, <1>6, <1>7 DEF Knows

\* The backup of a name is found, and nothing is known yet.
LEMMA FindKnows ==
  ASSUME TypeOK, Ordered, NEW m \in Missions, Knows(m), FindBackup(m)
  PROVE  Knows(m)'
<1>1. /\ pc[m] = "find" /\ pc'[m] \in {"fetch", "failed"} /\ Uploaded[m] = {}
      /\ Uploaded' = Uploaded /\ UNCHANGED <<local, facts>>
  BY DEF FindBackup, Goto, TypeOK, Ordered, Before, Uploaded, local
<1>2. m \notin Backups
  BY <1>1 DEF Knows, Kinded
<1>3. ~Listing(m)' /\ Listed(m)'
  BY <1>1 DEF Listing, Listed, Late, Over
<1>4. Kinded(m)' /\ Copied(m)'
  BY <1>1, <1>2 DEF Kinded, Copied, Late, Over
<1>5. MadeKept(m)'
  BY <1>1 DEF Knows, MadeKept, local, facts
<1>6. Restored(m)'
  BY <1>1, <1>3 DEF Knows, Restored, Applying, local
<1> QED
  BY <1>3, <1>4, <1>5, <1>6 DEF Knows

\* What a mission knows holds at first, and every step keeps it.
LEMMA KnowsInit == Init => KnowsInv
<1> SUFFICES ASSUME Init PROVE KnowsInv
  OBVIOUS
<1>1. Watched
  BY ObjsAssumption, FirstAssumption DEF Init, Watched, Running, In
<1>2. ASSUME NEW m \in Missions PROVE Knows(m)
  <2>1. /\ pc[m] \in {"idle", "done", "failed"}
        /\ m \notin Earlier => pc[m] = "idle" /\ sent[m] = {}
        /\ m \in Earlier => pc[m] # "idle"
        /\ todo[m] = {} /\ seen[m] = {} /\ pending[m] = {} /\ work[m] = {}
        /\ made[m] = {} /\ always[m] = {}
        /\ slot[m].kind = "backup"
        /\ ever[m] = {<<o, tree[m][o]>> : o \in In(tree[m])}
    BY DEF Init, Root
  <2>2. (m \in Earlier => m \in Backups) /\ (Uploaded[m] # {} => m \in Earlier)
    BY <2>1, EarlierAssumption DEF Uploaded
  <2>3. Kinded(m)
    BY <2>1, <2>2 DEF Kinded, Late, Over
  <2>4. Listed(m)
    BY <2>1, <2>2 DEF Listed, Listing, Covered, Late, Over
  <2>5. Copied(m)
    <3>1. CASE m \in Earlier
      <4>1. PICK t \in FirstBackups : tree[m] = t
        BY <3>1 DEF Init
      <4>2. \A o \in In(tree[m]) : o \in Wanted[m]
        BY <3>1, <4>1, EarlierAssumption DEF In, Absent
      <4> QED
        BY <2>1, <3>1, <4>2 DEF Copied
    <3>2. CASE m \notin Earlier
      BY <3>2 DEF Init, Copied, EmptyTree, In, Absent
    <3> QED
      BY <3>1, <3>2
  <2>6. MadeKept(m)
    BY <2>1 DEF MadeKept
  <2>7. Restored(m)
    BY <2>1, <2>2 DEF Restored, Applying, Listing, Late, Over
  <2> QED
    BY <2>3, <2>4, <2>5, <2>6, <2>7 DEF Knows
<1> QED
  BY <1>1, <1>2 DEF KnowsInv

\* Of a step by another mission and by itself, each keeps what it knows.
LEMMA KnowsStep == TypeOK /\ Ordered /\ KnowsInv /\ [Next]_vars => KnowsInv'
<1> SUFFICES ASSUME TypeOK, Ordered, KnowsInv, [Next]_vars, NEW n \in Missions
             PROVE  Knows(n)'
  BY WatchedStep DEF KnowsInv
<1>1. Watched /\ \A m \in Missions : Knows(m)
  BY DEF KnowsInv
<1>2. CASE Rests(n)
  BY <1>1, <1>2, RestsKeeps
<1>3. CASE Users \/ Tick \/ UNCHANGED vars
  BY <1>2, <1>3, UsersRest
<1>4. ASSUME NEW m \in Missions, Mission(m) \/ Kill(m), m # n PROVE Knows(n)'
  BY <1>2, <1>4, OthersRest
<1>5. ASSUME Mission(n) \/ Kill(n) PROVE Knows(n)'
  <2>1. CASE Kill(n)
    BY <1>2, <2>1
    DEF Kill, DieWith, local, facts, Rests, SameData, Uploaded, TypeOK
  <2>2. CASE Error(n)
    BY <1>2, <2>2
    DEF Error, Goto, local, facts, Rests, SameData, Uploaded, TypeOK
  <2>3. CASE CheckExist(n)
    <3>1. slot'[n].kind = slot[n].kind
      BY <2>3 DEF CheckExist, Named, TypeOK, Slots
    <3>2. /\ pc[n] \in Late /\ pc'[n] \in Late \cup {"failed", "crashed"}
          /\ Uploaded' = Uploaded
      BY <2>3 DEF CheckExist, Goto, DieWith, TypeOK, Late, Over, Uploaded
    <3> QED
      BY <1>2, <2>3, <3>1, <3>2 DEF CheckExist, ClusterUnchanged, Rests, SameData
  <2>4. ASSUME NEW file, UploadArchive(n, file) PROVE Knows(n)'
    BY <1>2, <2>4
    DEF UploadArchive, Goto, ClusterUnchanged, facts, Rests, SameData, Late, Over, TypeOK
  <2>5. CASE UploadLog(n)
    BY <1>2, <2>5 DEF UploadLog, Goto, ClusterUnchanged, local, facts, Rests, SameData,
                      Late, Over, TypeOK
  <2>6. CASE UploadStatus(n)
    BY <1>2, <2>6 DEF UploadStatus, Goto, ClusterUnchanged, local, facts, Rests, SameData,
                      Late, Over, TypeOK
  <2> QED
    BY <1>1, <1>5, <2>1, <2>2, <2>3, <2>4, <2>5, <2>6, StartKnows, DiscoverKnows, ListKnows,
       FindKnows, FetchKnows, OpenKnows, ApplyKnows, AppliedKnows
    DEF Mission
<1> QED
  BY <1>3, <1>4, <1>5 DEF Next

-----------------------------------------------------------------------------
(* What the missions do.                                                   *)

\* The invariant of the proofs.
IInv == TypeOK /\ Ordered /\ StoreInv /\ KnowsInv

\* It holds of the first states, and every step keeps it.
LEMMA Invariance == Spec => []IInv
<1>1. Init => IInv
  BY TypeInit, OrderedInit, StoreInit, KnowsInit DEF IInv
<1>2. IInv /\ [Next]_vars => IInv'
  BY TypeStep, OrderedStep, StoreStep, KnowsStep DEF IInv
<1> QED
  BY <1>1, <1>2, PTL DEF Spec

\* An archive is the tree of its author, in the slot of its author, whose kind
\* it has.
LEMMA StoredTree ==
  ASSUME IInv, NEW s \in Slots, store[s].json.by # NoMission
  PROVE  LET m == store[s].json.by IN
         /\ m \in Missions /\ Knows(m) /\ Uploaded[m] # {} /\ slot[m] = s
         /\ store[s].json.tree = tree[m] /\ pc[m] \notin Before
         /\ m \in Backups <=> s.kind = "backup"
<1> DEFINE m == store[s].json.by
<1>1. m \in Missions
  BY DEF IInv, TypeOK, Files
<1>2. "json" \in Uploaded[m] /\ slot[m] = s /\ store[s].json.tree = tree[m]
  BY <1>1 DEF IInv, StoreInv, Signed
<1>3. Knows(m)
  BY <1>1 DEF IInv, KnowsInv
<1>4. m \in Backups <=> s.kind = "backup"
  BY <1>2, <1>3 DEF Knows, Kinded
<1>5. pc[m] \notin Before
  BY <1>1, <1>2 DEF IInv, Ordered, Uploaded, Before
<1> QED
  BY <1>1, <1>2, <1>3, <1>4, <1>5

\* A backup holds what existed while it ran, in a content it had then, and
\* what existed all the while is in it unless every list of its resource
\* failed: GetResourceTree lists resource after resource and drops errors.
THEOREM BackupCorrect == Spec => []BackupFaithful
<1>1. IInv => BackupFaithful
  <2> SUFFICES ASSUME IInv, NEW s \in Slots, store[s].json.by # NoMission, s.kind = "backup"
               PROVE  LET m == store[s].json.by
                          t == store[s].json.tree IN
                      /\ \A o \in In(t) : o \in Wanted[m] /\ <<o, t[o]>> \in ever[m]
                      /\ \A o \in Wanted[m] \cap always[m] : Missed(m, o) \/ o \in In(t)
    BY DEF BackupFaithful
  <2> DEFINE m == store[s].json.by
  <2>1. /\ m \in Backups /\ Knows(m) /\ Listing(m) /\ pc[m] # "list"
        /\ store[s].json.tree = tree[m]
    BY StoredTree DEF Listing, Before
  <2>2. todo[m] = {} /\ Covered(m)
    BY <2>1 DEF Knows, Listed
  <2>3. \A o \in Wanted[m] \cap always[m] : Missed(m, o) \/ o \in In(tree[m])
    BY <2>1, <2>2 DEF Covered, Asked, Found, Missed
  <2> QED
    BY <2>1, <2>3 DEF Knows, Copied
<1> QED
  BY <1>1, Invariance, PTL

\* The archive of a restore has all that the restore wrote, and nothing that
\* it could see all the while.
THEOREM RecordCorrect == Spec => []RecordExact
<1>1. IInv => RecordExact
  <2> SUFFICES ASSUME IInv, NEW s \in Slots, store[s].json.by # NoMission, s.kind = "restore"
               PROVE  LET m == store[s].json.by
                          t == store[s].json.tree IN
                      made[m] \subseteq In(t) /\ \A o \in In(t) \cap always[m] : Missed(m, o)
    BY DEF RecordExact
  <2> DEFINE m == store[s].json.by
  <2>1. /\ m \in Missions \ Backups /\ Knows(m) /\ Listing(m) /\ Applying(m)
        /\ pc[m] \notin {"discover", "list", "apply"} /\ store[s].json.tree = tree[m]
    BY StoredTree DEF Listing, Applying, Before
  <2>2. /\ todo[m] = {} /\ Covered(m) /\ pending[m] = {}
        /\ (In(tree[m]) \ pending[m]) \cap seen[m] = {}
    BY <2>1 DEF Knows, Listed, Restored
  <2>3. \A o \in In(tree[m]) \cap always[m] : Missed(m, o)
    BY <2>1, <2>2 DEF Covered, Asked, Found, Missed, In
  <2> QED
    BY <2>1, <2>3 DEF Knows, MadeKept
<1> QED
  BY <1>1, Invariance, PTL

\* A restore that leaves Success has made or found everything it was to
\* restore, except what it skipped without a word.
THEOREM SuccessCorrect == Spec => []SuccessMeansRestored
<1>1. IInv => SuccessMeansRestored
  <2> SUFFICES ASSUME IInv, NEW s \in Slots, s.kind = "restore",
                      store[s].status.by # NoMission, store[s].status.result = "Success"
               PROVE  LET m == store[s].status.by IN
                      \A o \in In(goal[m]) \ skipped[m] : Existed(m, o)
    BY DEF SuccessMeansRestored, Existed
  <2> DEFINE m == store[s].status.by
  <2>1. m \in Missions
    BY DEF IInv, TypeOK, Files
  <2>2. pc[m] = "done" /\ slot[m] = s /\ result[m] = "Success" /\ Knows(m)
    BY <2>1 DEF IInv, StoreInv, Signed, KnowsInv
  <2>3. m \notin Backups /\ Applying(m)
    BY <2>2 DEF Knows, Kinded, Applying, Listing, Late, Over
  <2>4. pending[m] = {} /\ work[m] = {} /\ \A o \in Settled(m) : Existed(m, o)
    BY <2>2, <2>3 DEF Knows, Restored
  <2> QED
    BY <2>4 DEF Settled
<1> QED
  BY <1>1, Invariance, PTL

\* A restore creates only what is not there, and applies an object that is in
\* no namespace only where no list of its resource has shown it.
THEOREM KeepsCorrect == Spec => KeepsWhatItFinds
<1> DEFINE Step == \A m \in Missions, o \in Objs :
       ApplyObject(m, o) =>
         \A q \in In(cluster) :
           \/ cluster'[q] = cluster[q]
           \/ /\ q \in ClusterObjs
              /\ q \notin always[m] \/ Missed(m, q)
<1>1. IInv => Step
  <2> SUFFICES ASSUME IInv, NEW m \in Missions, NEW o \in Objs, ApplyObject(m, o),
                      NEW q \in In(cluster)
               PROVE  \/ cluster'[q] = cluster[q]
                      \/ /\ q \in ClusterObjs
                         /\ q \notin always[m] \/ Missed(m, q)
    OBVIOUS
  <2> SUFFICES ASSUME cluster'[q] # cluster[q]
               PROVE  q \in ClusterObjs /\ (q \in always[m] => Missed(m, q))
    OBVIOUS
  <2>1. Stored(m, o) /\ q = o
    BY DEF ApplyObject, Create, Apply, Undefined, Stored, NotStored, IInv, TypeOK, Trees, In
  <2>2. o \in ClusterObjs
    BY <2>1 DEF ApplyObject, Create, Apply, Undefined, Placeable, In, NotStored
  <2>3. /\ pc[m] = "apply" /\ Knows(m) /\ o \in work[m]
    BY DEF ApplyObject, IInv, KnowsInv
  <2>4. m \notin Backups /\ Listing(m) /\ Applying(m)
    BY <2>3 DEF Knows, Kinded, Listing, Applying
  <2>5. o \in In(tree[m]) \ pending[m]
    BY <2>3, <2>4 DEF Knows, MadeKept, IInv, TypeOK
  <2>6. o \notin seen[m] /\ todo[m] = {} /\ Covered(m)
    BY <2>3, <2>4, <2>5 DEF Knows, Restored, Listed
  <2> QED
    BY <2>1, <2>2, <2>4, <2>6 DEF Covered, Asked, Found, Missed, In
<1> QED
  BY <1>1, Invariance, PTL DEF KeepsWhatItFinds

=============================================================================
