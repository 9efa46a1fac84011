--------------------------- MODULE MissionsProofs ---------------------------
(***************************************************************************)
(* Types, and what the store holds, for every number of missions, objects  *)
(* and faults.                                                             *)
(***************************************************************************)
EXTENDS Missions, TLAPS

-----------------------------------------------------------------------------
(* The order in which a mission goes through its steps.                    *)

\* The steps before a mission uploads anything.
Before == {"idle", "find", "fetch", "discover", "list", "apply", "check"}

\* A mission has nothing in hand before it applies, and has uploaded nothing
\* before it uploads.  Missions that were over stay over.
Ordered ==
  \A m \in Missions :
    /\ m \in Earlier => pc[m] \in {"done", "failed"}
    /\ pc[m] \in Before => sent[m] = {}
    /\ pc[m] \in Before \ {"apply"} => work[m] = {}

-----------------------------------------------------------------------------
(* Types.                                                                  *)

\* The parts of a tree are trees.
LEMMA TreeParts ==
  ASSUME NEW t \in Trees, NEW S
  PROVE  /\ Only(t, S) \in Trees /\ In(Only(t, S)) = In(t) \cap S
         /\ EmptyTree \in Trees /\ In(EmptyTree) = {}
BY BoundsAssumption DEF Trees, Only, In, EmptyTree, Absent

\* The constants that an initial state is made of.
LEMMA FilesNone == NoArchive \in [by : Missions \cup {NoMission}, tree : Trees]
                   /\ NoFiles \in Files
BY BoundsAssumption DEF NoArchive, NoFiles, NoStatus, Files, Results, Trees, EmptyTree, Absent

\* The root that a caller asks for names a slot.
LEMMA SlotRoot == ASSUME NEW n \in Names \cup {Unnamed} PROVE Root(n) \in Slots
BY BoundsAssumption DEF Root, Slots, NoStamp

\* The missions start with the types.
LEMMA TypeInit == Init => TypeOK
<1> SUFFICES ASSUME Init PROVE TypeOK
  OBVIOUS
<1>1. cluster \in Trees
  BY FirstAssumption DEF Init, Trees
<1>2. slot \in [Missions -> Slots]
  BY SlotRoot DEF Init
<1>3. EmptyTree \in Trees
  BY BoundsAssumption DEF Trees, EmptyTree, Absent
<1>4. tree \in [Missions -> Trees]
  BY <1>3, FirstAssumption DEF Init, Trees
<1>5. store \in [Slots -> Files]
  <2>1. ASSUME NEW m \in Missions PROVE Left(m) \in Files
    BY <1>4, FilesNone DEF Left, Files, NoFiles, NoStatus, Results
  <2> QED
    BY <2>1, FilesNone, EarlierAssumption, MissionsAssumption DEF Init
<1>6. ever \in [Missions -> SUBSET (Objs \X (1..MaxVersion))]
  <2>1. ASSUME NEW m \in Missions, NEW o \in In(tree[m])
        PROVE  o \in Objs /\ tree[m][o] \in 1..MaxVersion
    BY <1>4, BoundsAssumption DEF In, Trees, Absent
  <2> QED
    BY <2>1 DEF Init
<1>7. pc \in [Missions -> Steps] /\ result \in [Missions -> Results]
  BY DEF Init, Steps, Results
<1>8. /\ {seen, always, skipped, made, pending, work} \subseteq [Missions -> SUBSET Objs]
      /\ listed \in [Missions -> SUBSET Namespaces]
      /\ todo \in [Missions -> SUBSET Lists] /\ gaps \in [Missions -> SUBSET Lists]
      /\ sent \in [Missions -> SUBSET {"json", "yaml"}]
      /\ \A m \in Missions : pending[m] \cup work[m] = {}
  BY DEF Init
<1>9. /\ goal \in [Missions -> Trees] /\ spaces \subseteq Namespaces /\ raced = {}
      /\ clock \in 0..MaxClock /\ budget \in 0..MaxFaults /\ edits \in 0..MaxEdits
  BY <1>3, BoundsAssumption DEF Init
<1> QED
  BY <1>1, <1>2, <1>4, <1>5, <1>6, <1>7, <1>8, <1>9 DEF TypeOK

\* A change of the cluster is observed within the types.
LEMMA ObserveType ==
  ASSUME TypeOK, Observe, cluster' \in Trees
  PROVE  /\ ever' \in [Missions -> SUBSET (Objs \X (1..MaxVersion))]
         /\ always' \in [Missions -> SUBSET Objs]
<1>1. \A o \in In(cluster') : o \in Objs /\ cluster'[o] \in 1..MaxVersion
  BY BoundsAssumption DEF In, Trees, Absent
<1> QED
  BY <1>1 DEF TypeOK, Observe

\* Steps and deaths of missions keep their places known.
LEMMA PcType ==
  ASSUME TypeOK, NEW m \in Missions,
         (\E step \in Steps : Goto(m, step)) \/ DieWith(m)
  PROVE  pc' \in [Missions -> Steps]
BY DEF TypeOK, Goto, DieWith, Steps

\* Every upload keeps the types of the files.
LEMMA PutType ==
  ASSUME TypeOK, NEW s \in Slots, NEW file, NEW content, Put(s, file, content),
         \/ /\ file \in {"json", "yaml"}
            /\ content \in [by : Missions \cup {NoMission}, tree : Trees]
         \/ file = "log" /\ content \in Missions
         \/ file = "status" /\ content \in [by : Missions \cup {NoMission}, result : Results]
  PROVE  store' \in [Slots -> Files]
<1>1. store[s] \in Files
  BY DEF TypeOK
<1>2. CASE file = "json"
  BY <1>1, <1>2 DEF TypeOK, Put, Files
<1>3. CASE file = "yaml"
  BY <1>1, <1>3 DEF TypeOK, Put, Files
<1>4. CASE file = "log"
  BY <1>1, <1>4 DEF TypeOK, Put, Files
<1>5. CASE file = "status"
  BY <1>1, <1>5 DEF TypeOK, Put, Files
<1> QED
  BY <1>2, <1>3, <1>4, <1>5

\* A disturbance is taken from what is left of them.
LEMMA DisturbType ==
  ASSUME TypeOK, NEW kind, Disturb(kind)
  PROVE  budget' \in 0..MaxFaults
BY BoundsAssumption DEF TypeOK, Disturb

\* Roots that get a name of the present second, or move on to be a restore.
LEMMA StampType ==
  ASSUME NEW s \in Slots, NEW c \in 0..MaxClock
  PROVE  /\ [s EXCEPT !.stamp = c] \in Slots
         /\ [s EXCEPT !.kind = "restore", !.stamp = c] \in Slots
<1> c \in NoStamp..MaxClock
  BY BoundsAssumption DEF NoStamp
<1> QED
  BY DEF Slots

\* Every step keeps the types.
LEMMA TypeStep == TypeOK /\ Ordered /\ [Next]_vars => TypeOK'
<1> SUFFICES ASSUME TypeOK, Ordered, [Next]_vars PROVE TypeOK'
  OBVIOUS
<1>1. ASSUME NEW o \in Objs, UserWrite(o) PROVE TypeOK'
  <2>1. cluster' \in Trees
    BY <1>1 DEF UserWrite, TypeOK, Trees
  <2> QED
    BY <1>1, <2>1, ObserveType, BoundsAssumption
    DEF UserWrite, Edit, TypeOK, local, facts
<1>2. ASSUME NEW o \in Objs, UserDelete(o) PROVE TypeOK'
  <2>1. cluster' \in Trees
    BY <1>2, BoundsAssumption DEF UserDelete, TypeOK, Trees, Absent
  <2> QED
    BY <1>2, <2>1, ObserveType, BoundsAssumption
    DEF UserDelete, Edit, TypeOK, local, facts
<1>3. ASSUME NEW n \in Namespaces, UserDeleteSpace(n) PROVE TypeOK'
  <2>1. cluster' \in Trees
    BY <1>3, BoundsAssumption DEF UserDeleteSpace, TypeOK, Trees, Absent
  <2> QED
    BY <1>3, <2>1, ObserveType, BoundsAssumption
    DEF UserDeleteSpace, Edit, TypeOK, local, facts
<1>4. CASE Tick
  BY <1>4, BoundsAssumption DEF Tick, TypeOK, local, facts, bounds
<1>5. ASSUME NEW m \in Missions, Kill(m) PROVE TypeOK'
  BY <1>5, PcType, DisturbType DEF Kill, TypeOK, shared, local, facts
<1>6. ASSUME NEW m \in Missions, Start(m) PROVE TypeOK'
  <2>1. \A o \in In(cluster) : o \in Objs /\ cluster[o] \in 1..MaxVersion
    BY BoundsAssumption DEF TypeOK, In, Trees, Absent
  <2>2. pc' \in [Missions -> Steps]
    BY <1>6, PcType DEF Start, Steps
  <2>3. /\ ever' \in [Missions -> SUBSET (Objs \X (1..MaxVersion))]
        /\ always' \in [Missions -> SUBSET Objs]
    BY <1>6, <2>1 DEF Start, TypeOK
  <2> QED
    BY <1>6, <2>2, <2>3 DEF Start, TypeOK, shared, local, facts, bounds
<1>7. ASSUME NEW m \in Missions, Error(m) PROVE TypeOK'
  <2>1. pc' \in [Missions -> Steps]
    BY <1>7, PcType DEF Error, Steps
  <2> QED
    BY <1>7, <2>1, DisturbType DEF Error, TypeOK, shared, local, facts
<1>8. ASSUME NEW m \in Missions, Discover(m) PROVE TypeOK'
  <2>1. pc' \in [Missions -> Steps]
    BY <1>8, PcType DEF Discover, Steps
  <2> QED
    BY <1>8, <2>1 DEF Discover, TypeOK, ClusterUnchanged, facts, bounds
<1>9. ASSUME NEW m \in Missions, NEW r, NEW k, ListResource(m, r, k) PROVE TypeOK'
  <2>1. pc' \in [Missions -> Steps]
    BY <1>9, PcType DEF ListResource, Steps
  <2>2. todo' \in [Missions -> SUBSET Lists] /\ <<r, k>> \in Lists
    BY <1>9 DEF ListResource, TypeOK
  <2>3. /\ tree' \in [Missions -> Trees] /\ seen' \in [Missions -> SUBSET Objs]
        /\ \A n \in Missions : In(tree[n]) \subseteq In(tree'[n])
        /\ gaps' \in [Missions -> SUBSET Lists] /\ budget' \in 0..MaxFaults
    <3>1. CASE UNCHANGED <<seen, gaps, budget>>
      <4> DEFINE t == [o \in Objs |-> IF o \in Visible(m, r) \cap Wanted[m]
                                         THEN cluster[o] ELSE tree[m][o]]
      <4>1. t \in Trees /\ In(tree[m]) \subseteq In(t)
        BY DEF TypeOK, Trees, In, Visible
      <4>2. tree' = tree \/ tree' = [tree EXCEPT ![m] = t]
        BY <1>9 DEF ListResource
      <4> HIDE DEF t
      <4>3. CASE tree' = tree
        BY <3>1, <4>3 DEF TypeOK
      <4>4. CASE tree' = [tree EXCEPT ![m] = t]
        <5>1. /\ tree' \in [Missions -> Trees]
              /\ \A n \in Missions : In(tree[n]) \subseteq In(tree'[n])
          BY <4>1, <4>4 DEF TypeOK
        <5> QED
          BY <3>1, <5>1 DEF TypeOK
      <4> QED
        BY <4>2, <4>3, <4>4
    <3>2. CASE UNCHANGED <<tree, gaps, budget>>
      BY <1>9, <3>2 DEF ListResource, TypeOK, Visible, In
    <3>3. CASE Disturb("list") /\ UNCHANGED <<tree, seen>>
      BY <1>9, <2>2, <3>3, DisturbType DEF ListResource, TypeOK
    <3> QED
      BY <1>9, <3>1, <3>2, <3>3 DEF ListResource
  <2> QED
    BY <1>9, <2>1, <2>2, <2>3 DEF ListResource, TypeOK, shared
<1>10. ASSUME NEW m \in Missions, CheckExist(m) PROVE TypeOK'
  <2>1. pc' \in [Missions -> Steps]
    BY <1>10, PcType DEF CheckExist, Steps
  <2>2. Named(slot[m]) \in Slots
    BY StampType DEF Named, TypeOK
  <2>3. slot' \in [Missions -> Slots] /\ raced' \subseteq SUBSET Missions
    BY <1>10, <2>2 DEF CheckExist, TypeOK, Uploading
  <2>4. budget' \in 0..MaxFaults
    BY <1>10, DisturbType DEF CheckExist, TypeOK
  <2> QED
    BY <1>10, <2>1, <2>3, <2>4 DEF CheckExist, TypeOK, ClusterUnchanged
<1>11. ASSUME NEW m \in Missions, NEW file \in {"json", "yaml"}, UploadArchive(m, file)
       PROVE  TypeOK'
  <2>1. pc' \in [Missions -> Steps]
    BY <1>11, PcType DEF UploadArchive, Steps
  <2>2. store' \in [Slots -> Files]
    BY <1>11, PutType DEF UploadArchive, TypeOK
  <2>3. sent' \in [Missions -> SUBSET {"json", "yaml"}] /\ budget' \in 0..MaxFaults
    BY <1>11, DisturbType DEF UploadArchive, TypeOK
  <2> QED
    BY <1>11, <2>1, <2>2, <2>3 DEF UploadArchive, TypeOK, ClusterUnchanged, facts
<1>12. ASSUME NEW m \in Missions, UploadLog(m) PROVE TypeOK'
  <2>1. pc' \in [Missions -> Steps]
    BY <1>12, PcType DEF UploadLog, Steps
  <2>2. store' \in [Slots -> Files] /\ budget' \in 0..MaxFaults
    BY <1>12, PutType, DisturbType DEF UploadLog, TypeOK
  <2> QED
    BY <1>12, <2>1, <2>2 DEF UploadLog, TypeOK, ClusterUnchanged, facts, local
<1>13. ASSUME NEW m \in Missions, UploadStatus(m) PROVE TypeOK'
  <2>1. pc' \in [Missions -> Steps]
    BY <1>13, PcType DEF UploadStatus, Steps
  <2>2. store' \in [Slots -> Files] /\ budget' \in 0..MaxFaults
    BY <1>13, PutType, DisturbType DEF UploadStatus, TypeOK
  <2> QED
    BY <1>13, <2>1, <2>2 DEF UploadStatus, TypeOK, ClusterUnchanged, facts, local
<1>14. ASSUME NEW m \in Missions, FindBackup(m) PROVE TypeOK'
  <2>1. pc' \in [Missions -> Steps]
    BY <1>14, PcType DEF FindBackup, Steps
  <2> QED
    BY <1>14, <2>1 DEF FindBackup, TypeOK, shared, local, facts, bounds
<1>15. ASSUME NEW m \in Missions, Fetch(m) PROVE TypeOK'
  <2> DEFINE archive == store[slot[m]].json
             whole == Only(archive.tree, Wanted[m])
  <2>1. archive.tree \in Trees
    BY DEF TypeOK, Files
  <2>2. /\ whole \in Trees /\ In(whole) \subseteq Objs
        /\ \A S \in SUBSET Objs : Only(whole, S) \in Trees
    BY <2>1, TreeParts DEF In
  <2>3. pc' \in [Missions -> Steps]
    BY <1>15, PcType DEF Fetch, Steps
  <2>4. budget' \in 0..MaxFaults
    BY <1>15, DisturbType DEF Fetch, TypeOK
  <2>5. CASE UNCHANGED <<tree, pending, goal, skipped>>
    BY <1>15, <2>3, <2>4, <2>5 DEF Fetch, TypeOK, shared
  <2>6. ASSUME NEW t \in Trees,
               tree' = [tree EXCEPT ![m] = t], pending' = [pending EXCEPT ![m] = In(t)],
               goal' = [goal EXCEPT ![m] = whole],
               skipped' = [skipped EXCEPT ![m] = In(whole) \ In(t)]
        PROVE  TypeOK'
    <3>1. work' = work /\ work[m] = {}
      BY <1>15 DEF Fetch, Ordered, Before
    <3>2. /\ tree' \in [Missions -> Trees] /\ goal' \in [Missions -> Trees]
          /\ pending' \in [Missions -> SUBSET Objs]
          /\ skipped' \in [Missions -> SUBSET Objs]
      BY <2>2, <2>6 DEF TypeOK, In
    <3>3. \A k \in Missions : pending'[k] \cup work'[k] \subseteq In(tree'[k])
      BY <2>6, <3>1 DEF TypeOK
    <3>4. /\ UNCHANGED <<shared, slot, result, listed, todo, seen, work, sent>>
          /\ UNCHANGED <<ever, always, gaps, made, raced, edits>>
      BY <1>15 DEF Fetch
    <3> QED
      BY <2>3, <2>4, <3>2, <3>3, <3>4 DEF TypeOK, shared
  <2> QED
    BY <1>15, <2>2, <2>5, <2>6 DEF Fetch
<1>16. ASSUME NEW m \in Missions, NEW r, NEW n \in Namespaces \cup {ClusterLevel},
              OpenNode(m, r, n)
       PROVE  TypeOK'
  <2> DEFINE node == Node(pending[m], r, n)
             rest == In(tree[m]) \ (node \cap seen[m])
  <2>1. /\ node \subseteq pending[m] /\ pending[m] \subseteq In(tree[m])
        /\ pending[m] \subseteq Objs
    BY DEF Node, TypeOK
  <2>2. Prune(tree[m], node, seen[m]) \in Trees
        /\ In(Prune(tree[m], node, seen[m])) = rest
    BY TreeParts DEF Prune, TypeOK
  <2>3. spaces' \subseteq Namespaces /\ budget' \in 0..MaxFaults
    BY <1>16, DisturbType DEF OpenNode, TypeOK
  <2>4. /\ pending' \in [Missions -> SUBSET Objs] /\ work' \in [Missions -> SUBSET Objs]
        /\ skipped' \in [Missions -> SUBSET Objs] /\ tree' \in [Missions -> Trees]
    BY <1>16, <2>1, <2>2 DEF OpenNode, TypeOK, Missing
  <2>5. ASSUME NEW k \in Missions PROVE pending'[k] \cup work'[k] \subseteq In(tree'[k])
    <3>1. CASE k = m
      <4>1. pending'[m] = pending[m] \ node /\ work[m] = {}
        BY <1>16 DEF OpenNode, TypeOK
      <4>2. CASE work' = work /\ tree' = tree
        BY <2>1, <3>1, <4>1, <4>2
      <4>3. CASE /\ work' = [work EXCEPT ![m] = node \ seen[m]]
                 /\ tree' = [tree EXCEPT ![m] = Prune(@, node, seen[m])]
        <5>1. work'[m] = node \ seen[m] /\ In(tree'[m]) = rest
          BY <2>2, <4>3 DEF TypeOK
        <5>2. \A o \in pending[m] \ node : o \in rest
          BY <2>1
        <5> QED
          BY <2>1, <3>1, <4>1, <5>1, <5>2
      <4> QED
        BY <1>16, <4>2, <4>3 DEF OpenNode, Missing
    <3>2. CASE k # m
      BY <1>16, <3>2 DEF OpenNode, TypeOK
    <3> QED
      BY <3>1, <3>2
  <2>6. /\ ClusterUnchanged
        /\ UNCHANGED <<store, clock, pc, slot, result, listed, todo, seen, sent, gaps>>
        /\ UNCHANGED <<goal, made, raced, edits>>
    BY <1>16 DEF OpenNode
  <2> QED
    BY <2>3, <2>4, <2>5, <2>6 DEF TypeOK, ClusterUnchanged
<1>17. ASSUME NEW m \in Missions, NEW o \in Objs, ApplyObject(m, o) PROVE TypeOK'
  <2>1. work' \in [Missions -> SUBSET Objs] /\ tree' = tree /\ pending' = pending
        /\ \A k \in Missions : work'[k] \subseteq work[k]
    BY <1>17 DEF ApplyObject, TypeOK
  <2>2. /\ pc' \in [Missions -> Steps] /\ budget' \in 0..MaxFaults
        /\ cluster' \in Trees /\ made' \in [Missions -> SUBSET Objs]
        /\ result' \in [Missions -> Results]
    <3>1. (\E step \in Steps : Goto(m, step)) \/ DieWith(m) \/ pc' = pc
      BY <1>17 DEF ApplyObject, Create, Apply, Undefined
    <3>2. budget' = budget \/ \E kind \in Faults : Disturb(kind)
      BY <1>17 DEF ApplyObject, Create, Apply, Undefined, Disturb
    <3>3. Stored(m, o) \/ NotStored
      BY <1>17 DEF ApplyObject, Create, Apply, Undefined
    <3>4. result' = result \/ Reported(m)
      BY <1>17 DEF ApplyObject, Create, Apply, Undefined
    <3>5. pc' \in [Missions -> Steps] /\ budget' \in 0..MaxFaults
      BY <3>1, <3>2, PcType, DisturbType DEF TypeOK
    <3>6. cluster' \in Trees /\ made' \in [Missions -> SUBSET Objs]
      <4>1. tree[m][o] \in 0..MaxVersion
        BY DEF TypeOK, Trees
      <4>2. CASE Stored(m, o)
        <5>1. cluster' \in [Objs -> 0..MaxVersion]
          BY <4>1, <4>2 DEF Stored, TypeOK, Trees
        <5>2. made' \in [Missions -> SUBSET Objs]
          BY <4>2 DEF Stored, TypeOK
        <5> QED
          BY <5>1, <5>2 DEF Trees
      <4>3. CASE NotStored
        BY <4>3 DEF NotStored, TypeOK
      <4> QED
        BY <3>3, <4>2, <4>3
    <3>7. result' \in [Missions -> Results]
      BY <3>4 DEF Reported, TypeOK, Results
    <3> QED
      BY <3>5, <3>6, <3>7
  <2>3. /\ ever' \in [Missions -> SUBSET (Objs \X (1..MaxVersion))]
        /\ always' \in [Missions -> SUBSET Objs]
    BY <1>17, <2>2, ObserveType DEF ApplyObject
  <2>4. /\ UNCHANGED <<spaces, store, clock, slot, tree, listed, todo, seen, pending>>
        /\ UNCHANGED <<sent, gaps, goal, skipped, raced, edits>>
    BY <1>17 DEF ApplyObject
  <2>5. \A k \in Missions : pending'[k] \cup work'[k] \subseteq In(tree'[k])
    BY <2>1 DEF TypeOK
  <2> QED
    BY <2>1, <2>2, <2>3, <2>4, <2>5 DEF TypeOK
<1>18. ASSUME NEW m \in Missions, RestoreApplied(m) PROVE TypeOK'
  <2>1. pc' \in [Missions -> Steps]
    BY <1>18, PcType DEF RestoreApplied, Steps
  <2>2. slot' \in [Missions -> Slots]
    <3>1. [slot[m] EXCEPT !.kind = "restore", !.stamp = clock] \in Slots
      BY StampType DEF TypeOK
    <3> QED
      BY <1>18, <3>1 DEF RestoreApplied, TypeOK
  <2> QED
    BY <1>18, <2>1, <2>2 DEF RestoreApplied, TypeOK, shared, facts, bounds
<1>19. CASE UNCHANGED vars
  BY <1>19 DEF vars, shared, local, facts, bounds, TypeOK
<1> QED
  BY <1>1, <1>2, <1>3, <1>4, <1>5, <1>6, <1>7, <1>8, <1>9, <1>10, <1>11, <1>12,
     <1>13, <1>14, <1>15, <1>16, <1>17, <1>18, <1>19
  DEF Next, Users, Mission

\* The order holds at first.
LEMMA OrderedInit == Init => Ordered
BY DEF Init, Ordered, Before

\* Every step keeps the order.
LEMMA OrderedStep == TypeOK /\ Ordered /\ [Next]_vars => Ordered'
<1> SUFFICES ASSUME TypeOK, Ordered, [Next]_vars PROVE Ordered'
  OBVIOUS
<1> USE DEF Before
<1>1. CASE UNCHANGED <<pc, sent, work>>
  BY <1>1 DEF Ordered
<1>2. ASSUME NEW m \in Missions, DieWith(m), UNCHANGED <<sent, work>>
      PROVE  Ordered'
  BY <1>2 DEF Ordered, DieWith, Running, TypeOK
<1>3. ASSUME NEW m \in Missions, pc[m] \notin {"done", "failed"}, NEW step, Goto(m, step),
             \/ step \notin Before
             \/ pc[m] \in Before \ {"apply"}
             \/ step = "check" /\ work[m] = {} /\ pc[m] = "apply",
             UNCHANGED <<sent, work>>
      PROVE  Ordered'
  <2>1. pc'[m] = step /\ \A n \in Missions \ {m} : pc'[n] = pc[n]
    BY <1>3 DEF Goto, TypeOK
  <2>2. m \notin Earlier
    BY <1>3 DEF Ordered
  <2>3. step \in Before => sent[m] = {}
    BY <1>3 DEF Ordered
  <2>4. step \in Before \ {"apply"} => work[m] = {}
    BY <1>3 DEF Ordered
  <2> QED
    BY <1>3, <2>1, <2>2, <2>3, <2>4 DEF Ordered
<1>4. ASSUME NEW m \in Missions, pc[m] = "apply", UNCHANGED sent, pc' = pc \/ DieWith(m),
             \A n \in Missions \ {m} : work'[n] = work[n]
      PROVE  Ordered'
  BY <1>4 DEF Ordered, DieWith, Running, TypeOK
<1>5. ASSUME NEW m \in Missions, Mission(m) \/ Kill(m) PROVE Ordered'
  <2>1. CASE Kill(m)
    BY <1>2, <2>1 DEF Kill, local
  <2>2. CASE Start(m)
    BY <1>3, <2>2 DEF Start, local
  <2>3. CASE Error(m)
    BY <1>3, <2>3 DEF Error, local
  <2>4. CASE Discover(m)
    BY <1>3, <2>4 DEF Discover
  <2>5. ASSUME NEW r, NEW k, ListResource(m, r, k) PROVE Ordered'
    BY <1>3, <2>5 DEF ListResource
  <2>6. CASE CheckExist(m)
    BY <1>2, <1>3, <2>6 DEF CheckExist
  <2>7. ASSUME NEW file, UploadArchive(m, file) PROVE Ordered'
    BY <2>7 DEF UploadArchive, Ordered, Goto, TypeOK
  <2>8. CASE UploadLog(m)
    BY <1>3, <2>8 DEF UploadLog, local
  <2>9. CASE UploadStatus(m)
    BY <1>3, <2>9 DEF UploadStatus, local
  <2>10. CASE FindBackup(m)
    BY <1>3, <2>10 DEF FindBackup, local
  <2>11. CASE Fetch(m)
    BY <1>2, <1>3, <2>11 DEF Fetch
  <2>12. ASSUME NEW r, NEW n, OpenNode(m, r, n) PROVE Ordered'
    BY <1>4, <2>12 DEF OpenNode, TypeOK
  <2>13. ASSUME NEW o, ApplyObject(m, o) PROVE Ordered'
    <3>1. pc' = pc \/ DieWith(m)
      BY <2>13 DEF ApplyObject, Create, Apply, Undefined
    <3> QED
      BY <1>4, <2>13, <3>1 DEF ApplyObject, TypeOK
  <2>14. CASE RestoreApplied(m)
    BY <1>3, <2>14 DEF RestoreApplied
  <2> QED
    BY <1>5, <2>1, <2>2, <2>3, <2>4, <2>5, <2>6, <2>7, <2>8, <2>9, <2>10, <2>11,
       <2>12, <2>13, <2>14 DEF Mission
<1>6. CASE Users \/ Tick \/ UNCHANGED vars
  BY <1>1, <1>6
  DEF Users, UserWrite, UserDelete, UserDeleteSpace, Edit, Tick, vars, local
<1> QED
  BY <1>5, <1>6 DEF Next

\* The state has its type.
THEOREM TypeCorrect == Spec => []TypeOK
<1>1. Init => TypeOK /\ Ordered
  BY TypeInit, OrderedInit
<1>2. TypeOK /\ Ordered /\ [Next]_vars => TypeOK' /\ Ordered'
  BY TypeStep, OrderedStep
<1> QED
  BY <1>1, <1>2, PTL DEF Spec

-----------------------------------------------------------------------------
(* What the store holds, and who put it there.                             *)

\* The archives of a mission that have been in its slot.
Uploaded == sent
Over == {"log", "status", "done"}

\* What is in the store was put there by the mission it names.
Signed ==
  \A s \in Slots, m \in Missions :
    /\ \A f \in {"json", "yaml"} :
         store[s][f].by = m
           => f \in Uploaded[m] /\ slot[m] = s /\ store[s][f].tree = tree[m]
    /\ store[s].status.by = m
         => pc[m] = "done" /\ slot[m] = s /\ store[s].status.result = result[m]

\* What a mission has uploaded is still there, or something in its place; it
\* gets to its log with both archives uploaded or with none to upload.
Kept ==
  \A m \in Missions :
    /\ \A f \in Uploaded[m] : store[slot[m]][f].by # NoMission
    /\ pc[m] \in Over /\ In(tree[m]) # {} => Uploaded[m] = {"json", "yaml"}

\* A mission that uploads shares its slot only with missions it races.
Alone ==
  \A m, n \in Missions :
    /\ pc[n] = "upload" /\ slot[n] = slot[m] /\ m # n /\ slot[m].name # Unnamed
    /\ pc[m] = "upload" \/ Uploaded[m] # {}
    => {m, n} \in raced

\* Who replaced the archive of a mission has raced it.
Replaced ==
  \A m \in Missions :
    "json" \in Uploaded[m] /\ slot[m].name # Unnamed =>
      LET n == store[slot[m]].json.by IN m = n \/ {m, n} \in raced

StoreInv == Signed /\ Kept /\ Alone /\ Replaced

\* A step that uploads nothing and looks for no name.  Before its uploads a
\* mission may move its root and change its tree.
Quiet ==
  /\ UNCHANGED <<store, sent, raced>>
  /\ \A m \in Missions :
       /\ pc[m] \notin Before => slot'[m] = slot[m] /\ tree'[m] = tree[m]
       /\ pc[m] = "done" => result'[m] = result[m]
       /\ \/ pc'[m] = pc[m]
          \/ pc[m] \in Before /\ pc'[m] \in Before
          \/ pc[m] \in Before /\ pc'[m] = "log" /\ In(tree'[m]) = {}
          \/ pc[m] = "status" /\ pc'[m] = "done"
          \/ pc[m] # "done" /\ pc'[m] \in {"failed", "crashed"}

\* Such a step keeps what is known of the store.
LEMMA QuietKeeps == TypeOK /\ Ordered /\ StoreInv /\ Quiet => StoreInv'
<1> SUFFICES ASSUME TypeOK, Ordered, StoreInv, Quiet PROVE StoreInv'
  OBVIOUS
<1>1. Uploaded' = Uploaded
  BY DEF Quiet, Uploaded
<1>2. ASSUME NEW m \in Missions,
             \/ Uploaded[m] # {}
             \/ pc'[m] \in {"upload", "status", "done"}
             \/ pc'[m] = "log" /\ In(tree'[m]) # {}
      PROVE  slot'[m] = slot[m] /\ tree'[m] = tree[m]
  BY <1>2 DEF Quiet, Uploaded, Ordered, Before
<1>3. Signed'
  <2> SUFFICES ASSUME NEW s \in Slots, NEW m \in Missions
               PROVE  /\ \A f \in {"json", "yaml"} : store[s][f].by = m =>
                           /\ f \in Uploaded'[m] /\ slot'[m] = s
                           /\ store[s][f].tree = tree'[m]
                      /\ store[s].status.by = m =>
                           /\ pc'[m] = "done" /\ slot'[m] = s
                           /\ store[s].status.result = result'[m]
    BY DEF Signed, Quiet
  <2>1. ASSUME NEW f \in {"json", "yaml"}, store[s][f].by = m
        PROVE  f \in Uploaded'[m] /\ slot'[m] = s /\ store[s][f].tree = tree'[m]
    <3>1. f \in Uploaded[m] /\ slot[m] = s /\ store[s][f].tree = tree[m]
      BY <2>1 DEF StoreInv, Signed
    <3> QED
      BY <1>1, <1>2, <3>1
  <2>2. ASSUME store[s].status.by = m
        PROVE  pc'[m] = "done" /\ slot'[m] = s /\ store[s].status.result = result'[m]
    <3>1. pc[m] = "done" /\ slot[m] = s /\ store[s].status.result = result[m]
      BY <2>2 DEF StoreInv, Signed
    <3> QED
      BY <3>1 DEF Quiet, Before
  <2> QED
    BY <2>1, <2>2
<1>4. Kept'
  <2> SUFFICES ASSUME NEW m \in Missions
               PROVE  /\ \A f \in Uploaded'[m] : store[slot'[m]][f].by # NoMission
                      /\ pc'[m] \in Over /\ In(tree'[m]) # {}
                           => Uploaded'[m] = {"json", "yaml"}
    BY DEF Kept, Quiet, Over
  <2>1. ASSUME NEW f \in Uploaded'[m] PROVE store[slot'[m]][f].by # NoMission
    BY <1>1, <1>2, <2>1 DEF StoreInv, Kept
  <2>2. ASSUME pc'[m] \in Over, In(tree'[m]) # {} PROVE Uploaded'[m] = {"json", "yaml"}
    <3>1. pc[m] \in Over
      BY <2>2 DEF Quiet, Over, Before
    <3>2. tree'[m] = tree[m]
      BY <1>2, <2>2 DEF Over
    <3> QED
      BY <1>1, <2>2, <3>1, <3>2 DEF StoreInv, Kept
  <2> QED
    BY <2>1, <2>2
<1>5. Alone'
  <2> SUFFICES ASSUME NEW m \in Missions, NEW n \in Missions,
                      pc'[n] = "upload", slot'[n] = slot'[m], m # n,
                      slot'[m].name # Unnamed, pc'[m] = "upload" \/ Uploaded'[m] # {}
               PROVE  {m, n} \in raced
    BY DEF Alone, Quiet
  <2>1. pc[n] = "upload" /\ slot'[n] = slot[n]
    BY <1>2 DEF Quiet, Before
  <2>2. (pc[m] = "upload" \/ Uploaded[m] # {}) /\ slot'[m] = slot[m]
    BY <1>1, <1>2 DEF Quiet, Before
  <2> QED
    BY <2>1, <2>2 DEF StoreInv, Alone
<1>6. Replaced'
  <2> SUFFICES ASSUME NEW m \in Missions,
                      "json" \in Uploaded'[m], slot'[m].name # Unnamed
               PROVE  LET n == store[slot'[m]].json.by IN m = n \/ {m, n} \in raced
    BY DEF Replaced, Quiet
  <2> QED
    BY <1>1, <1>2 DEF StoreInv, Replaced
<1> QED
  BY <1>3, <1>4, <1>5, <1>6 DEF StoreInv

\* Steps of one mission that are quiet, and the death of a process.
LEMMA QuietMove ==
  ASSUME TypeOK, UNCHANGED <<store, sent, raced>>, NEW m \in Missions,
         \A n \in Missions \ {m} :
           slot'[n] = slot[n] /\ tree'[n] = tree[n] /\ result'[n] = result[n],
         pc[m] \notin Before => slot'[m] = slot[m] /\ tree'[m] = tree[m],
         pc[m] = "done" => result'[m] = result[m],
         \/ DieWith(m)
         \/ pc' = pc
         \/ \E step \in Before : Goto(m, step) /\ pc[m] \in Before
         \/ Goto(m, "log") /\ pc[m] \in Before /\ In(tree'[m]) = {}
         \/ Goto(m, "done") /\ pc[m] = "status"
         \/ Goto(m, "failed") /\ pc[m] # "done"
  PROVE  Quiet
<1>1. ASSUME NEW n \in Missions
      PROVE  \/ pc'[n] = pc[n]
             \/ pc[n] \in Before /\ pc'[n] \in Before
             \/ pc[n] \in Before /\ pc'[n] = "log" /\ In(tree'[n]) = {}
             \/ pc[n] = "status" /\ pc'[n] = "done"
             \/ pc[n] # "done" /\ pc'[n] \in {"failed", "crashed"}
  <2>1. CASE DieWith(m)
    BY <2>1 DEF DieWith, Running
  <2>2. CASE n # m /\ ~DieWith(m)
    BY <2>2 DEF Goto, TypeOK
  <2>3. CASE n = m /\ ~DieWith(m)
    BY <2>3 DEF Goto, TypeOK
  <2> QED
    BY <2>1, <2>2, <2>3
<1> QED
  BY <1>1 DEF Quiet

\* All steps but the uploads and the search that starts them are quiet.
LEMMA QuietSteps ==
  ASSUME TypeOK
  PROVE  /\ Users \/ Tick \/ UNCHANGED vars => Quiet
         /\ \A m \in Missions :
              /\ Kill(m) \/ Start(m) \/ Error(m) \/ Discover(m) => Quiet
              /\ \A r, k : ListResource(m, r, k) => Quiet
              /\ FindBackup(m) \/ Fetch(m) \/ RestoreApplied(m) => Quiet
              /\ \A r, n : OpenNode(m, r, n) => Quiet
              /\ \A o : ApplyObject(m, o) => Quiet
              /\ CheckExist(m) => Quiet \/ Goto(m, "upload")
              /\ UploadStatus(m) /\ UNCHANGED store => Quiet
<1>1. ASSUME Users \/ Tick \/ UNCHANGED vars PROVE Quiet
  <2>1. UNCHANGED <<store, sent, raced, slot, tree, result, pc>>
    BY <1>1 DEF Users, UserWrite, UserDelete, UserDeleteSpace, Edit, Tick, vars, shared,
                local, facts
  <2> QED
    BY <2>1 DEF Quiet
<1>2. ASSUME NEW m \in Missions PROVE
              /\ Kill(m) \/ Start(m) \/ Error(m) \/ Discover(m) => Quiet
              /\ \A r, k : ListResource(m, r, k) => Quiet
              /\ FindBackup(m) \/ Fetch(m) \/ RestoreApplied(m) => Quiet
              /\ \A r, n : OpenNode(m, r, n) => Quiet
              /\ \A o : ApplyObject(m, o) => Quiet
              /\ CheckExist(m) => Quiet \/ Goto(m, "upload")
              /\ UploadStatus(m) /\ UNCHANGED store => Quiet
  <2> USE DEF Before
  <2>1. Kill(m) => Quiet
    BY QuietMove DEF Kill, shared, local, facts
  <2>2. Start(m) => Quiet
    BY QuietMove DEF Start, shared, local, facts
  <2>3. Error(m) => Quiet
    BY QuietMove DEF Error, shared, local, facts
  <2>4. Discover(m) => Quiet
    BY QuietMove DEF Discover, facts
  <2>5. ASSUME NEW r, NEW k, ListResource(m, r, k) PROVE Quiet
    <3>1. \A n \in Missions \ {m} : tree'[n] = tree[n]
      BY <2>5 DEF ListResource, TypeOK
    <3> QED
      BY <2>5, <3>1, QuietMove DEF ListResource, shared
  <2>6. FindBackup(m) => Quiet
    BY QuietMove DEF FindBackup, shared, local, facts
  <2>7. ASSUME Fetch(m) PROVE Quiet
    <3>1. \A n \in Missions \ {m} : tree'[n] = tree[n]
      BY <2>7 DEF Fetch, TypeOK
    <3>2. \/ DieWith(m)
          \/ Goto(m, "failed")
          \/ Goto(m, "discover")
      BY <2>7 DEF Fetch
    <3>3. pc[m] = "fetch" /\ UNCHANGED <<shared, sent, raced, slot, result>>
      BY <2>7 DEF Fetch
    <3> QED
      BY <3>1, <3>2, <3>3, QuietMove DEF shared
  <2>8. ASSUME NEW r, NEW n, OpenNode(m, r, n) PROVE Quiet
    <3>1. \A l \in Missions \ {m} : tree'[l] = tree[l]
      BY <2>8 DEF OpenNode, TypeOK
    <3> QED
      BY <2>8, <3>1, QuietMove DEF OpenNode
  <2>9. ASSUME NEW o, ApplyObject(m, o) PROVE Quiet
    <3>1. \A n \in Missions \ {m} : result'[n] = result[n]
      BY <2>9 DEF ApplyObject, Create, Apply, Undefined, Reported, TypeOK
    <3>2. pc' = pc \/ DieWith(m)
      BY <2>9 DEF ApplyObject, Create, Apply, Undefined
    <3>3. pc[m] = "apply" /\ UNCHANGED <<store, sent, raced, slot, tree>>
      BY <2>9 DEF ApplyObject
    <3> QED
      BY <3>1, <3>2, <3>3, QuietMove
  <2>10. CheckExist(m) => Quiet \/ Goto(m, "upload")
    BY QuietMove DEF CheckExist
  <2>11. UploadStatus(m) /\ UNCHANGED store => Quiet
    BY QuietMove DEF UploadStatus, local, facts
  <2>12. RestoreApplied(m) => Quiet
    <3>1. RestoreApplied(m) => \A n \in Missions \ {m} : slot'[n] = slot[n]
      BY DEF RestoreApplied, TypeOK
    <3> QED
      BY <3>1, QuietMove DEF RestoreApplied, shared, facts
  <2> QED
    BY <2>1, <2>2, <2>3, <2>4, <2>5, <2>6, <2>7, <2>8, <2>9, <2>10, <2>11, <2>12
<1> QED
  BY <1>1, <1>2

\* What earlier backups left is signed and complete.
LEMMA StoreInit == Init => StoreInv
<1> SUFFICES ASSUME Init PROVE StoreInv
  OBVIOUS
<1>1. /\ Earlier \subseteq Missions /\ NoMission \notin Missions
      /\ Uploaded = sent /\ sent \in [Missions -> SUBSET {"json", "yaml"}]
      /\ result = [m \in Missions |-> "Success"]
      /\ \A m \in Missions \ Earlier : sent[m] = {} /\ pc[m] = "idle"
      /\ pc \in [Missions -> {"idle", "done", "failed"}]
      /\ \A m \in Missions : pc[m] = "done" => sent[m] = {"json", "yaml"}
      /\ slot \in [Missions -> Slots]
  BY SlotRoot, EarlierAssumption, MissionsAssumption DEF Init, Uploaded
<1>2. ASSUME NEW m \in Earlier PROVE store[slot[m]] = Left(m)
  <2> DEFINE c == CHOOSE e \in Earlier : slot[m] = slot[e]
  <2>1. c \in Earlier /\ slot[m] = slot[c]
    OBVIOUS
  <2>2. c = m
    BY <2>1 DEF Init
  <2>3. slot[m] \in Slots
    BY <1>1
  <2> QED
    BY <2>2, <2>3 DEF Init
<1>3. ASSUME NEW s \in Slots, \A m \in Earlier : s # slot[m] PROVE store[s] = NoFiles
  BY <1>3 DEF Init
<1>4. ASSUME NEW m \in Earlier
      PROVE  LET files == store[slot[m]] IN
             /\ \A f \in {"json", "yaml"} :
                  IF f \in sent[m] THEN files[f].by = m /\ files[f].tree = tree[m]
                                  ELSE files[f].by = NoMission
             /\ IF pc[m] = "done"
                  THEN files.status.by = m /\ files.status.result = "Success"
                  ELSE files.status.by = NoMission
  <2>1. store[slot[m]] = Left(m)
    BY <1>2
  <2>2. Left(m).json = IF "json" \in sent[m] THEN [by |-> m, tree |-> tree[m]]
                                            ELSE NoArchive
    BY DEF Left
  <2>3. Left(m).yaml = IF "yaml" \in sent[m] THEN [by |-> m, tree |-> tree[m]]
                                            ELSE NoArchive
    BY DEF Left
  <2>4. Left(m).status = IF pc[m] = "done" THEN [by |-> m, result |-> "Success"]
                                         ELSE NoStatus
    BY DEF Left
  <2> QED
    BY <2>1, <2>2, <2>3, <2>4 DEF NoArchive, NoStatus
<1>5. Signed
  <2> SUFFICES ASSUME NEW s \in Slots, NEW m \in Missions
               PROVE  /\ \A f \in {"json", "yaml"} : store[s][f].by = m =>
                           f \in Uploaded[m] /\ slot[m] = s /\ store[s][f].tree = tree[m]
                      /\ store[s].status.by = m =>
                           pc[m] = "done" /\ slot[m] = s /\ store[s].status.result = result[m]
    BY DEF Signed
  <2>1. CASE \A e \in Earlier : s # slot[e]
    BY <1>1, <1>3, <2>1 DEF NoFiles, NoArchive, NoStatus
  <2>2. ASSUME NEW e \in Earlier, s = slot[e]
        PROVE  /\ \A f \in {"json", "yaml"} : store[s][f].by = m =>
                    f \in Uploaded[m] /\ slot[m] = s /\ store[s][f].tree = tree[m]
               /\ store[s].status.by = m =>
                    pc[m] = "done" /\ slot[m] = s /\ store[s].status.result = result[m]
    <3>1. /\ \/ store[s].status.by = NoMission
             \/ /\ store[s].status.by = e /\ store[s].status.result = result[e]
                /\ pc[e] = "done"
          /\ \A f \in {"json", "yaml"} :
               \/ store[s][f].by = NoMission
               \/ store[s][f].by = e /\ store[s][f].tree = tree[e] /\ f \in Uploaded[e]
      BY <1>1, <1>4, <2>2
    <3> QED
      BY <1>1, <2>2, <3>1
  <2> QED
    BY <2>1, <2>2
<1>6. Kept
  <2> SUFFICES ASSUME NEW m \in Missions
               PROVE  /\ \A f \in sent[m] : store[slot[m]][f].by # NoMission
                      /\ pc[m] \in Over => sent[m] = {"json", "yaml"}
    BY <1>1 DEF Kept
  <2>1. pc[m] \in Over => sent[m] = {"json", "yaml"}
    BY <1>1 DEF Over
  <2>2. ASSUME NEW f \in sent[m] PROVE store[slot[m]][f].by # NoMission
    BY <1>1, <1>4, <2>2
  <2> QED
    BY <2>1, <2>2
<1>7. Alone
  <2>1. \A n \in Missions : pc[n] # "upload"
    BY <1>1
  <2> QED
    BY <2>1 DEF Alone
<1>8. Replaced
  BY <1>1, <1>4 DEF Replaced
<1> QED
  BY <1>5, <1>6, <1>7, <1>8 DEF StoreInv

\* The upload of an archive.  Where it replaces another, the two raced.
LEMMA ArchiveKeeps ==
  ASSUME TypeOK, Ordered, StoreInv, NEW m \in Missions, NEW file \in {"json", "yaml"},
         UploadArchive(m, file)
  PROVE  StoreInv'
<1>1. /\ pc[m] = "upload" /\ m \notin Earlier
      /\ UNCHANGED <<slot, tree, result, raced>>
      /\ \A n \in Missions \ {m} : pc'[n] = pc[n] /\ sent'[n] = sent[n]
  BY DEF UploadArchive, Ordered, facts, Goto, TypeOK
<1>2. /\ sent'[m] = sent[m] \cup {file}
      /\ pc'[m] \in {"upload", "log", "failed"}
      /\ pc'[m] = "log" => sent'[m] = {"json", "yaml"}
  BY DEF UploadArchive, Goto, TypeOK, AllSent
<1>3. /\ \A n \in Missions \ {m} : Uploaded'[n] = Uploaded[n]
      /\ Uploaded'[m] = Uploaded[m] \cup {file} /\ Uploaded'[m] = sent'[m]
  BY <1>1, <1>2 DEF Uploaded
<1>4. /\ store'[slot[m]][file] = [by |-> m, tree |-> tree[m]]
      /\ \A s \in Slots, f \in {"json", "yaml"} :
           s # slot[m] \/ f # file => store'[s][f] = store[s][f]
      /\ \A s \in Slots : store'[s].status = store[s].status
  BY DEF UploadArchive, Put, TypeOK, Files
<1>5. m # NoMission /\ \A n \in Missions : slot[n] \in Slots
  BY MissionsAssumption DEF TypeOK
<1>6. Signed'
  <2> SUFFICES ASSUME NEW s \in Slots, NEW n \in Missions
               PROVE  /\ \A f \in {"json", "yaml"} : store'[s][f].by = n =>
                           /\ f \in Uploaded'[n] /\ slot[n] = s
                           /\ store'[s][f].tree = tree[n]
                      /\ store'[s].status.by = n =>
                           /\ pc'[n] = "done" /\ slot[n] = s
                           /\ store'[s].status.result = result[n]
    BY <1>1 DEF Signed
  <2>1. ASSUME NEW f \in {"json", "yaml"}, store'[s][f].by = n
        PROVE  f \in Uploaded'[n] /\ slot[n] = s /\ store'[s][f].tree = tree[n]
    <3>1. CASE s = slot[m] /\ f = file
      BY <1>3, <1>4, <2>1, <3>1
    <3>2. CASE s # slot[m] \/ f # file
      <4>1. f \in Uploaded[n] /\ slot[n] = s /\ store[s][f].tree = tree[n]
        BY <1>4, <2>1, <3>2 DEF StoreInv, Signed
      <4> QED
        BY <1>3, <1>4, <3>2, <4>1
    <3> QED
      BY <3>1, <3>2
  <2>2. ASSUME store'[s].status.by = n
        PROVE  pc'[n] = "done" /\ slot[n] = s /\ store'[s].status.result = result[n]
    BY <1>1, <1>4, <2>2 DEF StoreInv, Signed
  <2> QED
    BY <2>1, <2>2
<1>7. Kept'
  <2> SUFFICES ASSUME NEW n \in Missions
               PROVE  /\ \A f \in Uploaded'[n] : store'[slot[n]][f].by # NoMission
                      /\ pc'[n] \in Over /\ In(tree[n]) # {}
                           => Uploaded'[n] = {"json", "yaml"}
    BY <1>1 DEF Kept, Over
  <2>1. ASSUME NEW f \in Uploaded'[n] PROVE store'[slot[n]][f].by # NoMission
    <3>1. CASE slot[n] = slot[m] /\ f = file
      BY <1>4, <1>5, <3>1
    <3>2. CASE slot[n] # slot[m] \/ f # file
      <4>1. f \in Uploaded[n] /\ f \in {"json", "yaml"}
        BY <1>1, <1>2, <1>3, <2>1, <3>2 DEF TypeOK, Uploaded
      <4> QED
        BY <1>4, <1>5, <3>2, <4>1 DEF StoreInv, Kept
    <3> QED
      BY <3>1, <3>2
  <2>2. ASSUME pc'[n] \in Over, In(tree[n]) # {} PROVE Uploaded'[n] = {"json", "yaml"}
    BY <1>1, <1>2, <1>3, <2>2 DEF StoreInv, Kept, Over
  <2> QED
    BY <2>1, <2>2
<1>8. Alone'
  <2> SUFFICES ASSUME NEW k \in Missions, NEW n \in Missions,
                      pc'[n] = "upload", slot[n] = slot[k], k # n,
                      slot[k].name # Unnamed, pc'[k] = "upload" \/ Uploaded'[k] # {}
               PROVE  {k, n} \in raced
    BY <1>1 DEF Alone
  <2>1. pc[n] = "upload"
    BY <1>1
  <2>2. pc[k] = "upload" \/ Uploaded[k] # {}
    BY <1>1, <1>3
  <2> QED
    BY <2>1, <2>2 DEF StoreInv, Alone
<1>9. Replaced'
  <2> SUFFICES ASSUME NEW k \in Missions, "json" \in Uploaded'[k], slot[k].name # Unnamed
               PROVE  k = store'[slot[k]].json.by \/ {k, store'[slot[k]].json.by} \in raced
    BY <1>1 DEF Replaced
  <2>1. CASE slot[k] = slot[m] /\ file = "json"
    <3>1. store'[slot[k]].json.by = m
      BY <1>4, <2>1
    <3>2. CASE k # m
      <4>1. "json" \in Uploaded[k]
        BY <1>3, <3>2
      <4> QED
        BY <1>1, <2>1, <3>1, <3>2, <4>1 DEF StoreInv, Alone
    <3> QED
      BY <3>1, <3>2
  <2>2. CASE slot[k] # slot[m] \/ file # "json"
    <3>1. "json" \in Uploaded[k]
      BY <1>3, <2>2
    <3>2. store'[slot[k]].json = store[slot[k]].json
      BY <1>4, <1>5, <2>2
    <3> QED
      BY <3>1, <3>2 DEF StoreInv, Replaced
  <2> QED
    BY <2>1, <2>2
<1> QED
  BY <1>6, <1>7, <1>8, <1>9 DEF StoreInv

\* The uploads of the log and of the status leave the archives alone.
LEMMA PutOther ==
  ASSUME TypeOK, NEW s \in Slots, NEW file \in {"log", "status"}, NEW content,
         Put(s, file, content)
  PROVE  \A t \in Slots, f \in {"json", "yaml"} : store'[t][f] = store[t][f]
<1>1. \A t \in Slots \ {s} : store'[t] = store[t]
  BY DEF Put, TypeOK, Files
<1>2. CASE file = "log"
  <2>1. store'[s] = [store[s] EXCEPT !.log = content] /\ store[s] \in Files
    BY <1>2 DEF Put, TypeOK
  <2> QED
    BY <1>1, <2>1 DEF Files
<1>3. CASE file = "status"
  <2>1. store'[s] = [store[s] EXCEPT !.status = content] /\ store[s] \in Files
    BY <1>3 DEF Put, TypeOK
  <2> QED
    BY <1>1, <2>1 DEF Files
<1> QED
  BY <1>2, <1>3

\* The upload of the log.
LEMMA LogKeeps ==
  ASSUME TypeOK, Ordered, StoreInv, NEW m \in Missions, UploadLog(m)
  PROVE  StoreInv'
<1>1. /\ UNCHANGED <<slot, tree, result, raced, sent>> /\ Uploaded' = Uploaded
      /\ pc[m] = "log" /\ pc'[m] \in {"status", "failed"}
      /\ \A n \in Missions \ {m} : pc'[n] = pc[n]
  BY DEF UploadLog, local, facts, Goto, TypeOK, Uploaded
<1>2. \A s \in Slots : /\ store'[s].json = store[s].json
                       /\ store'[s].yaml = store[s].yaml
                       /\ store'[s].status = store[s].status
  BY DEF UploadLog, Put, TypeOK, Files
<1>3. \A s \in Slots, f \in {"json", "yaml"} : store'[s][f] = store[s][f]
  BY <1>2
<1>4. \A n \in Missions : slot[n] \in Slots
  BY DEF TypeOK
<1>5. Signed'
  BY <1>1, <1>2, <1>3 DEF StoreInv, Signed
<1>6. Kept'
  <2>1. ASSUME NEW n \in Missions, NEW f \in Uploaded[n]
        PROVE  store'[slot[n]][f].by # NoMission
    <3>1. f \in {"json", "yaml"}
      BY DEF Uploaded, TypeOK
    <3> QED
      BY <1>3, <1>4, <3>1 DEF StoreInv, Kept
  <2>2. \A n \in Missions : pc'[n] \in Over => pc[n] \in Over
    BY <1>1 DEF Over
  <2> QED
    BY <1>1, <2>1, <2>2 DEF StoreInv, Kept, Over
<1>7. Alone'
  BY <1>1 DEF StoreInv, Alone
<1>8. Replaced'
  BY <1>1, <1>2, <1>4 DEF StoreInv, Replaced
<1> QED
  BY <1>5, <1>6, <1>7, <1>8 DEF StoreInv

\* The upload of the status, when it succeeds.
LEMMA StatusKeeps ==
  ASSUME TypeOK, Ordered, StoreInv, NEW m \in Missions, UploadStatus(m)
  PROVE  StoreInv'
<1>1. /\ UNCHANGED <<slot, tree, result, raced, sent>> /\ Uploaded' = Uploaded
      /\ pc[m] = "status" /\ pc'[m] = "done"
      /\ \A n \in Missions \ {m} : pc'[n] = pc[n]
  BY DEF UploadStatus, local, facts, Goto, TypeOK, Uploaded
<1>2. CASE UNCHANGED store
  BY <1>2, QuietSteps, QuietKeeps
<1>3. CASE Put(slot[m], "status", [by |-> m, result |-> result[m]])
  <2>1. \A s \in Slots : /\ store'[s].json = store[s].json
                         /\ store'[s].yaml = store[s].yaml
                         /\ s # slot[m] => store'[s].status = store[s].status
    BY <1>3 DEF Put, TypeOK, Files
  <2>2. \A s \in Slots, f \in {"json", "yaml"} : store'[s][f] = store[s][f]
    BY <2>1
  <2>3. \A n \in Missions : slot[n] \in Slots
    BY DEF TypeOK
  <2>4. store'[slot[m]].status = [by |-> m, result |-> result[m]]
    BY <1>3, <2>3 DEF Put, TypeOK, Files
  <2>5. Signed'
    <3> SUFFICES ASSUME NEW s \in Slots, NEW n \in Missions
                 PROVE  /\ \A f \in {"json", "yaml"} : store'[s][f].by = n =>
                             /\ f \in Uploaded[n] /\ slot[n] = s
                             /\ store'[s][f].tree = tree[n]
                        /\ store'[s].status.by = n =>
                             /\ pc'[n] = "done" /\ slot[n] = s
                             /\ store'[s].status.result = result[n]
      BY <1>1 DEF Signed
    <3>1. \A f \in {"json", "yaml"} : store'[s][f].by = n =>
            f \in Uploaded[n] /\ slot[n] = s /\ store'[s][f].tree = tree[n]
      BY <2>2 DEF StoreInv, Signed
    <3>2. ASSUME store'[s].status.by = n
          PROVE  pc'[n] = "done" /\ slot[n] = s /\ store'[s].status.result = result[n]
      <4>1. CASE s = slot[m]
        BY <1>1, <2>4, <3>2, <4>1
      <4>2. CASE s # slot[m]
        BY <1>1, <2>1, <3>2, <4>2 DEF StoreInv, Signed
      <4> QED
        BY <4>1, <4>2
    <3> QED
      BY <3>1, <3>2
  <2>6. Kept'
    <3>1. ASSUME NEW n \in Missions, NEW f \in Uploaded[n]
          PROVE  store'[slot[n]][f].by # NoMission
      <4>1. f \in {"json", "yaml"}
        BY DEF Uploaded, TypeOK
      <4> QED
        BY <2>2, <2>3, <4>1 DEF StoreInv, Kept
    <3>2. \A n \in Missions : pc'[n] \in Over => pc[n] \in Over
      BY <1>1 DEF Over
    <3> QED
      BY <1>1, <3>1, <3>2 DEF StoreInv, Kept, Over
  <2>7. Alone'
    BY <1>1 DEF StoreInv, Alone
  <2>8. Replaced'
    BY <1>1, <2>1, <2>3 DEF StoreInv, Replaced
  <2> QED
    BY <2>5, <2>6, <2>7, <2>8 DEF StoreInv
<1> QED
  BY <1>2, <1>3 DEF UploadStatus

\* A mission begins to upload where it found nothing.
LEMMA CheckKeeps ==
  ASSUME TypeOK, Ordered, StoreInv, NEW m \in Missions, CheckExist(m), Goto(m, "upload")
  PROVE  StoreInv'
<1>1. /\ pc[m] = "check" /\ pc'[m] = "upload" /\ Uploaded[m] = {}
      /\ UNCHANGED <<store, tree, result, sent>> /\ Uploaded' = Uploaded
      /\ \A n \in Missions \ {m} : pc'[n] = pc[n] /\ slot'[n] = slot[n]
      /\ \A n \in Missions : slot[n] \in Slots
  BY DEF CheckExist, Goto, TypeOK, Ordered, Before, Uploaded
<1>2. /\ ~Exists(slot[m]) /\ slot'[m] = Named(slot[m])
      /\ raced' = raced \cup {{m, n} : n \in Uploading(slot'[m])}
  <2>1. ~DieWith(m)
    BY <1>1 DEF DieWith, Running
  <2> QED
    BY <1>1, <2>1 DEF CheckExist, Goto, TypeOK
<1>3. Signed'
  BY <1>1 DEF StoreInv, Signed
<1>4. Kept'
  BY <1>1 DEF StoreInv, Kept, Over
<1>5. ASSUME slot'[m].name # Unnamed
      PROVE  slot'[m] = slot[m] /\ store[slot[m]] = NoFiles
  BY <1>1, <1>2, <1>5 DEF Named, Exists, Slots
<1>6. Alone'
  <2>1. ASSUME NEW n \in Missions, n # m, slot'[m] = slot[n], slot[n].name # Unnamed,
               pc[n] = "upload" \/ Uploaded[n] # {}
        PROVE  {m, n} \in raced'
    <3>1. slot'[m] = slot[m] /\ store[slot[n]] = NoFiles
      BY <1>5, <2>1
    <3>2. CASE pc[n] = "upload"
      BY <1>2, <2>1, <3>2 DEF Uploading
    <3>3. CASE Uploaded[n] # {}
      <4>1. PICK f \in Uploaded[n] : store[slot[n]][f].by # NoMission
        BY <3>3 DEF StoreInv, Kept
      <4>2. f \in {"json", "yaml"}
        BY DEF Uploaded, TypeOK
      <4> QED
        BY <3>1, <4>1, <4>2 DEF NoFiles, NoArchive
    <3> QED
      BY <2>1, <3>2, <3>3
  <2> SUFFICES ASSUME NEW k \in Missions, NEW n \in Missions,
                      pc'[n] = "upload", slot'[n] = slot'[k], k # n,
                      slot'[k].name # Unnamed, pc'[k] = "upload" \/ Uploaded[k] # {}
               PROVE  {k, n} \in raced'
    BY <1>1 DEF Alone
  <2>2. CASE n = m
    <3>1. {m, k} \in raced'
      BY <1>1, <2>1, <2>2
    <3> QED
      BY <2>2, <3>1
  <2>3. CASE k = m
    BY <1>1, <2>1, <2>3
  <2>4. CASE n # m /\ k # m
    BY <1>1, <1>2, <2>4 DEF StoreInv, Alone
  <2> QED
    BY <2>2, <2>3, <2>4
<1>7. Replaced'
  BY <1>1, <1>2 DEF StoreInv, Replaced
<1> QED
  BY <1>3, <1>4, <1>6, <1>7 DEF StoreInv

\* Every step keeps what is known of the store.
LEMMA StoreStep == TypeOK /\ Ordered /\ StoreInv /\ [Next]_vars => StoreInv'
<1> SUFFICES ASSUME TypeOK, Ordered, StoreInv, [Next]_vars PROVE StoreInv'
  OBVIOUS
<1>1. CASE Users \/ Tick \/ UNCHANGED vars
  BY <1>1, QuietSteps, QuietKeeps
<1>2. ASSUME NEW m \in Missions, Mission(m) \/ Kill(m) PROVE StoreInv'
  <2>1. CASE Quiet
    BY <2>1, QuietKeeps
  <2>2. CASE CheckExist(m)
    BY <2>2, <2>1, QuietSteps, CheckKeeps
  <2>3. ASSUME NEW file \in {"json", "yaml"}, UploadArchive(m, file) PROVE StoreInv'
    BY <2>3, ArchiveKeeps
  <2>4. CASE UploadLog(m)
    BY <2>4, LogKeeps
  <2>5. CASE UploadStatus(m)
    BY <2>5, StatusKeeps
  <2> QED
    BY <1>2, <2>1, <2>2, <2>3, <2>4, <2>5, QuietSteps DEF Mission
<1> QED
  BY <1>1, <1>2 DEF Next

\* The three parts hold together.
LEMMA StoreCorrect == Spec => [](TypeOK /\ Ordered /\ StoreInv)
<1>1. Init => TypeOK /\ Ordered /\ StoreInv
  BY TypeInit, OrderedInit, StoreInit
<1>2. TypeOK /\ Ordered /\ StoreInv /\ [Next]_vars => TypeOK' /\ Ordered' /\ StoreInv'
  BY TypeStep, OrderedStep, StoreStep
<1> QED
  BY <1>1, <1>2, PTL DEF Spec

\* Where a status is, both archives are, unless its mission had nothing to
\* store: the uploads of ApplyResourceTree come before that of the status,
\* and nothing removes a file.
THEOREM StatusCorrect == Spec => []StatusMarksComplete
<1>1. TypeOK /\ StoreInv => StatusMarksComplete
  <2> SUFFICES ASSUME TypeOK, StoreInv, NEW s \in Slots, store[s].status.by # NoMission,
                      In(tree[store[s].status.by]) # {}
               PROVE  store[s].json.by # NoMission /\ store[s].yaml.by # NoMission
    BY DEF StatusMarksComplete
  <2> DEFINE m == store[s].status.by
  <2>1. m \in Missions
    BY DEF TypeOK, Files
  <2>2. pc[m] = "done" /\ slot[m] = s
    BY <2>1 DEF StoreInv, Signed
  <2>3. Uploaded[m] = {"json", "yaml"}
    BY <2>1, <2>2 DEF StoreInv, Kept, Over
  <2> QED
    BY <2>1, <2>2, <2>3 DEF StoreInv, Kept
<1> QED
  BY <1>1, StoreCorrect, PTL

\* The status next to an archive is that of its author, but for races and
\* for missions that had nothing to store.
THEOREM AuthorCorrect == Spec => []StatusOfAuthor
<1>1. TypeOK /\ StoreInv => StatusOfAuthor
  <2> SUFFICES ASSUME TypeOK, StoreInv, NEW s \in Slots, s.name # Unnamed,
                      store[s].status.by # NoMission, In(tree[store[s].status.by]) # {}
               PROVE  \/ store[s].status.by = store[s].json.by
                      \/ {store[s].status.by, store[s].json.by} \in raced
    BY DEF StatusOfAuthor
  <2> DEFINE m == store[s].status.by
  <2>1. m \in Missions
    BY DEF TypeOK, Files
  <2>2. pc[m] = "done" /\ slot[m] = s
    BY <2>1 DEF StoreInv, Signed
  <2>3. "json" \in Uploaded[m]
    BY <2>1, <2>2 DEF StoreInv, Kept, Over
  <2> QED
    BY <2>1, <2>2, <2>3 DEF StoreInv, Replaced
<1> QED
  BY <1>1, StoreCorrect, PTL

\* An archive is replaced only by a mission that raced its author for the
\* name: CheckRemoteStorageExist refuses a name in use, but reserves none.
THEOREM OverwriteCorrect == Spec => OverwrittenOnlyInRace
<1> DEFINE Step == \A s \in Slots, file \in {"json", "yaml"} :
       LET old == store[s][file].by
           new == store'[s][file].by IN
       old \notin {NoMission, new} => {old, new} \in raced \/ s.name = Unnamed
<1>1. TypeOK /\ Ordered /\ StoreInv /\ [Next]_vars => Step
  <2> SUFFICES ASSUME TypeOK, Ordered, StoreInv, [Next]_vars,
                      NEW s \in Slots, NEW file \in {"json", "yaml"},
                      store[s][file].by \notin {NoMission, store'[s][file].by},
                      s.name # Unnamed
               PROVE  {store[s][file].by, store'[s][file].by} \in raced
    OBVIOUS
  <2>1. store' # store /\ ~Quiet
    BY DEF Quiet
  <2>2. PICK m \in Missions : \/ \E f \in {"json", "yaml"} : UploadArchive(m, f)
                              \/ UploadLog(m) \/ UploadStatus(m)
    BY <2>1, QuietSteps DEF Next, Mission, CheckExist, ClusterUnchanged
  <2>3. ASSUME UploadLog(m) \/ UploadStatus(m) PROVE store'[s][file] = store[s][file]
    <3>1. CASE UNCHANGED store
      BY <3>1
    <3>2. CASE Put(slot[m], "log", m)
      BY <3>2, PutOther DEF TypeOK
    <3>3. CASE Put(slot[m], "status", [by |-> m, result |-> result[m]])
      BY <3>3, PutOther DEF TypeOK
    <3> QED
      BY <2>3, <3>1, <3>2, <3>3 DEF UploadLog, UploadStatus
  <2>4. PICK f \in {"json", "yaml"} : UploadArchive(m, f)
    BY <2>2, <2>3
  <2>5. pc[m] = "upload" /\ s = slot[m] /\ f = file /\ store'[s][file].by = m
    BY <2>4 DEF UploadArchive, Put, TypeOK, Files
  <2> DEFINE n == store[s][file].by
  <2>6. n \in Missions /\ file \in Uploaded[n] /\ slot[n] = s
    <3>1. n \in Missions
      BY DEF TypeOK, Files
    <3> QED
      BY <3>1 DEF StoreInv, Signed
  <2> QED
    BY <2>5, <2>6 DEF StoreInv, Alone
<1>2. TypeOK /\ Ordered /\ StoreInv /\ [Next]_vars => [Step]_vars
  BY <1>1
<1> QED
  BY <1>2, StoreCorrect, PTL DEF Spec, OverwrittenOnlyInRace

=============================================================================
