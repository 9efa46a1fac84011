------------------------------- MODULE Trees -------------------------------
(***************************************************************************)
(* How the tree of a mission is made and pruned, node by node.  A backup   *)
(* filters what discovery returned and builds a tree of groups, versions,  *)
(* resources, namespaces and objects (KubernetesAgent.GetResourceTree); a  *)
(* restore filters a tree it loaded (deepFiltrateResources) and takes out  *)
(* what need not be restored (compareGroupTree).                           *)
(*                                                                         *)
(* One caller makes its missions one after the other, all with the same    *)
(* map of filters.  The cluster does not change here; module Missions      *)
(* takes a tree for the set of its objects, and this one shows why it may. *)
(* The steps are put together in module Archives, with those on files.     *)
(***************************************************************************)
EXTENDS Integers, FiniteSets, SequencesExt

CONSTANTS
  GroupVersions,    \* <<group, version>> of each API list, in discovery order
  Discoveries,      \* the resources in each list
  Worlds,           \* sets of objects that the cluster may have, as paths
                    \* <<group, version, resource, namespace, object>>
  ClusterResources, \* resources that are not namespaced
  Spaces,           \* namespaces
  ClusterLevel,     \* immobile.ClusterLevelNamespace
  RootName,         \* immobile.RootName
  Maps,             \* maps of filters that callers make
  DefaultResources, DefaultSpaces, \* what the default filters exclude
  DefaultObjects,   \* <<resource, object>>: names with a default substring
  DefaultClusters,  \* defaultIncludeClusterResource
  MaxMissions,      \* bound: missions of the caller
  MaxGaps           \* bound: lists that fail in one of them

Lists == 1..Len(GroupVersions)

\* A node is the path to it from the root, a tree a set of nodes.  Filters
\* speak of the kinds of nodes and of one kind that no node has.
NodeKinds == <<"ClusterRoot", "GroupKind", "VersionKind", "ResourceKind",
               "NamespaceKind", "ObjectKind">>
FilterKinds == ToSet(NodeKinds) \cup {"ClusterKind"}
GetKind(n) == NodeKinds[Len(n) + 1]
GetName(n) == IF n = <<>> THEN RootName ELSE Last(n)

NoFilter == [include |-> FALSE, names |-> {"unset"}]
Present(map) == {kind \in FilterKinds : map[kind] # NoFilter}

\* Names are strings.  What is in a namespace is in one that there is.
ASSUME ListsAssumption ==
  /\ GroupVersions \in Seq(Seq(STRING))
  /\ \A v \in Lists : Len(GroupVersions[v]) = 2
  /\ Discoveries \subseteq [Lists -> SUBSET STRING]
ASSUME WorldsAssumption ==
  /\ Spaces \cup {ClusterLevel} \subseteq STRING
  /\ \A w \in Worlds : \A o \in w :
       /\ o \in Seq(STRING) /\ Len(o) = 5
       /\ o[4] \in Spaces \cup {ClusterLevel}
       /\ o[4] = ClusterLevel <=> o[3] \in ClusterResources
ASSUME MapsAssumption ==
  Maps \subseteq [FilterKinds -> [include : BOOLEAN, names : SUBSET STRING]]
ASSUME DefaultsAssumption == DefaultResources \cup DefaultSpaces \subseteq STRING
ASSUME MissionsAssumption == {MaxMissions, MaxGaps} \subseteq Nat

VARIABLES
  world,    \* the objects of the cluster
  found,    \* what discovery returned
  asked,    \* the map of filters as the caller made it
  filters,  \* that map now
  pc,       \* where the mission is
  mission, backups, \* missions and backups so far
  apis,     \* APIResources of each list
  vs, size, \* groupAndVersions of filtrateResource: the array and the length
  j,        \* index of a loop over the lists
  tree,     \* the root
  gaps,     \* resources whose list failed
  loaded,   \* restore: the objects of the archive that got a node
  hollow,   \* restore: those of them whose node got no definition
  todo      \* restore: filters not yet applied

lists == <<apis, vs, size, j>>
vars == <<world, found, asked, filters, pc, mission, backups, lists,
          tree, gaps, loaded, hollow, todo>>

Init ==
  /\ found \in Discoveries
  /\ \E w \in Worlds : world = {o \in w : \E v \in Lists :
       GroupVersions[v] = SubSeq(o, 1, 2) /\ o[3] \in found[v]}
  /\ asked \in Maps /\ filters = asked
  /\ pc = "idle" /\ mission = 0 /\ backups = 0
  /\ apis = found /\ vs = [v \in Lists |-> v] /\ size = Len(vs) /\ j = 1
  /\ tree = {<<>>} /\ gaps = {} /\ loaded = {} /\ hollow = {} /\ todo = {}
-----------------------------------------------------------------------------
(* Trees.                                                                  *)

ListChildren(t, n) == {c \in t : Len(c) = Len(n) + 1 /\ IsPrefix(n, c)}
Objects(t) == {n \in t : Len(n) = 5}
WithParents(S) == {<<>>} \cup UNION {Prefixes(o) : o \in S}

\* Mistake: the parent of a node that goes is not looked at again.
TrimOnce(t, decided, kept) ==
  {n \in t : \A d \in decided : IsPrefix(d, n) => d \in kept}

\* A node that is decided on stays with all below it or goes; another one
\* stays when something below it stays.  Nothing is left when the root goes.
Trim(t, decided, kept) ==
  LET trim[n \in t] ==
        IF n \in decided
          THEN {c \in t : n \in kept /\ IsPrefix(n, c)}
          ELSE UNION {{n, c} : c \in UNION {trim[d] : d \in ListChildren(t, n)}}
  IN  trim[<<>>]
-----------------------------------------------------------------------------
(* A backup: KubernetesAgent.GetResourceTree.                              *)

Admits(f, name) == f.include <=> name \in f.names

\* preHandleNamespaceFilter and preHandleResourceFilter.
PreHandle(f, default) ==
  IF f = NoFilter THEN [include |-> FALSE, names |-> default]
  ELSE [f EXCEPT !.names = IF f.include THEN @ \ default ELSE @ \cup default]

Begin(next) ==
  /\ pc \in {"idle", "built", "compared"} /\ mission < MaxMissions
  /\ mission' = mission + 1
  /\ pc' = next
  /\ gaps' = {}

Backup ==
  /\ Begin("filtrate")
  /\ backups' = backups + 1
  /\ filters' = [filters EXCEPT !["ResourceKind"] = PreHandle(@, DefaultResources),
                                !["NamespaceKind"] = PreHandle(@, DefaultSpaces)]
  /\ apis' = found /\ vs' = [v \in Lists |-> v] /\ size' = Len(vs') /\ j' = 1
  /\ tree' = {<<>>} /\ hollow' = {}
  /\ UNCHANGED <<world, found, asked, loaded, todo>>

\* append(s[:i], s[i+1:]...): in place, so that whoever has the whole array
\* sees the last element twice.
ShiftDown(s, n, i) == [x \in DOMAIN s |-> IF x \in i..(n - 1) THEN s[x + 1] ELSE s[x]]

\* The index after a list was looked at.  (Mistakes: the loop always counts on,
\* or just when it must not.)
NextAlways(i, empty) == i + 1
NextSwapped(i, empty) == IF empty THEN i + 1 ELSE i
NextIndex(i, empty) == IF empty THEN i ELSE i + 1

\* filtrateResource, one list at a time.
FiltrateResource ==
  LET left == {r \in apis[vs[j]] : Admits(filters["ResourceKind"], r)} IN
  /\ pc = "filtrate" /\ j <= size
  /\ apis' = [apis EXCEPT ![vs[j]] = left]
  /\ vs' = IF left = {} THEN ShiftDown(vs, size, j) ELSE vs
  /\ size' = IF left = {} THEN size - 1 ELSE size
  /\ j' = NextIndex(j, left = {})
  /\ UNCHANGED <<world, found, asked, filters, pc, mission, backups, tree, gaps, loaded, hollow, todo>>

\* The filter goes out of the caller's map.  GetResourceTree goes on with
\* the array that filtrateResource has changed under it, at its full length.
FiltrateResourceDone ==
  /\ pc = "filtrate" /\ j > size
  /\ filters' = [filters EXCEPT !["ResourceKind"] = NoFilter]
  /\ pc' = "build" /\ j' = 1
  /\ UNCHANGED <<world, found, asked, mission, backups, apis, vs, size, tree, gaps, loaded, hollow, todo>>

ClusterInclude == filters["ClusterKind"] # NoFilter /\ filters["ClusterKind"].include

Namespaces(r) ==
  IF r \in ClusterResources THEN {ClusterLevel}
  ELSE {n \in Spaces : Admits(filters["NamespaceKind"], n)}

\* Mistake: the node itself does not go.
PruneBelow(t, top, level) ==
  t \ {n \in t : Len(n) = level /\ IsStrictPrefix(top, n) /\ ListChildren(t, n) = {}}

\* The nodes of one level, at or below a node, that have no children go.
Prune(t, top, level) ==
  t \ {n \in t : Len(n) = level /\ IsPrefix(top, n) /\ ListChildren(t, n) = {}}

\* buildGroupAndVersionTree down to buildObjectTree, one list at a time.  A
\* resource whose list fails has no objects.
BuildVersion ==
  LET gv == GroupVersions[vs[j]]
      rs == {r \in apis[vs[j]] : \/ ClusterInclude
                                 \/ r \notin ClusterResources \ DefaultClusters}
      nodes == {gv} \cup UNION {{gv \o <<r, n>> : n \in Namespaces(r)} : r \in rs}
      objects(ok) == {o \in world : /\ IsPrefix(gv, o)
                                    /\ o[3] \in ok /\ o[4] \in Namespaces(o[3])
                                    /\ <<o[3], o[5]>> \notin DefaultObjects}
  IN
  /\ pc = "build" /\ j <= Len(vs)
  /\ \E failed \in SUBSET rs :
       /\ tree' = tree \cup WithParents(nodes \cup objects(rs \ failed))
       /\ gaps' = gaps \cup {gv \o <<r>> : r \in failed}
       /\ Cardinality(gaps') <= MaxGaps
  /\ pc' = "namespaces"
  /\ UNCHANGED <<world, found, asked, filters, mission, backups, lists, loaded, hollow, todo>>

\* What has stayed empty goes: namespaces, resources, then the version.
PruneVersion(here, level, next) ==
  /\ pc = here /\ pc' = next
  /\ tree' = Prune(tree, GroupVersions[vs[j]], level)
  /\ j' = IF next = "build" THEN j + 1 ELSE j
  /\ UNCHANGED <<world, found, asked, filters, mission, backups, apis, vs, size,
                 gaps, loaded, hollow, todo>>
BuildPrune ==
  \/ PruneVersion("namespaces", 4, "resources")
  \/ PruneVersion("resources", 3, "versions")
  \/ PruneVersion("versions", 2, "build")

BuildDone ==
  /\ pc = "build" /\ j > Len(vs)
  /\ tree' = Prune(tree, <<>>, 1)
  /\ filters' = [filters EXCEPT !["NamespaceKind"] = NoFilter]
  /\ pc' = "built"
  /\ UNCHANGED <<world, found, asked, mission, backups, lists, gaps, loaded, hollow, todo>>
-----------------------------------------------------------------------------
(* A restore: CoreStoreAgent.GetResourceTree and the comparison.           *)

\* What a backup with a map of filters takes, see BackupExact.
Passes(f, name) == f = NoFilter \/ Admits(f, name)
Selected(o, f) ==
  /\ Passes(f["ResourceKind"], o[3]) /\ o[3] \notin DefaultResources
  /\ o[3] \in ClusterResources =>
       \/ o[3] \in DefaultClusters
       \/ f["ClusterKind"] # NoFilter /\ f["ClusterKind"].include
  /\ o[3] \notin ClusterResources =>
       Passes(f["NamespaceKind"], o[4]) /\ o[4] \notin DefaultSpaces
  /\ <<o[3], o[5]>> \notin DefaultObjects

\* GetClusterResourceFilter(true): everything that any backup could take.
All == [kind \in FilterKinds |-> IF kind = "ClusterKind"
          THEN [include |-> TRUE, names |-> {}] ELSE NoFilter]
Snapshots == {{o \in w : Selected(o, All)} : w \in Worlds}

\* buildResourceTree.  An object whose definition cannot be read has a node,
\* and an error ends the building there: H is that object, or nothing.
RestoreFrom(S, H) ==
  /\ Begin("filter")
  /\ loaded' = S \cup H /\ hollow' = H
  /\ tree' = WithParents(S \cup H)
  /\ todo' = Present(filters)
  /\ UNCHANGED <<world, found, asked, filters, backups, lists>>

\* deepFiltrateResources.  A node of another kind than the filter that has
\* nothing below it goes, also an object; that the root has no parent to take
\* it from ends the process.
DeepFiltrateResources(kind) ==
  LET judged == {n \in tree : GetKind(n) = kind}
      left == Trim(tree, judged, {n \in judged : Admits(filters[kind], GetName(n))}) IN
  /\ pc = "filter" /\ kind \in todo
  /\ todo' = todo \ {kind}
  /\ IF left = {} THEN pc' = "panic" ELSE UNCHANGED pc
  /\ tree' = left
  /\ UNCHANGED <<world, found, asked, filters, mission, backups, lists, gaps, loaded, hollow>>

\* compareGroupTree down to restoreObjectTree.  What the cluster has by then
\* goes; a node whose namespace cannot be applied is passed over, and stays.
\* applyObject reads the metadata of an object before it looks whether there
\* is a definition: one without either ends the process.
Compare ==
  /\ pc = "filter" /\ todo = {}
  /\ \E current \in Snapshots :
       LET unknown == {n \in tree : /\ Len(n) = 4 /\ n[4] # ClusterLevel
                                   /\ n \notin WithParents(current)} IN
       \E passed \in SUBSET unknown :
         LET applied == {o \in Objects(tree) \ current : \A n \in passed : ~IsPrefix(n, o)} IN
         \/ /\ hollow \cap applied = {}
            /\ tree' = {<<>>} \cup Trim(tree, passed \cup Objects(tree),
                                             passed \cup (Objects(tree) \ current))
            /\ pc' = "compared"
         \/ /\ hollow \cap applied # {}
            /\ pc' = "died"
            /\ UNCHANGED tree
  /\ UNCHANGED <<world, found, asked, filters, mission, backups, lists, gaps, loaded, hollow, todo>>
-----------------------------------------------------------------------------
(* What the trees should be.                                               *)

\* A tree that is finished is its objects and the nodes above them: there is
\* no node without an object, so that a mission may ask whether there are
\* groups to find out whether there is anything to store.
TreeOfObjects ==
  pc \in {"built", "compared"} => tree = WithParents(Objects(tree))

\* The caller's map after a backup.
Spent == [asked EXCEPT !["ResourceKind"] = NoFilter, !["NamespaceKind"] = NoFilter]

\* The first backup of a caller has every object that its filters and the
\* default ones let through, of every resource whose list did not fail, and
\* nothing else, although filtrateResource changes the array it runs over.
\* Every later one with the same map is made without filters for resources
\* and namespaces: the first one took them out of the map.
BackupExact ==
  LET wanted == {o \in world : Selected(o, IF backups = 1 THEN asked ELSE Spent)} IN
  pc = "built" =>
    /\ Objects(tree) \subseteq wanted
    /\ \A o \in wanted \ Objects(tree) : SubSeq(o, 1, 3) \in gaps

\* Whether a filter of a map would leave an object in an archive.
Leaves(kind, o) ==
  \E level \in 1..6 : /\ kind = NodeKinds[level]
                      /\ Admits(filters[kind], GetName(SubSeq(o, 1, level - 1)))

\* The filters of a restore leave what all of them let through, in whatever
\* order they are applied, and the process ends just when that is nothing,
\* unless there are no filters but for the root.
FilterExact ==
  LET left == {o \in loaded : \A kind \in Present(filters) : Leaves(kind, o)} IN
  /\ pc = "panic" => left = {}
  /\ pc = "filter" /\ todo = {} =>
       /\ tree = WithParents(left)
       /\ left # {} \/ Present(filters) \subseteq {"ClusterRoot"}
=============================================================================
