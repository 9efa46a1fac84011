----------------------------- MODULE MCArchives -----------------------------
(* Values of the constants of Archives for TLC.                            *)
EXTENDS Archives

\* The lists of events come one after the other and are left empty by the
\* default filter; a list after them has nothing else either, or has more.
MCGroupVersions == <<<<"", "v1">>, <<"events", "v1">>, <<"events", "v2">>, <<"apps", "v1">>>>
MCDiscoveries ==
  {<<{"secrets", "volumes", "nodes"}, {"events"}, {"events"}, {"deploy"}>>,
   <<{"secrets", "events", "volumes"}, {"events"}, {"events"}, {"events"}>>,
   <<{"events"}, {"events"}, {"deploy", "events"}, {"nodes", "events"}>>}

Core(r, n, o) == <<"", "v1", r, n, o>>
MCWorld ==
  {Core("secrets", "a", "x"), Core("secrets", "a", "token"),
   Core("secrets", "system", "x"), Core("volumes", "all", "x"),
   Core("nodes", "all", "x"), Core("events", "a", "x"),
   <<"events", "v1", "events", "a", "x">>, <<"events", "v2", "events", "a", "x">>,
   <<"events", "v2", "deploy", "b", "x">>, <<"apps", "v1", "nodes", "all", "x">>,
   <<"apps", "v1", "deploy", "b", "x">>}
MCWorlds == {MCWorld, {Core("secrets", "a", "x"), <<"apps", "v1", "deploy", "b", "x">>}}

MCDefaultObjects == {<<"secrets", "token">>}

\* What a caller may ask for.
Include(S) == [include |-> TRUE, names |-> S]
Exclude(S) == [include |-> FALSE, names |-> S]
MCMap(r, s, c, t) ==
  [kind \in FilterKinds |->
     CASE kind = "ResourceKind" -> r [] kind = "NamespaceKind" -> s
       [] kind = "ClusterKind" -> c [] kind = "ClusterRoot" -> t [] OTHER -> NoFilter]
MCMaps ==
  {MCMap(NoFilter, NoFilter, NoFilter, NoFilter),
   MCMap(Include({"secrets", "nodes", "events"}), NoFilter, NoFilter, NoFilter),
   MCMap(Exclude({"deploy"}), Include({"a", "system"}), NoFilter, NoFilter),
   MCMap(NoFilter, Exclude({"a"}), NoFilter, NoFilter),
   MCMap(Exclude({"deploy"}), NoFilter, Include({}), NoFilter),
   MCMap(NoFilter, NoFilter, Exclude({}), Include({})),
   MCMap(NoFilter, NoFilter, NoFilter, Include({}))}

\* The other discoveries, about lists that are left empty, and the cluster with
\* few objects are for a caller that filters nothing, or everything.
MCFewMaps == {MCMap(NoFilter, NoFilter, NoFilter, t) : t \in {NoFilter, Include({})}}
MCInit ==
  /\ FilesInit
  /\ \/ asked \in MCFewMaps
     \/ "nodes" \in found[1] /\ Cardinality(world) > 2
MCSpec == MCInit /\ [][NextFiles]_allVars /\ WF_allVars(Mission)
=============================================================================
