------------------------- MODULE MCStorageLocations -------------------------
(* Values of the constants of StorageLocations for TLC, and the claims of  *)
(* its documentation that the code does not keep.                          *)
EXTENDS StorageLocations

\* Pods created two by two within a second.
MCSecond == [p \in 1..MaxPods |-> p \div 2]

\* Nothing keeps users from writing a negative number.
MCReplicas == {-1, 0, 1, 2}

\* README.md:51 says that the reconcile function synchronizes resources until
\* the desired state is reached on the cluster.  Here with no fault at all:
\* every object, once created, ends up with its pods, its service and a status
\* that says so.  (The creation loop of syncChildService breaks it.)
DesiredReached ==
  \A l \in Locs : Present(loc[l]) ~> [](Present(loc[l]) => Settled(l))

\* README.md:30-34 offers "make uninstall" to delete the CRDs, and with them
\* the objects; Reconcile has a branch for an object that is gone.  The manager
\* survives a deletion.
SurvivesDeletion == pc # "down"

\* README.md:12-15 says to install the samples of config/samples/, whose
\* StorageLocations has no containerSpec.  The manager survives that.
SurvivesSample == pc # "down"
=============================================================================
