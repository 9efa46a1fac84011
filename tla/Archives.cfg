\* A caller makes two missions with one map of filters; one thing goes wrong,
\* in which a disk may cost one file or one object.
SPECIFICATION MCSpec
CONSTANTS
  GroupVersions <- MCGroupVersions
  Discoveries <- MCDiscoveries
  Worlds <- MCWorlds
  ClusterResources = {"volumes", "nodes"}
  Spaces = {"a", "b", "system"}
  ClusterLevel = "all"
  RootName = "root"
  Maps <- MCMaps
  DefaultResources = {"events"}
  DefaultSpaces = {"system"}
  DefaultObjects <- MCDefaultObjects
  DefaultClusters = {"volumes"}
  MaxMissions = 2
  MaxGaps = 1
  Names = {"nightly"}
  Faults = {"disk", "rpc", "lost", "kill"}
  MaxFaults = 1
  MaxLost = 1
INVARIANTS TreeOfObjects BackupExact FilterExact StoredWhole RoundTrip Tidy
PROPERTIES MissionsEnd
CHECK_DEADLOCK FALSE
