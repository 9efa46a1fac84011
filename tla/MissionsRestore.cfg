\* A backup and a restore of it while users change the cluster and calls fail.
SPECIFICATION Spec
CONSTANTS
  m1 = m1
  m2 = m2
  m3 = m3
  n1 = n1
  deploy = deploy
  svc = svc
  pv = pv
  ns = ns
  apps = apps
  core = core
  volumes = volumes
  Missions = {m1, m2}
  NoMission = NoMission
  Names = {n1}
  Unnamed = Unnamed
  ClusterLevel = ClusterLevel
  Namespaces = {ns}
  Objs <- MCObjs
  ClusterObjs <- MCClusterObjs
  Resources <- MCResources
  ResourceOf <- MCResourceOf
  Times <- MCTimes
  NamespaceOf <- MCNamespaceOf
  Backups = {m1}
  Earlier = {m1}
  Filtered = {m2}
  Wanted <- MCAll
  FirstClusters <- MCLosses
  FirstBackups <- MCBackedUp
  MaxVersion = 2
  MaxClock = 1
  Faults = {"rpc", "lost", "list", "space", "refuse", "network", "disk", "kill"}
  MaxFaults = 1
  MaxEdits = 2
INVARIANTS TypeOK SuccessMeansRestored RecordExact
PROPERTIES KeepsWhatItFinds
CHECK_DEADLOCK FALSE
