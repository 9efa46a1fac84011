\* Two backups under one name while users change the cluster and calls fail.
SPECIFICATION Spec
CONSTANTS
  m1 = m1
  m2 = m2
  m3 = m3
  n1 = n1
  deploy = deploy
  svc = svc
  pv = pv
  ns = ns
  apps = apps
  core = core
  volumes = volumes
  Missions = {m1, m2}
  NoMission = NoMission
  Names = {n1}
  Unnamed = Unnamed
  ClusterLevel = ClusterLevel
  Namespaces = {ns}
  Objs <- MCObjs
  ClusterObjs <- MCClusterObjs
  Resources <- MCResources
  ResourceOf <- MCResourceOf
  Times <- MCTimes
  NamespaceOf <- MCNamespaceOf
  Backups = {m1, m2}
  Earlier = {}
  Filtered = {}
  Wanted <- MCPart
  FirstClusters <- MCFull
  FirstBackups <- MCBackedUp
  MaxVersion = 2
  MaxClock = 0
  Faults = {"rpc", "lost", "list", "kill"}
  MaxFaults = 1
  MaxEdits = 1
INVARIANTS StatusMarksComplete StatusOfAuthor BackupFaithful
PROPERTIES OverwrittenOnlyInRace
CHECK_DEADLOCK FALSE
