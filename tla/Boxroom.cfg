\* A restore into the cluster in which the controller runs.
SPECIFICATION MCSpec
CONSTANTS
  m1 = m1
  m2 = m2
  n1 = n1
  Locs = {l1}
  NoKey = NoKey
  MaxPods = 1
  MaxUid = 2
  Replicas = {0}
  Second <- MCSecond
  CacheSize = 1000
  StatusSubresource = FALSE
  Faults = {"delete", "killsvc"}
  MaxFaults = 1
  Missions = {m1, m2}
  NoMission = NoMission
  Backups = {m1}
  Earlier = {m1}
  Names = {n1}
  Unnamed = Unnamed
  Space = Space
  ClusterLevel = ClusterLevel
  MissionFaults = {}
  MaxMissionFaults = 0
  MaxClock = 0
INVARIANTS OrphansOnRecord
PROPERTIES Recovers
CHECK_DEADLOCK FALSE
