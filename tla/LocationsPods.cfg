\* Three pods: the deletion loop against stale caches and disappearing pods.
SPECIFICATION Spec
CONSTANTS
  Locs = {l1}
  NoKey = NoKey
  MaxPods = 3
  MaxUid = 1
  Replicas = {0, 2}
  Second <- MCSecond
  CacheSize = 1
  StatusSubresource = TRUE
  Faults = {"scale", "kill", "evict", "lost", "crash"}
  MaxFaults = 2
INVARIANTS HiddenAreDying WedgeOnlyByOthers
PROPERTIES ScaleDownSafe KeepsContract
CHECK_DEADLOCK FALSE
