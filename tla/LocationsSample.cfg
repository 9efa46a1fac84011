\* One object like the one of config/samples is created.
SPECIFICATION Spec
CONSTANTS
  Locs = {l1}
  NoKey = NoKey
  MaxPods = 2
  MaxUid = 1
  Replicas = {0}
  Second <- MCSecond
  CacheSize = 1000
  StatusSubresource = FALSE
  Faults = {"bare"}
  MaxFaults = 0
INVARIANTS SurvivesSample
CHECK_DEADLOCK FALSE
