\* One object is created and deleted.
SPECIFICATION Spec
CONSTANTS
  Locs = {l1}
  NoKey = NoKey
  MaxPods = 2
  MaxUid = 1
  Replicas = {1}
  Second <- MCSecond
  CacheSize = 1000
  StatusSubresource = FALSE
  Faults = {"delete"}
  MaxFaults = 1
INVARIANTS SurvivesDeletion
CHECK_DEADLOCK FALSE
