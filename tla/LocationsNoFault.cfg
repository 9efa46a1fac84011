\* One object is created and nothing goes wrong.
SPECIFICATION FairSpec
CONSTANTS
  Locs = {l1}
  NoKey = NoKey
  MaxPods = 2
  MaxUid = 1
  Replicas = {1}
  Second <- MCSecond
  CacheSize = 1000
  StatusSubresource = FALSE
  Faults = {}
  MaxFaults = 0
PROPERTIES DesiredReached
CHECK_DEADLOCK FALSE
