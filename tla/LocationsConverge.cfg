\* Liveness: after any disturbance the controller converges or is caught in an endless retry.
SPECIFICATION FairSpec
CONSTANTS
  Locs = {l1}
  NoKey = NoKey
  MaxPods = 2
  MaxUid = 1
  Replicas = {0, 1}
  Second <- MCSecond
  CacheSize = 1000
  StatusSubresource = FALSE
  Faults = {"scale", "kill", "evict", "killsvc", "lost", "crash"}
  MaxFaults = 1
PROPERTIES ConvergesUnlessWedged
CHECK_DEADLOCK FALSE
