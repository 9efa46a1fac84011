\* An object is deleted, with or without its children, and created again under the same name.
SPECIFICATION Spec
CONSTANTS
  Locs = {l1}
  NoKey = NoKey
  MaxPods = 2
  MaxUid = 2
  Replicas = {1}
  Second <- MCSecond
  CacheSize = 1000
  StatusSubresource = FALSE
  Faults = {"delete", "orphan"}
  MaxFaults = 1
INVARIANTS NoLostWakeup
PROPERTIES NoLostSpecEdit KeepsContract
CHECK_DEADLOCK FALSE
