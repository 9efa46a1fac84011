\* One object, rescaled (also below zero) or written without a part of its spec, while caches lag, pods are killed, answers are lost and the process dies.
SPECIFICATION Spec
CONSTANTS
  Locs = {l1}
  NoKey = NoKey
  MaxPods = 2
  MaxUid = 1
  Replicas <- MCReplicas
  Second <- MCSecond
  CacheSize = 1000
  StatusSubresource = FALSE
  Faults = {"scale", "kill", "lost", "crash", "bare", "noconfig"}
  MaxFaults = 2
INVARIANTS TypeOK NoLostWakeup
PROPERTIES NoLostSpecEdit
CHECK_DEADLOCK FALSE
