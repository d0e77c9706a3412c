SPECIFICATION FairSpecMutex
CONSTANTS
  Waiters = {t1, t2, t3}
  Wakers = {}
  NoOne = NoOne
  Usages = {{}}
  BatchSize = 1
  MaxWakeAlls = 0
  MayDrop = TRUE
  Spurious = FALSE
  Subscribes = FALSE
INVARIANTS
  MutualExclusion
PROPERTIES
  HandsOff
  LockIsGranted
