SPECIFICATION WaitSpec
CONSTANTS
  Waiters = {w1, w2}
  Wakers = {k1, k2}
  NoOne = NoOne
  Usages = {{"wake"}, {"wake", "wake_all"}}
  BatchSize = 2
  MaxWakeAlls = 1
  MayDrop = TRUE
  Spurious = TRUE
  Subscribes = TRUE
  Keys = {x, y}
  Vals = {v1, v2}
  MapBatchSize = 1
  Users = {t1, t2, t3}
  Null = Null
SYMMETRY Symmetry
INVARIANTS
  WaitersAreListed
  StateMatchesList
  MapIsSound
  MapWaitersAreReachable
  InitializedOnce
