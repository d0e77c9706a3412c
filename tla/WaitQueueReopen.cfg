SPECIFICATION Spec
CONSTANTS
  Waiters = {w1, w2}
  Wakers = {k1, k2}
  NoOne = NoOne
  Usages = {{"wake", "close"}}
  BatchSize = 2
  MaxWakeAlls = 0
  MayDrop = FALSE
  Spurious = FALSE
  Subscribes = TRUE
PROPERTIES
  ClosedIsFinal
