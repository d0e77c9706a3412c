SPECIFICATION SpecKernel
CONSTANTS
  Tasks = {t1, t2, t3}
  NoOne = NoOne
  Initial = 2
  Sizes = {1, 2}
  UsizeMax = 3
  BatchSize = 1
  Spurious = TRUE
  MayClose = TRUE
  MaxChanges = 2
  Reader = r
  Isr = isr
  CPUs = {p1, p2}
SYMMETRY Symmetry
INVARIANTS
  PermitsAreConserved
  NoFreePermitsWhileWaiting
  WaitersAreListed
  InterruptsAreServed
  WokenFindsAKey
  HeapIsSound
