SPECIFICATION Spec
CONSTANTS
  Tasks = {t1, t2, t3}
  NoOne = NoOne
  Initial = 2
  Sizes = {1, 2}
  UsizeMax = 3
  BatchSize = 1
  Spurious = TRUE
  MayClose = TRUE
  MaxChanges = 0
SYMMETRY Symmetry
INVARIANTS
  LinkedWaitersAreLive
