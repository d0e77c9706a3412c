SPECIFICATION Spec
CONSTANTS
  Workers = {w1}
  Holders = {h1}
  Joiner = j
  RefMax = 15
  CrossThread = FALSE
INVARIANT CanceledIsScheduled
CHECK_DEADLOCK FALSE
