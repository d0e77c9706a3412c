SPECIFICATION FairSpecBoth
CONSTANTS
  Workers = {w1, w2}
  Holders = {h1, h2}
  Joiner = j
  RefMax = 15
  CrossThread = FALSE
  MAX_CORES = 2
  Tasks = {t1, t2}
  NoTask = NoTask
  Wakers = {k1}
  Stoppable = {0}
  DEFAULT_TICK_SIZE = 1
  MAX_STEAL_ATTEMPTS = 1
  MAX_STOLEN_PER_TICK = 1
INVARIANTS
  FreedOnce
  ScheduledOnce
  SlotIsExclusive
  TasksArePlaced
PROPERTIES
  JoinCompletes
  QueueIsServed
  InjectedIsStolen
CHECK_DEADLOCK FALSE
