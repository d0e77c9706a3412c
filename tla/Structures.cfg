SPECIFICATION SpecOne
CONSTANTS
  Waiters = {w1, w2}
  Notifiers = {n1, n2}
  NoWaker = NoWaker
  Calls = {"wait", "wait_for"}
  MayClose = TRUE
  Elements = {e1, e2, e3}
  Producers = {p1, p2}
  Consumers = {c1, c2}
  Stub = Stub
  Null = Null
  ListNodes = {e1, e2, e3, e4}
  Sleeps = {s1, s2}
  Driver = Driver
  Durations = {1, 6}
  MaxTime = 9
  Pool = {3, 6}
SYMMETRY Symmetry
INVARIANTS
  ExclusiveWaker
  NoLostWakeup
  ParkedIsReachable
  QueueIsConnected
  ElementsAreInOnePlace
  ListIsSound
  FiresOnTime
  SleepsAreTracked
  MappedAsRequested
  TablesAreReached
PROPERTIES
  ClosedIsPermanent
  IsFifo
  IsSequence
CHECK_DEADLOCK FALSE
