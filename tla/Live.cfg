SPECIFICATION LiveSpec
CONSTANTS
  Waiters = {w1}
  Notifiers = {n1, n2}
  NoWaker = NoWaker
  Calls = {"wait", "wait_for"}
  MayClose = TRUE
  Tasks = {t1, t2}
  NoOne = NoOne
  Usages = {{"wake_all"}, {"close"}}
  MaxWakeAlls = 2
  Initial = 2
  Sizes = {1, 2}
  UsizeMax = 3
  Sleeps = {t1}
  Driver = Driver
  WheelBits = 2
  Durations = {1, 6}
  MaxTime = 9
INVARIANT ParkingAssertion
PROPERTIES
  ConditionIsSeen
  CloseReleases
  QueueReleasesEveryone
  WaitersProgress
  SleepsEnd
CHECK_DEADLOCK FALSE
