SPECIFICATION Spec
CONSTANTS
 Sleeps = {s1}
 Driver = Driver
 Bits = 2
 Durations = {14}
 MaxTime = 60
 Null = Null
INVARIANTS FiresOnTime

CHECK_DEADLOCK FALSE
