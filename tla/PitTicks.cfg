SPECIFICATION Spec
CONSTANTS
  Models = {"Pic"}
  ATTEMPTS = 5
  MayCall = {}
PROPERTIES
  PeriodicTimerTicks
CHECK_DEADLOCK FALSE
