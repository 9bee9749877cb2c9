CONSTANTS
  MaxRuns = 2
  MaxNow = 3
  MaxStops = 1
  Delay = 1
  IdleAfter = 1
SPECIFICATION Spec
INVARIANTS NoStrayTimer CheckpointIsOfSleeper
PROPERTIES SleepsWhenIdle SuspendedWakes
CHECK_DEADLOCK FALSE
