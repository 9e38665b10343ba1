SPECIFICATION Spec
CONSTANTS
  Period = 4
  Levels = 2
  Delays <- MCDelays
  MaxTime = 14
INVARIANT TicksTrue
CHECK_DEADLOCK FALSE
