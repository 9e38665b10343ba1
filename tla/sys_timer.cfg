SPECIFICATION FairSpec
CONSTANTS
  Period = 4
  Levels = 1
  Delays <- MCDelays
  MaxTime = 14
INVARIANTS
  TypeOK
  OverflowsCounted
  TicksTrue
PROPERTIES
  DelayElapsed
  DelayEnds
CHECK_DEADLOCK FALSE
