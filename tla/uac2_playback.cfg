SPECIFICATION FairSpec
CONSTANTS
  Psizes <- MCPsizes
  BufSize = 16
  Align = 2
  CounterMod = 4096
  UsbXfers = 2
  MaxBytes = 80
  MaxStreams = 3
INVARIANTS
  TypeOK
  WakeupNotLost
  WaitOnlyWhenDry
  BacklogBounded
  RequestsDisjoint
  RequestsStayOffBacklog
PROPERTIES
  NoHalfCutShort
  ImplementsPlayout
  PlaybackResumes
CHECK_DEADLOCK FALSE
