SPECIFICATION FairSpec
CONSTANTS
  FifoSize = 3
  Tdlr = 1
  Registers = 3
  MaxStalls = 2
  Calls <- MCCalls
INVARIANTS
  TypeOK
  TrueToDevice
PROPERTIES
  CallEnds
