SPECIFICATION Spec
CONSTANTS
  Psizes <- MCPsizes
  BufSize = 16
  Align = 2
  CounterMod = 64
  UsbXfers = 2
  MaxBytes = 80
  MaxStreams = 1
INVARIANT DropOnlyWhenFull
CHECK_DEADLOCK FALSE
