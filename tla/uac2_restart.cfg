SPECIFICATION Spec
CONSTANTS
  Psizes <- MCPsizes
  BufSize = 16
  Align = 2
  CounterMod = 4096
  UsbXfers = 2
  MaxBytes = 80
  MaxStreams = 3
INVARIANT RxWithinTxBuffers
CHECK_DEADLOCK FALSE
