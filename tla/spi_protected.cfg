SPECIFICATION FairSpec
CONSTANTS
  Cap = 8
  SectorSize = 4
  PageSize = 4
  AddrMod = 64
  FifoSize = 2
  MaxSlow = 0
  Calls <- MCErase
PROPERTY EraseOk
