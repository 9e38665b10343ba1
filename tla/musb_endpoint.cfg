SPECIFICATION FairSpec
CONSTANTS
  UsbXfers = 2
  MaxSets = 3
  Configs <- MCConfigs
INVARIANTS
  TypeOK
  ArmedIsHead
  CompletedTrue
  NoneLost
PROPERTIES
  PacketStays
  HeadMoves
CHECK_DEADLOCK FALSE
