SPECIFICATION FairSpec
CONSTANTS
  HostRequests <- MCRequests
  MaxFaults = 1
  MaxTransfers = 5
INVARIANTS
  TypeOK
  Agreement
  ReadsAnswer
  PacketFits
PROPERTIES
  VolumeFromHost
  RateFromHost
  TransferEnds
CHECK_DEADLOCK FALSE
