SPECIFICATION FairSpec
CONSTANTS
  UsbXfers = 2
  MaxSets = 1
  Configs <- MCConfigs
PROPERTY NukeEnds
CHECK_DEADLOCK FALSE
