SPECIFICATION FairSpec
CONSTANTS
  Target = 4
  VolumeSize = 2
  Flex = 1
  HardGate = FALSE
  MaxFaults = 0
  FaultKinds = {}
PROPERTIES Completes
CHECK_DEADLOCK FALSE
