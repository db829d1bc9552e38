SPECIFICATION FairSpec
CONSTANTS
  Target = 14
  VolumeSize = 20
  Flex = 1
  HardGate = TRUE
  MaxFaults = 2
  FaultKinds = {"crash", "park", "runtime", "checkpoint"}
INVARIANTS NoGaps ResumeLosesNothing LongEnough
PROPERTIES SegmentEnds CompletesUnlessParked
CHECK_DEADLOCK FALSE
