SPECIFICATION Spec
CONSTANTS
  Words <- SomeWords
  Faults = {"config", "data"}
INVARIANT ChannelsMeasured
CHECK_DEADLOCK FALSE
