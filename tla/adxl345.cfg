SPECIFICATION FairSpec
CONSTANTS
  Axes <- TwoAxes
  Samples <- SomeSamples
  Faults = {"id", "write", "data", "int"}
INVARIANTS TypeOK
PROPERTIES TapNotLost TapIsSeen
CHECK_DEADLOCK FALSE
