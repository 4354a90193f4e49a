SPECIFICATION Spec
CONSTANTS
  None = None
  Addrs <- EdgeAddrs
  StrayHandles <- OddHandles
  Sizes = {0, 1, 3}
  Faults = {"start", "addr", "read", "dummy", "write", "stop"}
INVARIANTS TypeOK  AnswersAsOpened CountIsEarned ContextsOwned
PROPERTIES ImplementsI2cApi
