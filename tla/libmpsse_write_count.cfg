SPECIFICATION Spec
CONSTANTS
  None = None
  Addrs <- EdgeAddrs
  StrayHandles <- OddHandles
  Sizes = {0, 1, 3}
  Faults = {"write"}
INVARIANTS WriteCountActual
