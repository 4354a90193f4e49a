SPECIFICATION Spec
CONSTANTS
  b1 = b1
  Buses = {b1}
  Busnums <- SomeBusnums
  Addrs = {57}
  Handles = {0, 1}
  Refused <- SomeErrors
  Sizes = {1}
  OthersUses <- SharedUse
  Others = Others
  Nobody = Nobody
  None = None
INVARIANTS WriteReturnsSize
