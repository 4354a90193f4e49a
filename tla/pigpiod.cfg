SPECIFICATION Spec
CONSTANTS
  b1 = b1
  b2 = b2
  Buses = {b1, b2}
  Busnums <- SomeBusnums
  Addrs = {41, 57}
  Handles = {0, 1}
  Refused <- SomeErrors
  Sizes = {1}
  OthersUses <- SharedUse
  Others = Others
  Nobody = Nobody
  None = None
SYMMETRY Symmetry
INVARIANTS TypeOK ReachesOwnDevice NoHandleLeak
PROPERTY ImplementsI2cApi
