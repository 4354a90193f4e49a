SPECIFICATION Spec
CONSTANTS
  main = main
  bus = bus
  f1 = f1
  f2 = f2
  None = None
  Threads = {main}
  FDs = {f1, f2}
  I2cBuses = {bus}
  I2cBusnums <- Busnums
  I2cAdapters = {0, 1}
  I2cAddrs <- Addrs
  MaxI2cLen = 0
  Last = 4
INVARIANTS MapIsTrue NothingLeftOpen
PROPERTIES ScanAdvances Finishes
CHECK_DEADLOCK FALSE
