SPECIFICATION Spec
CONSTANTS
  t1 = t1
  t2 = t2
  f1 = f1
  f2 = f2
  f3 = f3
  i2c1 = i2c1
  spi1 = spi1
  pin1 = pin1
  None = None
  Threads = {t1, t2}
  FDs = {f1, f2, f3}
  I2cBuses = {i2c1}
  I2cBusnums <- Busnums
  I2cAdapters = {0}
  I2cAddrs = {41, 57}
  MaxI2cLen = 0
  SpiBuses = {spi1}
  SpiParams <- OneSetting
  SpiSelects <- SelectDefault
  SpiDevices <- SpiDevice00
  SpiEnv = 0
  SpiLens = {2}
  Pins = {pin1}
  GpioUses <- AgreedUses
  GpioValues = {0, 2}
  RefusedWrites = {"export", "value"}
SYMMETRY Symmetry
INVARIANTS IInv TypeOK NoDescriptorLeak SingleOwner GpioDirectionSet SpiHandlesConfigured I2cHandlesBound
PROPERTIES OwnersUndisturbed ImplementsI2cApi
