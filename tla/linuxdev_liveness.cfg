SPECIFICATION FairSpec
CONSTANTS
  t1 = t1
  t2 = t2
  f1 = f1
  i2c1 = i2c1
  spi1 = spi1
  pin1 = pin1
  None = None
  Threads = {t1, t2}
  FDs = {f1}
  I2cBuses = {i2c1}
  I2cBusnums = {0}
  I2cAdapters = {0}
  I2cAddrs = {57}
  MaxI2cLen = 0
  SpiBuses = {spi1}
  SpiParams <- OneSetting
  SpiSelects <- Select0
  SpiDevices <- SpiDevice00
  SpiEnv = None
  SpiLens = {2}
  Pins = {pin1}
  GpioUses <- AgreedUses
  GpioValues = {2}
  RefusedWrites = {"export", "direction", "value"}
PROPERTIES CallsReturn CallsAdvance
