SPECIFICATION Spec
CONSTANTS
  spi = spi
  crc = crc
  uart = uart
  i2s = i2s
  Chans = {spi, crc}
  Users = {i2s}
  UserNum <- TwoEach
  PoolSize = 4
  MaxTx = 2
  Counts = {3, 5}
  HeapFails = TRUE
  HeapWords <- AnyWord
  FreeAfterUse = FALSE
INVARIANTS
  TypeOK
  DescriptorsAccounted
  RunningChainIsHeld
  KeptTableIsWhole
PROPERTIES
  PoolUntilStray
CHECK_DEADLOCK FALSE
