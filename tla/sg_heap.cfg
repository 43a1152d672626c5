SPECIFICATION Spec
CONSTANTS
  spi = spi
  crc = crc
  uart = uart
  i2s = i2s
  Chans = {spi, crc}
  Users = {uart, i2s}
  UserNum <- OneAndTwo
  PoolSize = 5
  MaxTx = 2
  Counts = {3, 5, 9}
  HeapFails = TRUE
  HeapWords <- NullOnly
  FreeAfterUse = FALSE
INVARIANT AssertionsHold
CHECK_DEADLOCK FALSE
