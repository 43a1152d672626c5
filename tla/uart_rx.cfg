SPECIFICATION LiveSpec
CONSTANTS
  Size = 4
  FifoDepth = 2
  MaxBytes = 10
INVARIANTS
  TypeOK
  RingsAgree
  EveryByteOnce
  QuietRingIsWhole
PROPERTIES
  QuietLineIsReported
