SPECIFICATION LiveSpec
CHECK_DEADLOCK FALSE
CONSTANTS
  Frame = 2
  Block = 4
  Blocks = 2
  Sizes = {1, 4, 9}
  MaxUnits = 10
  MaxNoise = 1
INVARIANTS
  TypeOK
  PhaseKept
  PlayedInOrder
  StopCutsOneFrame
PROPERTIES
  CallsReturn
