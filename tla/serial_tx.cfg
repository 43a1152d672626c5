SPECIFICATION LiveSpec
CONSTANTS
  Writers = {w1, w2, w3}
  QueueSize = 2
  Lwm = 1
  MaxWrites = 2
  MaxNoise = 1
INVARIANTS
  TypeOK
  ActivatedIffBusy
  QueueIsServed
  SuspendedIsServed
PROPERTIES
  LineUntilDisturbed
  WritesReturn
CHECK_DEADLOCK FALSE
