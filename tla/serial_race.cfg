SPECIFICATION LiveSpec
CONSTANTS
  Writers = {w1}
  QueueSize = 2
  Lwm = 1
  MaxWrites = 2
  MaxNoise = 0
PROPERTY
  CompletionNamesSent
CHECK_DEADLOCK FALSE
