SPECIFICATION LiveSpec
CONSTANTS
  Writers = {w1, w2}
  Msgs = 2
  HwDepth = 2
  MsgBoxes = 2
  MaxFrames = 3
INVARIANTS
  TypeOK
  AnswerIsTrue
  BoxesCounted
  FramesAccounted
PROPERTIES
  WritesReturn
