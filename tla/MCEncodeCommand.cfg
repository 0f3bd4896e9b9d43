SPECIFICATION Spec
CONSTANTS
  Blank = Blank
  TotalFrames = 4
  ProgressSize = 2
  DoneSize = 1
  PipeSize = 2
  Sizes = {1, 2, 3}
  Limit = 2
  MaxFaults = 2
INVARIANTS
  SuccessIsWhole
  NoFfmpegIsLeft
  ProgressIsHonest
  ScreenIsLeftClean
PROPERTIES
  EncodeReturns
