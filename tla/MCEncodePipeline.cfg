SPECIFICATION Spec
CONSTANTS
  TotalFrames = 4
  Workers = {w1, w2}
  JobsPerWorker = 1
  MaxFaults = 1
CHECK_DEADLOCK FALSE
INVARIANTS
  BuffersHaveOneOwner
  FramesInOrder
  SuccessIsWhole
PROPERTIES
  EncodeReturns
