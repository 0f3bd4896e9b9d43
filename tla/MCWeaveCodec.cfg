SPECIFICATION Spec
CONSTANTS
  MaxPayloadBytes = 16
  MaxFrameCount = 12
  MaxUint16 = 4
  MaxBlockFrames = 7
  Width = 3
  Polynomial = 3
  Order = 8
  Add <- GfAdd
  Mul <- GfMul
  Inv <- GfInv
  Configs <- MCConfigs
  Files <- MCFiles
  Lossy <- MCLossy
  CacheLimit = 1
  MaxCalls = 3
INVARIANTS
  CallsAreIndependent
  RestoresExactly
  CacheIsRight
PROPERTIES
  FailedCallKeepsOutput
CHECK_DEADLOCK FALSE
