SPECIFICATION BurstSpec
CONSTANTS
  MaxPayloadBytes = 15
  MaxFrameCount = 16
  MaxUint16 = 4
  MaxBlockFrames = 5
  PayloadSizes = {1, 2, 3}
  BlockSizes = {1, 2, 3, 4}
  RescueCounts = {0, 1, 2, 3}
  Configurations <- MCConfigs
  InputSizes = {0, 1, 2, 3, 4, 6, 7, 8, 11, 12, 14, 15, 16}
CHECK_DEADLOCK FALSE
INVARIANTS
  EncodeIsAccepted
  VideoIsOrderedPermutation
  BurstIsRecoverable
