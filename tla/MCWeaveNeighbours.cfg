SPECIFICATION BurstSpec
CONSTANTS
  MaxPayloadBytes = 40
  MaxFrameCount = 40
  MaxUint16 = 4
  MaxBlockFrames = 5
  PayloadSizes = {2}
  BlockSizes = {2, 3}
  RescueCounts = {1, 2}
  Configurations <- MCConfigs
  InputSizes = {0, 2, 3, 4, 7, 8, 11, 12, 14, 17}
CHECK_DEADLOCK FALSE
INVARIANT ConsecutiveLossesHitDifferentBlocks
