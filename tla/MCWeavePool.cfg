SPECIFICATION Spec
CONSTANTS
  MaxPayloadBytes = 16
  MaxFrameCount = 12
  MaxUint16 = 4
  MaxBlockFrames = 5
  PayloadSize = 2
  DataFramesPerBlock = 2
  RescueFramesPerBlock = 1
  Cfg <- MCCfg
  InputSizes = {0, 5}
  Workers = {w1, w2}
  MaxLost = 1
  MaxCorrupt = 1
  MaxRepeated = 1
  MaxDamaged = 0
INVARIANTS
  TypeOK
  EveryImageIsCollected
  SendNeverBlocks
  OutputIsOriginal
PROPERTIES
  RefinesRecovery
