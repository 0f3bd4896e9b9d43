SPECIFICATION Spec
CONSTANTS
  MaxPayloadBytes = 16
  MaxFrameCount = 12
  MaxUint16 = 4
  MaxBlockFrames = 5
  PayloadSize = 2
  DataFramesPerBlock = 2
  RescueFramesPerBlock = 2
  Cfg <- MCCfg
  InputSizes = {0, 1, 3}
  Workers = {w1}
  MaxLost = 2
  MaxCorrupt = 0
  MaxRepeated = 0
  MaxDamaged = 2
INVARIANTS
  WrongFileNeedsVacantSlot
