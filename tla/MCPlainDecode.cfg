SPECIFICATION Spec
CONSTANTS
  Sizes <- MCSizes
  Codes <- MCCodes
  SearchAbove = 2
  SearchLimit = 1
  Paddings <- MCPaddings
  MaxFrames = 4
  MaxTrouble = 2
  DedupAbove = 3
CHECK_DEADLOCK FALSE
INVARIANTS
  VerifiedIsSent
  CompleteIsRestored
  OutputIsInOrder
  NothingIsMixed
