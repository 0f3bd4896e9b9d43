---------------------------- MODULE MCWeaveBurst -----------------------------
EXTENDS WeaveBurst

CONSTANTS PayloadSizes, BlockSizes, RescueCounts

MCConfigs ==
  [PayloadSize : PayloadSizes, DataFramesPerBlock : BlockSizes,
   RescueFramesPerBlock : RescueCounts]
=============================================================================
