---------------------------- MODULE MCWeaveDecode ----------------------------
(* Small configurations of the codec and of the transport for TLC. *)
EXTENDS WeaveDecode

CONSTANTS PayloadSize, DataFramesPerBlock, RescueFramesPerBlock

MCCfg == [PayloadSize |-> PayloadSize, DataFramesPerBlock |-> DataFramesPerBlock,
          RescueFramesPerBlock |-> RescueFramesPerBlock]
=============================================================================
