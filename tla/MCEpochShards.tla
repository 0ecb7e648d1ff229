--------------------------- MODULE MCEpochShards ---------------------------
(* Small instances of the epoch partition for TLC.                         *)
EXTENDS EpochShards
=============================================================================
