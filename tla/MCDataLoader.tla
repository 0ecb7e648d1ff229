---------------------------- MODULE MCDataLoader ----------------------------
(* Small instances of the data loader for TLC.                             *)
EXTENDS DataLoader, TLC

CONSTANTS w1, w2, w3
=============================================================================
