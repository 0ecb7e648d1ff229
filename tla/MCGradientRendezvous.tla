------------------------ MODULE MCGradientRendezvous ------------------------
(* Small instances of the rendezvous of two ranks for TLC.                 *)
EXTENDS GradientRendezvous, TLC
=============================================================================
