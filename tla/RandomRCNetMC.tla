--------------------------- MODULE RandomRCNetMC ---------------------------
(* The four receivers of main and three layers: with layer 3 a receiver can  *)
(* be on the layer below the spine, on the lowest one or in between.         *)
EXTENDS RandomRCNet
=============================================================================
