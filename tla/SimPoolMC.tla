------------------------------ MODULE SimPoolMC ------------------------------
(* Four decks and two workers, the smallest pool in which a worker is free   *)
(* while the other is busy and decks are still waiting.  The decks and the   *)
(* workers are model values given in the .cfg.                               *)
EXTENDS SimPool
=============================================================================
