--------------------------- MODULE MCRadialBurst ----------------------------
(* RadialBurst scaled down: bursts of 3 bullets and a bag of 3 cells, for  *)
(* 8 and 10 in the game.                                                   *)
EXTENDS RadialBurst
=============================================================================
