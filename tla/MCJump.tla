------------------------------- MODULE MCJump -------------------------------
(* Jump with the constants of Megaman.cpp in thirds of a millisecond: 40   *)
(* ms of coyote time is 120, 10 ms of buffer is 30, a frame is 50.         *)
EXTENDS Jump
=============================================================================
