------------------------------- MODULE MCBoss -------------------------------
(* Boss with the constants of Megaman.cpp, except where a run says so.     *)
EXTENDS Boss
=============================================================================
