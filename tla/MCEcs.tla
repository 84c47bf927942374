-------------------------------- MODULE MCEcs -------------------------------
(* bagel::World with one storage of each kind and a few entities.          *)
EXTENDS Ecs, TLC

Symmetry == Permutations(Values)
=============================================================================
