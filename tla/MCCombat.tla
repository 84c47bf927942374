------------------------------ MODULE MCCombat ------------------------------
(* Combat on small instances: symmetric bullets and enemies of one kind.   *)
EXTENDS Combat, TLC

SlotSymmetry == Permutations(Bullets)
Symmetry == Permutations(Bullets) \cup Permutations(Locksters)
              \cup Permutations(Patrollers)
=============================================================================
