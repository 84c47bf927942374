------------------------------ MODULE BossLife ------------------------------
(***************************************************************************)
(* The end of a boss, with everything else of the game left out: once its  *)
(* health is spent a boss is dying, its death clip is ticked once a frame  *)
(* from its beginning, and the last tick buries it; until then it may fall *)
(* off the map, and nothing brings a dying boss back.                      *)
(* Boss implements this with the animation that plays the clip.  Combat,   *)
(* which has many bosses and no animation, implements it with the clock it *)
(* keeps instead: what Combat assumes of the clip is what Boss delivers.   *)
(***************************************************************************)
EXTENDS Integers

CONSTANT DieTicks      \* the ticks of the death clip

VARIABLES where,       \* "there", "fallen" off the map, or "buried"
          dying, clock

vars == <<where, dying, clock>>

Init == where = "there" /\ dying = FALSE /\ clock = 0

(* healthSystem finds the health spent.                                    *)
Spend == /\ where = "there" /\ ~dying
         /\ dying' = TRUE
         /\ UNCHANGED <<where, clock>>

(* bossAnimSystem.                                                         *)
Tick == /\ where = "there" /\ dying
        /\ clock + 1 < DieTicks
        /\ clock' = clock + 1
        /\ UNCHANGED <<where, dying>>

(* The entity goes, and its clock with it.                                 *)
Leave(to) == /\ where = "there"
             /\ where' = to /\ dying' = FALSE /\ clock' = 0

Bury == dying /\ clock + 1 = DieTicks /\ Leave("buried")

(* movementSystem, below the map.                                          *)
Fall == Leave("fallen")

Next == Spend \/ Tick \/ Bury \/ Fall

Spec == Init /\ [][Next]_vars
=============================================================================
