----------------------------- MODULE PlayerLife -----------------------------
(***************************************************************************)
(* What the damage, health and respawn systems promise about the player,   *)
(* with everything else of the game left out: a player has health and a    *)
(* shield (the invulnerability frames), a hit lands only on an unshielded  *)
(* player and raises the shield, a player whose health is spent stays      *)
(* shielded until it is revived, and it is revived exactly FlickerTicks    *)
(* frames after the hit that killed it.  Combat implements this.           *)
(***************************************************************************)
EXTENDS Integers

CONSTANTS MaxHp,            \* Respawn::maxHp, in half points
          HitIframes,       \* PLAYER_HIT_IFRAMES
          RespawnIframes,   \* PLAYER_RESPAWN_IFRAMES
          FlickerTicks      \* the 60 of respawnSystem

VARIABLES hp,      \* Health::points, in half points
          shield   \* frames of invulnerability left, 0 when vulnerable

vars == <<hp, shield>>

Down == hp <= 0

Init == hp = MaxHp /\ shield = 0

(* A hit: only on a player that is up and has no shield; it always costs   *)
(* something.                                                              *)
Hit == /\ shield = 0 /\ ~Down
       /\ hp' < hp
       /\ shield' = HitIframes

(* A frame passes.  The shield of a player that is down never runs out.    *)
Frame == /\ shield > 0
         /\ shield' = shield - 1
         /\ Down => shield' > 0
         /\ UNCHANGED hp

(* The player that went down is put back: healthSystem takes one frame off *)
(* the shield in the frame of the hit and FlickerTicks more until here.    *)
Revive == /\ Down
          /\ shield = HitIframes - 1 - FlickerTicks
          /\ hp' = MaxHp
          /\ shield' = RespawnIframes

Next == Hit \/ Frame \/ Revive

Spec == Init /\ [][Next]_vars
=============================================================================
