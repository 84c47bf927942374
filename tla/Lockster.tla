------------------------------ MODULE Lockster ------------------------------
(***************************************************************************)
(* tickLockster and what moves a Lockster's body, a dynamic one that walls *)
(* and the player stop or push.  at and body are as in Patroller; target   *)
(* is AI::targetX during a charge, and 0 when nothing will read it.        *)
(***************************************************************************)
EXTENDS Integers

CONSTANTS
  ChargeSpeed,      \* LOCKSTER_CHARGE_SPEED, distance in a frame
  Reach,            \* the 0.2 m at which the target counts as reached
  AlertTicks        \* the 30 of tickLockster

(* 8 m/s is 0.133 m in a frame; the window around the target is 0.4 m wide.*)
ASSUME ChargeAssumption ==
  /\ ChargeSpeed \in Nat \ {0} /\ Reach \in Nat
  /\ ChargeSpeed < 2 * Reach
  /\ AlertTicks \in Nat \ {0}

LocksterType ==
  [body: Int, at: Int, alert: 0..AlertTicks, target: Int, freeze: Nat]

(* Also how respawnSystem puts a Lockster back in place.                   *)
CreateLockster(x) ==
  [body |-> x, at |-> x, alert |-> 0, target |-> 0, freeze |-> 0]

-----------------------------------------------------------------------------
Unfrozen(l) == l.freeze = 0
Charging(l) == l.alert >= AlertTicks

(* SlipReached is a plausible mistake; nothing uses it.                    *)
SlipReached(l) == l.at = l.target
Reached(l) == -Reach < l.at - l.target /\ l.at - l.target < Reach

(* The tick that completes the alert locks the target.                     *)
Locks(l, inRange) ==
  Unfrozen(l) /\ ~Charging(l) /\ inRange /\ l.alert + 1 = AlertTicks

ChargeVelocity(l) ==
  IF ~Unfrozen(l) \/ ~Charging(l) \/ Reached(l) THEN 0
  ELSE IF l.at < l.target THEN ChargeSpeed ELSE -ChargeSpeed

NextAlert(l, inRange) ==
  IF ~Unfrozen(l) THEN l.alert
  ELSE IF Charging(l) THEN IF Reached(l) THEN 0 ELSE l.alert
  ELSE IF inRange THEN l.alert + 1 ELSE 0

(* aiSystem, movementSystem and b2World_Step, which moves it by moved.     *)
TickLockster(l, playerX, inRange, moved) ==
  [body   |-> l.body + moved,
   at     |-> l.body,
   alert  |-> NextAlert(l, inRange),
   target |-> IF Locks(l, inRange) THEN playerX
              ELSE IF NextAlert(l, inRange) = 0 THEN 0 ELSE l.target,
   freeze |-> IF Unfrozen(l) THEN 0 ELSE l.freeze - 1]
=============================================================================
