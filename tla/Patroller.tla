----------------------------- MODULE Patroller ------------------------------
(***************************************************************************)
(* tickPatroller and what moves a patroller's body.  A patroller is a      *)
(* record of its AI component and of its place: at is MTransform.x, which  *)
(* is what the tick reads, body is the place of its Box2D body, one step   *)
(* ahead.  The body is kinematic: nothing but its velocity moves it.       *)
(* A path is where it spawns and the two ends of its patrol.               *)
(***************************************************************************)
EXTENDS Integers

CONSTANTS
  PatrolSpeed,      \* PATROLLER_SPEED, distance in a frame
  CenterTol,        \* PATROLLER_CENTER_TOL
  BurstFrames,      \* PATROLLER_BURST_FRAMES
  BurstCooldown     \* PATROLLER_BURST_COOLDOWN

(* 5 m/s is 0.083 m in a frame; the window at the center is 0.8 m wide.    *)
ASSUME PatrolAssumption ==
  /\ PatrolSpeed \in Nat \ {0} /\ CenterTol \in Nat
  /\ PatrolSpeed < 2 * CenterTol
  /\ BurstFrames \in Nat \ {0} /\ BurstCooldown \in Nat

PatrollerType ==
  [body: Int, at: Int, right: BOOLEAN, burst: 0..BurstFrames,
   cool: 0..BurstCooldown, fired: BOOLEAN, freeze: Nat]

CreatePatroller(path) ==
  [body |-> path.spawn, at |-> path.spawn, right |-> TRUE,
   burst |-> 0, cool |-> 0, fired |-> FALSE, freeze |-> 0]

(* respawnSystem puts a patroller back in place.                           *)
ResetPatroller(p, path) == CreatePatroller(path)

-----------------------------------------------------------------------------
Less(n) == IF n > 0 THEN n - 1 ELSE 0

(* In a frame a patroller is frozen, in a burst, or on patrol.             *)
InBurst(p)  == p.freeze = 0 /\ p.burst > 0
OnPatrol(p) == p.freeze = 0 /\ p.burst = 0

(* Definitions named Slip... are plausible mistakes in the definition that *)
(* follows; nothing uses them.                                             *)
SlipHeadsRight(p, path) == p.right /\ p.at < path.max
HeadsRight(p, path) ==
  p.at <= path.min \/ (p.right /\ p.at < path.max)

SlipAtCenter(p, path) == 2 * p.at = path.min + path.max
AtCenter(p, path) ==
  LET twice == 2 * p.at - (path.min + path.max)
  IN -2 * CenterTol < twice /\ twice < 2 * CenterTol

SlipStarts(p, path, near) == OnPatrol(p) /\ near /\ AtCenter(p, path)
Starts(p, path, near) ==
  OnPatrol(p) /\ near /\ AtCenter(p, path) /\ Less(p.cool) = 0

Fires(p) == InBurst(p) /\ ~p.fired

(* The Intent of the tick, as movementSystem turns it into a velocity.     *)
PatrolVelocity(p, path, near) ==
  IF ~OnPatrol(p) \/ Starts(p, path, near) THEN 0
  ELSE IF HeadsRight(p, path) THEN PatrolSpeed ELSE -PatrolSpeed

(* aiSystem, movementSystem and b2World_Step.                              *)
TickPatroller(p, path, near) ==
  [body   |-> p.body + PatrolVelocity(p, path, near),
   at     |-> p.body,
   right  |-> IF OnPatrol(p) THEN HeadsRight(p, path) ELSE p.right,
   burst  |-> IF Starts(p, path, near) THEN BurstFrames
              ELSE IF InBurst(p) THEN p.burst - 1 ELSE p.burst,
   cool   |-> IF Starts(p, path, near) THEN BurstCooldown
              ELSE IF p.freeze = 0 THEN Less(p.cool) ELSE p.cool,
   fired  |-> ~Starts(p, path, near) /\ (p.fired \/ Fires(p)),
   freeze |-> Less(p.freeze)]
=============================================================================
