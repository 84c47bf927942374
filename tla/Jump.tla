-------------------------------- MODULE Jump --------------------------------
(***************************************************************************)
(* jumpSystem, and the systems of a frame whose order it depends on.  It   *)
(* looks for ground below MTransform, which movementSystem copies from the *)
(* body later in the frame, before collisionSystem steps the world: the    *)
(* ground it sees is the ground of two steps ago, not of the last one.     *)
(* Terrain, the keyboard and deaths are free.  Times are thirds of a       *)
(* millisecond, so that FRAME_DELTA_MS, 1000/60, is the integer 50.        *)
(***************************************************************************)
EXTENDS Integers

CONSTANTS
  Dt,             \* GlobalData::FRAME_DELTA_MS
  CoyoteTime,     \* PLAYER_JUMP_COYOTE_TIME
  BufferTime,     \* PLAYER_JUMP_BUFFER_TIME
  MaxOff          \* bound: frames off the ground that are told apart

ASSUME JumpAssumption ==
  /\ Dt \in Nat \ {0} /\ CoyoteTime \in Nat /\ BufferTime \in Nat
  /\ MaxOff \in Nat /\ (MaxOff - 1) * Dt > CoyoteTime

VARIABLES
  phase,          \* the system that runs next
  onGround,       \* the body has ground below it, after the last step
  synced,         \* so has MTransform, where jumpSystem looks
  moveUp,         \* Intent::moveUp
  isGrounded, isJumping, coyoteTimer, bufferTimer, prevMoveUp,    \* Jump
  heavy,          \* the gravity scale is PLAYER_JUMP_FALL_FACTOR, not 1
  isDead, isRespawning,       \* Health::isDead, Respawn::isRespawning
  \* history: this frame's impulse, an early press in this frame, impulses
  \* since the last landing seen, frames since ground was last seen, an
  \* impulse the body has flown on ever since, and whether since the last
  \* impulse UP was seen let go, or the player was put back
  jumped, early, jumps, off, inFlight, rearmed

jumpVars == <<isGrounded, isJumping, coyoteTimer, bufferTimer, prevMoveUp, heavy>>
lifeVars == <<isDead, isRespawning>>
history  == <<jumped, early, jumps, off, inFlight, rearmed>>
vars == <<phase, onGround, synced, moveUp, jumpVars, lifeVars, history>>

TypeOK ==
  /\ phase \in {"input", "jump", "movement", "collision", "health", "respawn"}
  /\ {onGround, synced, moveUp, isGrounded, isJumping, prevMoveUp, heavy,
      isDead, isRespawning, jumped, early, inFlight, rearmed} \subseteq BOOLEAN
  /\ coyoteTimer \in 0..CoyoteTime /\ bufferTimer \in 0..BufferTime
  /\ jumps \in 0..2 /\ off \in 0..MaxOff

(* createPlayer puts the body somewhere; Jump starts with its defaults.    *)
Init ==
  /\ phase = "input" /\ onGround \in BOOLEAN /\ synced = onGround
  /\ moveUp = FALSE
  /\ isGrounded = FALSE /\ isJumping = FALSE /\ prevMoveUp = FALSE
  /\ coyoteTimer = 0 /\ bufferTimer = 0 /\ heavy = FALSE
  /\ isDead = FALSE /\ isRespawning = FALSE
  /\ jumped = FALSE /\ early = FALSE /\ jumps = 0 /\ off = MaxOff
  /\ inFlight = FALSE /\ rearmed = TRUE

Then(from, to) == phase = from /\ phase' = to

-----------------------------------------------------------------------------
(* inputSystem: the UP key, or an empty Intent for a dead player.          *)
InputSystem ==
  /\ Then("input", "jump")
  /\ \E up \in BOOLEAN : /\ moveUp' = (up /\ ~isDead)
                         /\ rearmed' = (rearmed \/ ~up)
  /\ UNCHANGED <<onGround, synced, jumpVars, lifeVars, jumped, early, jumps, off,
                 inFlight>>

(* std::max(0.f, timer - DT).  Definitions named Slip... are plausible     *)
(* mistakes in the one that follows; nothing uses them.                    *)
SlipRunDown(time) == time
RunDown(time) == IF time > Dt THEN time - Dt ELSE 0

Lands == synced /\ ~isGrounded

StillJumping == isJumping /\ ~Lands

(* The coyote timer before it is run down: nothing on the ground, the full *)
(* time on the first frame off it without a jump.                          *)
Coyote == IF synced THEN 0
          ELSE IF isGrounded /\ ~StillJumping THEN CoyoteTime ELSE coyoteTimer

SlipFreshPress == moveUp
FreshPress == moveUp /\ ~prevMoveUp

EarlyPress == FreshPress /\ StillJumping
Buffer == IF EarlyPress THEN BufferTime ELSE bufferTimer

SlipJumpsNow == FreshPress /\ (synced \/ Coyote > 0)
JumpsNow == ~StillJumping /\ FreshPress /\ (synced \/ Coyote > 0)
JumpsBuffered == ~StillJumping /\ ~JumpsNow /\ synced /\ Buffer > 0

SlipStaysHeavy == heavy
StaysHeavy == heavy /\ ~synced

JumpSystem ==
  /\ Then("jump", "movement")
  /\ isGrounded' = synced
  /\ jumped' = (JumpsNow \/ JumpsBuffered)
  /\ isJumping' = (StillJumping \/ jumped')
  /\ coyoteTimer' = RunDown(Coyote)
  /\ bufferTimer' = IF JumpsBuffered THEN 0 ELSE RunDown(Buffer)
  /\ prevMoveUp' = moveUp
  /\ heavy' \in {StaysHeavy, StaysHeavy \/ isJumping'}    \* if velocity.y <= 0
  /\ early' = EarlyPress
  /\ jumps' = (IF Lands THEN 0 ELSE jumps) + (IF jumped' THEN 1 ELSE 0)
  /\ off' = IF synced THEN 0 ELSE IF off < MaxOff THEN off + 1 ELSE off
  /\ rearmed' = (rearmed /\ ~jumped')
  /\ inFlight' = (inFlight \/ jumped')
  /\ UNCHANGED <<onGround, synced, moveUp, lifeVars>>

(* movementSystem: MTransform follows the body.                            *)
MovementSystem ==
  /\ Then("movement", "collision")
  /\ synced' = onGround
  /\ UNCHANGED <<onGround, moveUp, jumpVars, lifeVars, history>>

(* collisionSystem: b2World_Step moves the body.                           *)
CollisionSystem ==
  /\ Then("collision", "health")
  /\ onGround' \in BOOLEAN
  /\ inFlight' = (inFlight /\ ~onGround')
  /\ UNCHANGED <<synced, moveUp, jumpVars, lifeVars, jumped, early, jumps, off,
                 rearmed>>

(* damageSystem and healthSystem: a player without points is dead.         *)
HealthSystem ==
  /\ Then("health", "respawn")
  /\ \E spent \in BOOLEAN : isDead' = (isDead \/ spent)
  /\ UNCHANGED <<onGround, synced, moveUp, isRespawning, jumpVars, history>>

(* respawnSystem.  A dead player's body is stopped and its Intent emptied, *)
(* in the frame of its death and while it flickers (60 frames, here any    *)
(* number); then it is put back, MTransform with it, and Jump keeps what   *)
(* it held.                                                                *)
StaysDown ==
  /\ isDead
  /\ isRespawning' = TRUE /\ moveUp' = FALSE /\ inFlight' = FALSE
  /\ UNCHANGED <<onGround, synced, isDead, rearmed>>

Revives ==
  /\ isRespawning
  /\ onGround' \in BOOLEAN /\ synced' = onGround' /\ inFlight' = FALSE
  /\ isDead' = FALSE /\ isRespawning' = FALSE
  /\ rearmed' = TRUE
  /\ UNCHANGED moveUp

RespawnSystem ==
  /\ Then("respawn", "input")
  /\ \/ StaysDown \/ Revives
     \/ ~isDead /\ UNCHANGED <<onGround, synced, moveUp, lifeVars, inFlight, rearmed>>
  /\ UNCHANGED <<jumpVars, jumped, early, jumps, off>>

Next == InputSystem \/ JumpSystem \/ MovementSystem \/ CollisionSystem
        \/ HealthSystem \/ RespawnSystem

Spec == Init /\ [][Next]_vars

-----------------------------------------------------------------------------
(* The player jumps once between two landings that jumpSystem sees: coyote *)
(* time, buffer and a fresh press on the landing frame never add up to a   *)
(* second jump, and isJumping says which of the two it is.                 *)
NoDoubleJump == jumps = IF isJumping THEN 1 ELSE 0

(* "jump briefly after walking off a ledge": no jump starts later than the *)
(* coyote time after the last ground seen, whatever else happened between. *)
JumpsNearGround == [][JumpSystem /\ jumped' =>
                        off' = 0 \/ (off' - 1) * Dt < CoyoteTime]_vars

(* ... because every frame off the ground takes one Dt from the coyote     *)
(* timer, which starts on the first of them.                               *)
CoyoteInv ==
  /\ isGrounded => off = 0
  /\ coyoteTimer > 0 => coyoteTimer + off * Dt <= CoyoteTime

(* A key held down jumps once in a life: before the next jump it was seen  *)
(* let go, or the player was put back after a death.  (A dead player's     *)
(* Intent is empty, so a key held through the death is a fresh press on    *)
(* revival and jumps again.)                                               *)
HeldKeyJumpsOnce == [][JumpSystem /\ jumped' => rearmed]_vars

(* The heavier gravity of the falling half of a jump is gone when the jump *)
(* is: a player that walks off a ledge next falls at the normal rate.      *)
HeavyOnlyInJump == heavy => isJumping

(* "Jump buffer: set on a fresh up-press while airborne; fires on the      *)
(* first grounded frame": a press one frame early is not lost.             *)
JumpBuffered == [][JumpSystem /\ early /\ Lands => jumped']_vars

(* "started when the player walks off a ledge without jumping": the coyote *)
(* window does not open for a body that is flying on an impulse.           *)
CoyoteWithoutJump == [][JumpSystem /\ coyoteTimer' > coyoteTimer => ~inFlight]_vars
=============================================================================
