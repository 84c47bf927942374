------------------------------- MODULE Field --------------------------------
(***************************************************************************)
(* Where everything is: the player on its way through a level, its         *)
(* checkpoint, the camera, the patrollers and Locksters that watch it and  *)
(* the bullets, one frame of MegamanGame::run per step.  Combat has the    *)
(* health of them all; here a hit, a death and a kill may come whenever    *)
(* Combat allows them.                                                     *)
(* Positions are the x of the code in some unit; the level's enemies are   *)
(* at height 0.  A level is a record                                       *)
(*   [left, right, spawns, paths, nests, tracked]                          *)
(* of its bounds, the player spawns in file order, the patrollers' paths,  *)
(* the Locksters' spawns, and whose bullets are tracked there (a bound).   *)
(***************************************************************************)
EXTENDS Patroller, Lockster, FiniteSets, Sequences

CONSTANTS
  Levels,
  Heights,           \* how high above the enemies the player may be
  Beyond,            \* bound: how far out of the map it may get
  Strides,           \* how far it gets in a frame: up to PLAYER_RUN_SPEED
  PatrolRange,       \* PATROLLER_DETECTION_RANGE
  AlertRange,        \* LOCKSTER_DETECTION_RANGE
  YMargin,           \* Y_MARGIN of tickLockster
  NestTol,           \* the 0.5 m of respawnSystem
  Knocks,            \* by how much a hindered Lockster may be moved
  HalfView,          \* half the width of the camera's view
  CullMargin,        \* MARGIN and the bullet's half width
  ShotSpeed,         \* PLAYER_SHOT_SPEED
  BurstSpeed,        \* PATROLLER_SHOT_SPEED, the part of a diagonal along x
  FreezeFrames, FlickerTicks

ASSUME LevelAssumption ==
  \A lv \in Levels :
    /\ lv.left \in Int /\ lv.right \in Int /\ lv.left <= lv.right
    /\ lv.spawns \in Seq(Int) /\ lv.spawns # <<>>
    /\ lv.paths \in Seq([spawn : Int, min : Int, max : Int])
    /\ \A p \in DOMAIN lv.paths : LET path == lv.paths[p] IN
         path.min <= path.max /\ path.spawn \in {path.min, path.max}
    /\ lv.nests \in Seq(Int)
    /\ lv.tracked \subseteq {"player", "patroller"}

ASSUME FieldAssumption ==
  /\ Heights \subseteq Nat /\ Beyond \in Nat /\ Strides \subseteq Int
  /\ PatrolRange \in Nat /\ AlertRange \in Nat /\ YMargin \in Nat
  /\ NestTol \in Nat \ {0} /\ Knocks \subseteq Int
  /\ HalfView \in Nat /\ CullMargin \in Nat
  /\ ShotSpeed \in Nat /\ BurstSpeed \in Nat
  /\ FreezeFrames \in Nat /\ FlickerTicks \in Nat \ {0}

VARIABLES
  level,
  body, at, height,      \* the player: its body, its MTransform
  checkpoint,            \* Respawn::lastCheckpointX
  passed,                \* history: the player spawns it has been at or beyond
  down,                  \* Respawn::flickerTimer of a dead player, 0 when up
  cam,                   \* GlobalData::_camData.posX
  patrollers, locksters, \* the live ones, by their index in the level
  shots,                 \* the tracked bullets in the air
  odd                    \* history: the parity of the frame

playerVars == <<body, at, height, down>>
vars == <<level, playerVars, checkpoint, passed, cam, patrollers, locksters,
          shots, odd>>

Live(enemies) == DOMAIN enemies

Init ==
  /\ level \in Levels
  /\ body = level.spawns[1] /\ at = body
  /\ height \in Heights
  /\ checkpoint = body /\ passed = {body}
  /\ down = 0
  /\ cam = body
  /\ patrollers = [p \in DOMAIN level.paths |-> CreatePatroller(level.paths[p])]
  /\ locksters = [l \in DOMAIN level.nests |-> CreateLockster(level.nests[l])]
  /\ shots = {}
  /\ odd = FALSE

-----------------------------------------------------------------------------
(* What the systems read: the MTransforms the last frame left.             *)
Near(p) ==
  (patrollers[p].at - at) * (patrollers[p].at - at) + height * height
    < PatrolRange * PatrolRange

InRange(l) ==
  LET dx == locksters[l].at - at
  IN -AlertRange < dx /\ dx < AlertRange /\ height < YMargin

(* A player that is down flickers for FlickerTicks frames.                 *)
Up      == down = 0
Revives == down = 1

(* Enemies are frozen only while the player is shielded (Combat's          *)
(* FreezeInsideShield), so a hit finds none of them frozen.                *)
CanBeHit == /\ Up
            /\ \A p \in Live(patrollers) : patrollers[p].freeze = 0
            /\ \A l \in Live(locksters) : locksters[l].freeze = 0

(* A frame of the player: it walks, is blocked or is pushed, and may be    *)
(* hit; the hit may kill it.  The last frame of the flicker moves it to    *)
(* its checkpoint.                                                         *)
Player(moved, dies) ==
  /\ body' = IF Revives THEN checkpoint' ELSE body + moved
  /\ body' \in (level.left - Beyond)..(level.right + Beyond)
  /\ at' = IF Revives THEN checkpoint' ELSE body
  /\ height' \in Heights
  /\ down' = IF dies THEN FlickerTicks ELSE Less(down)

(* checkpointSystem keeps the largest of the spawns at or before the       *)
(* player, in whatever order they are listed.  Slip... definitions, here   *)
(* and below, are plausible mistakes; nothing uses them.                   *)
PlayerSpawns == {level.spawns[i] : i \in DOMAIN level.spawns}
SlipCrossed(x) == PlayerSpawns \cap {x}
Crossed(x) == {c \in PlayerSpawns : c <= x}

Checkpoint ==
  /\ checkpoint' \in {checkpoint} \cup Crossed(body)
  /\ \A c \in {checkpoint} \cup Crossed(body) : c <= checkpoint'
  /\ passed' = passed \cup {c \in PlayerSpawns : c <= body}

(* Scene::clampCameraToBounds: a map smaller than the view is centered.    *)
Clamped(x) ==
  LET first == level.left + HalfView
      last  == level.right - HalfView
  IN IF first > last THEN (level.left + level.right) \div 2
     ELSE IF x < first THEN first ELSE IF x > last THEN last ELSE x

(* collisionSystem takes the player's MTransform, one step behind its      *)
(* body; respawnSystem comes too late for this frame.                      *)
SlipFollowed == IF Revives THEN checkpoint ELSE cam
Followed == body

Camera == cam' = Clamped(Followed)

-----------------------------------------------------------------------------
(* damageSystem freezes all when the player is hit, healthSystem destroys  *)
(* the killed ones, the end of the flicker resets the others.              *)
Freeze(enemy, hit) ==
  IF hit THEN [enemy EXCEPT !.freeze = FreezeFrames] ELSE enemy

Patrollers(hit, killed) ==
  patrollers' =
    [p \in Live(patrollers) \ killed |->
       IF Revives THEN ResetPatroller(patrollers[p], level.paths[p])
       ELSE Freeze(TickPatroller(patrollers[p], level.paths[p], Near(p)), hit)]

(* A Lockster spawn counts as alive when there is one with a spawn close   *)
(* by, the ones just re-created included; they are looked at in order.     *)
(* The live ones are put back where they spawned.                          *)
Close(k, l) == LET d == level.nests[k] - level.nests[l]
               IN -NestTol < d /\ d < NestTol

SlipRecreated(live, back) == back = {}
Recreated(live, back) ==
  \A l \in DOMAIN level.nests :
    l \in back <=> ~\E k \in live \cup {k \in back : k < l} : Close(k, l)

(* An unhindered Lockster moves by its velocity.                           *)
Moves(l) == {ChargeVelocity(locksters[l])} \cup Knocks

Locksters(hit, killed, moved) ==
  LET live == Live(locksters) \ killed IN
  \/ /\ Revives
     /\ \E back \in SUBSET (DOMAIN level.nests \ live) :
          /\ Recreated(live, back)
          /\ locksters' = [l \in live \cup back |->
                             CreateLockster(level.nests[l])]
  \/ /\ ~Revives
     /\ locksters' =
          [l \in live |->
             Freeze(TickLockster(locksters[l], at, InRange(l), moved[l]), hit)]

-----------------------------------------------------------------------------
(* The bullets of this frame, from the shooter's MTransform.  A burst's    *)
(* bullets along y have no way along x and are left out.                   *)
PlayerShots == IF Up THEN {[at |-> body, v |-> v] : v \in {ShotSpeed, -ShotSpeed}}
                     ELSE {}
BurstShots  == {[at |-> patrollers[p].at, v |-> v] :
                   p \in {q \in Live(patrollers) : Fires(patrollers[q])},
                   v \in {BurstSpeed, -BurstSpeed}}
Fired == (IF "player" \in level.tracked THEN PlayerShots ELSE {})
           \cup (IF "patroller" \in level.tracked THEN BurstShots ELSE {})

(* projectileCullSystem destroys what is out of the view and its margin.   *)
Seen(shot) == /\ cam' - HalfView - CullMargin <= shot.at
              /\ shot.at <= cam' + HalfView + CullMargin

SlipFlown(shot) == shot
Flown(shot) == [shot EXCEPT !.at = @ + shot.v]

(* One bullet is tracked at a time.  It may hit something in any frame,    *)
(* and a death of the player clears it.                                    *)
Shots(dies) ==
  LET inAir == {Flown(s) : s \in shots}
  IN \/ shots' = {}
     \/ shots # {} /\ ~dies /\ shots' = {s \in inAir : Seen(s)}
     \/ shots = {} /\ ~dies /\ \E s \in Fired : shots' = {t \in {s} : Seen(t)}

Frame ==
  \E moved \in Strides, hit, dies \in BOOLEAN,
     fallen \in SUBSET Live(patrollers), lost \in SUBSET Live(locksters),
     knocked \in [Live(locksters) -> UNION {Moves(l) : l \in Live(locksters)}] :
    /\ hit => CanBeHit
    /\ dies => hit
    /\ \A l \in Live(locksters) : knocked[l] \in Moves(l)
    /\ Checkpoint /\ Player(moved, dies) /\ Camera
    /\ Patrollers(hit, fallen) /\ Locksters(hit, lost, knocked)
    /\ Shots(dies)
    /\ odd' = ~odd
    /\ UNCHANGED level

Next == Frame

(* The loop waits for nobody: there is always a next frame, and as every   *)
(* frame changes odd this is WF_vars(Next).                                *)
Spec == Init /\ [][Next]_vars /\ []<><<TRUE>>_vars

-----------------------------------------------------------------------------
TypeOK ==
  /\ level \in Levels
  /\ body \in Int /\ at \in Int /\ checkpoint \in Int /\ cam \in Int
  /\ height \in Heights /\ passed \subseteq Int /\ down \in 0..FlickerTicks
  /\ Live(patrollers) \subseteq DOMAIN level.paths
  /\ patrollers \in [Live(patrollers) -> PatrollerType]
  /\ Live(locksters) \subseteq DOMAIN level.nests
  /\ locksters \in [Live(locksters) -> LocksterType]
  /\ shots \subseteq [at : Int, v : Int]

(* A patroller turns one frame after it has passed the end of its path,    *)
(* because it reads where it was: it leaves its path by no more than two   *)
(* steps, however often it is frozen, fires, or is reset.                  *)
Within(x, path) == /\ path.min - 2 * PatrolSpeed <= x
                   /\ x <= path.max + 2 * PatrolSpeed
PatrolBounded ==
  \A p \in Live(patrollers) :
    /\ Within(patrollers[p].body, level.paths[p])
    /\ Within(patrollers[p].at, level.paths[p])

AllPatrollers == UNION {DOMAIN lv.paths : lv \in Levels}
AllLocksters  == UNION {DOMAIN lv.nests : lv \in Levels}

Calm(p) == Up /\ p \in Live(patrollers) /\ patrollers[p].freeze = 0
Watches(p) == Calm(p) => Near(p)

(* A patroller left in peace goes on visiting both ends of its path,       *)
(* whatever bursts it fires on the way.                                    *)
PatrolGoesOn ==
  \A p \in AllPatrollers :
    <>[]Calm(p) => /\ []<>(Calm(p) => patrollers[p].at <= level.paths[p].min)
                  /\ []<>(Calm(p) => patrollers[p].at >= level.paths[p].max)

(* A player that stays in range is fired at again and again: no step of    *)
(* the patroller jumps over the window at the center of its path.          *)
BurstComes ==
  \A p \in AllPatrollers :
    <>[]Calm(p) /\ <>[]Watches(p) => []<>(Calm(p) => patrollers[p].burst > 0)

(* Why no chance is jumped over: a patroller passes from one side of the   *)
(* center to the other only with a look from inside the window, on this    *)
(* tick, when a ready one starts its burst, or on the next.                *)
Passes(from, to, mark) == \/ 2 * from <= mark /\ mark <= 2 * to
                          \/ 2 * to <= mark /\ mark <= 2 * from
Ready(p) == OnPatrol(patrollers[p]) /\ Near(p) /\ Less(patrollers[p].cool) = 0
CenterSeen(p) ==
  LET path == level.paths[p] IN
  Passes(patrollers[p].at, patrollers'[p].at, path.min + path.max) =>
    \/ AtCenter(patrollers'[p], path)
    \/ Ready(p) => patrollers'[p].burst = BurstFrames
NoCenterMissed ==
  [][~Revives => \A p \in Live(patrollers) \cap Live(patrollers') :
                   CenterSeen(p)]_vars

(* The same for a charge: a Lockster moved by no more than its own speed   *)
(* does not get past its target unseen; the charge ends on this tick, or   *)
(* the next one finds the target reached.                                  *)
OwnStride(l) == /\ -ChargeSpeed <= locksters[l].body - locksters[l].at
                /\ locksters[l].body - locksters[l].at <= ChargeSpeed
TargetSeen(l) ==
  /\ Unfrozen(locksters[l]) /\ Charging(locksters[l]) /\ OwnStride(l)
  /\ Passes(locksters[l].at, locksters'[l].at, 2 * locksters[l].target)
  => locksters'[l].alert = 0 \/ Reached(locksters'[l])
NoTargetMissed ==
  [][~Revives => \A l \in Live(locksters) \cap Live(locksters') :
                   TargetSeen(l)]_vars

(* Nobody steps over its mark.                                             *)
MarksNotMissed == NoCenterMissed /\ NoTargetMissed

(* A charge ends: a Lockster that has nothing in its way and is frozen no  *)
(* more stops within the window around its target and does not swing about *)
(* it for ever.  (While it is frozen at catches up with body: a freeze in  *)
(* the frame that would have seen the target reached carries it past.)     *)
Awake(l) == l \in Live(locksters) => locksters[l].freeze = 0
InCharge(l) == l \in Live(locksters) /\ Charging(locksters[l])
Unhindered ==
  \A l \in Live(locksters) \cap Live(locksters') :
    InCharge(l) /\ ~Revives =>
      locksters'[l].body = locksters[l].body + ChargeVelocity(locksters[l])
ChargeEnds ==
  \A l \in AllLocksters :
    <>[][Unhindered]_vars /\ <>[]Awake(l) => (InCharge(l) ~> ~InCharge(l))

(* The player is sent back to the rightmost spawn it has ever passed,      *)
(* also when the list is not ordered and when it died on the way.          *)
CheckpointIsRightmost ==
  checkpoint \in passed /\ \A c \in passed : c <= checkpoint

(* The view stays inside a map that is larger, shows all of one that is    *)
(* not, and holds the player as it is drawn, but for the frame in which it *)
(* is put back: that one shows the place of its death.                     *)
InView(x) == cam - HalfView <= x /\ x <= cam + HalfView
PlayerInView ==
  [][/\ ~Revives /\ level.left <= at' /\ at' <= level.right => InView(at)'
     /\ \/ InView(level.left)' /\ InView(level.right)'
        \/ level.left <= cam' - HalfView /\ cam' + HalfView <= level.right]_vars

(* When the player is put back every Lockster spawn has a Lockster at rest *)
(* again, its own or one of a spawn close by.                              *)
LockstersBack ==
  [][Revives =>
       \A l \in DOMAIN level.nests : \E k \in Live(locksters') :
         /\ Close(k, l)
         /\ locksters'[k].at = level.nests[k] /\ ~Charging(locksters'[k])]_vars

(* Why every bullet leaves: one that is faster than the player gets nearer *)
(* to the edge of the view in every frame, though the view follows the     *)
(* player and the clamp moves it; the frames around a respawn, in which the*)
(* view jumps, excepted.                                                   *)
Ahead(shot, c) == IF shot.v > 0 THEN shot.at - c ELSE c - shot.at
Outruns(shot) == LET stride == body - at
                 IN IF shot.v > 0 THEN stride < shot.v /\ -shot.v < stride
                                  ELSE shot.v < stride /\ stride < -shot.v
ShotsGain ==
  [][~Revives /\ cam = Clamped(at) =>
       \A s \in shots : Outruns(s) /\ Flown(s) \in shots'
                          => Ahead(Flown(s), cam') > Ahead(s, cam)]_vars

(* Every bullet leaves: none is followed by the camera for ever.           *)
ShotsLeave == shots # {} ~> shots = {}
=============================================================================
