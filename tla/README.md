# A verification of megamanECS

megamanECS is a small Mega Man–style platformer in C++20: a single-threaded
main loop calls some fifteen *systems* in a fixed order sixty times a second,
over entities and components kept by `bagel`, a one-header entity store. There
are no threads, no messages and nothing is persisted. What makes the program
hard to get right is order: a dozen counters in different components, each
counted by a different system at a different point of the frame, reset by some
paths and not by others, and read through references into storages that move.
That is what this project models.

## 1. Inventory

| Part | Source | State | Operations | What must hold |
|---|---|---|---|---|
| Main loop | `MegamanGame.cpp` `run` | the order of the systems, the frame clock | one frame | the order of the systems; catching up after a stall; ending when asked |
| Health, damage, respawn | `Megaman.cpp` 1313–1415, 1853–1988 | `Health`, `DamageIntent`, `Respawn` | damageSystem, healthSystem, respawnSystem | a hit is applied once or forgotten; a dead player is shielded until it is put back, and is put back |
| Bullets and contacts | 514–568, 840–879, 1118–1302 | `Projectile`, `Weapon`, Box2D contacts | shootingSystem, collisionSystem, projectileCullSystem | who is hurt by what; no bullet of a dead player |
| Patroller, Lockster | 1425–1575, 1681–1729 | `AI` (freeze, alert, burst, path, target) | aiSystem, tickPatroller, tickLockster | one volley per burst; the shield while idle; the freeze ends; patrols stay on their path and go on; charges end |
| Boss | 1589–1670, 1731–1817 | `BossAI`, `BossAnimation` | bossSystem, tickBoss, bossAnimSystem | alternating attacks, full volleys, one death |
| Animation | 139–174, 888–1003 | `*Animation`, `RenderFrame` | tickAnim and the state selections | clips start clean and end once |
| Jump | 727–830 | `Jump`, gravity scale | jumpSystem | one jump per landing, one per held key and life, coyote time, buffer |
| Movement | 658–710 | `MTransform`, `Movement` | movementSystem | falls; facing |
| Checkpoints | 1819–1841 | `Respawn::lastCheckpoint*` | checkpointSystem | the rightmost spawn crossed |
| Entity store | `bagel.h` | masks, recycled ids, storages | create/delete entity, add/get/del component | an entity never sees another's component |
| Scene | `Scene.cpp`, `Map*Layer.cpp` | layers, spawns, textures | load, attachPhysics, queries | a valid scene is complete; only bad files stop the program |
| Camera | `Scene.cpp` 93–121, `GlobalData.h` | `CameraData` | update, clamp | the view stays inside the map |
| Start and end | `MegamanGame.cpp` 15–144, `app/megaman_ecs.cpp` | SDL and Box2D handles | constructor, `valid`, destructor, `main` | `run` only on a complete game; all that was made is released |
| Drawing, HUD | `Megaman.cpp` 1016–1114, `MTransform.cpp` | none | drawSystem, hudSystem | (reads only) |

The parts interact only through components and through the order of the calls.
The places where two of them meet are listed as hazards in `PROJECT.json`, each
at its line. The hard ones are: the i-frames (counted by healthSystem) against
the flicker (counted by respawnSystem) and the freeze (counted by aiSystem);
several writers of one `DamageIntent` in one frame; a respawn that resets
enemies in any state; ids and slots that are recycled; references that outlive
an allocation; and ground sensing that looks at a position two physics steps
old.

## 2. Modules

| Module | Models | Checked by | Proved in |
|---|---|---|---|
| `PlayerLife` | abstract: the player's health and shield | implemented by `Combat` | `CombatProofs` |
| `BossLife` | abstract: how a boss ends | implemented by `Combat` and by `Boss` | `CombatProofs`, `BossProofs` |
| `Combat` | a frame, one action per system, for health, bullets and respawns | `MCCombat` | `CombatProofs` |
| `Anim` | `tickAnim` as an operator | through `Boss` | `BossProofs` |
| `Boss` | the boss through the six systems that touch it | `MCBoss` | `BossProofs` |
| `Jump` | jumpSystem and the order of what feeds it | `MCJump` | `JumpProofs` |
| `EntityStore` | abstract: what an entity store promises | implemented by `Ecs` | `EcsRefines` |
| `Ecs` | `bagel::World` and its storages | `MCEcs` | `EcsProofs`, `EcsRefines` |
| `RadialBurst` | the transform storage under references | `MCRadialBurst` | `RadialBurstProofs` |
| `Patroller`, `Lockster` | `tickPatroller`, `tickLockster` with the bodies they move | through `Field` | `FieldProofs` |
| `Field` | a frame per step: player, checkpoint, camera, enemies and bullets in a level | `MCField` | `FieldProofs` |
| `FrameClock` | the pacing of `run` | through `Startup` | `StartupProofs` |
| `Startup` | `main`: constructor, scene, loop, destructor | `MCStartup` | `StartupProofs` |

`Combat`, `Boss` and `Jump` have one variable per field of the code that matters
and one action per system, named as in the code. A variable `phase` says which
system runs next, so the actions follow each other in the order of `run` and
every invariant is about the state *between two systems*, which is where the
mistakes of this program would be. `Field` takes the whole frame as one step,
because what matters there is how one frame follows another. `Startup` has one
action per step that may fail. Definitions whose name starts with `Slip` are not
used by any action: each is a plausible mistake in the definition that follows
it, there to show that the properties can fail.

**Combat.** `InputSystem`, `AiSystem`, `BossSystem`, `MovementSystem`,
`ShootingSystem`, `CollisionSystem`, `DamageSystem`, `HealthSystem`,
`RespawnSystem` (four disjuncts for its branches), `BossAnimSystem`,
`ProjectileCullSystem`. Health is counted in half points, the unit of every
damage constant. Geometry is nondeterministic: whether the player is in range,
whether a target is reached, who falls, which pairs begin to touch and in which
order, which bullets leave the view. The pairs that *can* touch are those the
filter bits of the create functions allow. A bullet that never touches anything
is not tracked, so "fires" may leave `bullet` unchanged.
`jumpSystem`, `checkpointSystem`, the sprite animations, the camera and the
drawing change none of this state and are not phases.

**Field.** The other half of the same frame: where everything is. A patroller, a
Lockster and the player each have `body`, the place of the Box2D body, and `at`,
their `MTransform`, which movementSystem copied before the last step; every tick
reads `at`. A level gives the map's bounds, the player spawns in file order, the
patrollers' paths and the Locksters' nests, as `MapSpawnLayer` and the
constructor make them. Hits, deaths and kills are free where `Combat` allows
them: an enemy is never frozen when the player is hit, which is `Combat`'s
`FreezeInsideShield`. The player moves freely within a bound around the map
(walls, blows and springs are Box2D's). Positions are integers in a unit in which
a patroller's step is `PatrolSpeed`: only comparisons with the constants matter,
and `PatrolAssumption` and `ChargeAssumption` keep what the game's floats satisfy
by a wide margin, that a step is shorter than the window it must not miss.
`TickPatroller` and `TickLockster` are aiSystem, movementSystem and the physics
step for one enemy. `passed` and `odd` are history.

**Boss.** The whole of `tickBoss` with its own counters, facing as written by
bossSystem and then movementSystem, hits, falls, healing by a respawn, and the
animation that decides when the boss is destroyed. `Combat` keeps of this only
`dying` and the clock of the death clip. Both implement `BossLife`, in which a
spent boss ticks `DieTicks` times and is buried, or falls off the map: `Boss` by
the frames of the clip (`LifeSpec`), `Combat` for each of its bosses by the clock
(`BossesEnd`). So what `Combat` takes for granted of the clip is what `Boss`
delivers. `lastAttack` is history. The boss's own bullets and the explosion are outside this module.

**Jump.** Times are thirds of a millisecond: a frame of 1000/60 ms is the
integer 50, the game's 40 ms of coyote time 120, its 10 ms of buffer 30. The
float rounding of the code cannot change a comparison here: the remainders
(70, 20, 0) are far from zero. Ground is a free Boolean after every physics
step; `synced` is what `MTransform` shows, which movementSystem copied before
the last step. A death may come in any frame: a dead player's Intent is emptied, so
a key held through the death is a fresh press when the player is put back. The
variables from `jumped` on are history; `rearmed` says whether the key was seen let
go, or the player put back, since the last jump.

**Ecs.** Bags are sequences, a component's value a model value. Both settings
of `CallbackOnDelete` are modelled; the game's is FALSE. The masks are sets.
`room` is the capacity of the bag that a storage indexes by the entity id. A
client deletes live entities only and adds a component once, as the game's
create functions do.

**RadialBurst.** The sparse storage of `MTransform` with its capacity, and
references that remember the allocation they were taken from. Reading through
an older one is undefined and may give any value. Every entity of the game has
an `MTransform`, so the ids handed out and the cells needed are the same; an
explosion takes one as a bullet does. `roomy` is history: whether the ids that
the burst was to take, those taken back first, all had cells when it began.

**Startup.** `pc` is the step of the program that comes next. `fields` are the
pointers of `MegamanGame` that are not null, `objects` the SDL objects that
exist, `"scene"` standing for the textures the scene owns. A map is its number of
tilesets and the kinds of its layers, each kind once with what its `create` needs
and once without, an image layer also with no source at all, which is an assertion
in `Texture::loadFromFile` and not a failed load; missing files are chosen at the
start. A failed `massert` ends
the program in both builds (`aborted`), undefined behaviour may end it
(`crashed`) or go unnoticed: reading `playerSpawns[0]` of an empty list, and
stepping a world that was never made. A quit event may come at any time.

## 3. Runs

| Run | Shows |
|---|---|
| `CombatEnemies` | a Lockster, a patroller, 2 bullets: no bullet of a dead player, enemies unhurt while it is down, freeze inside the i-frames, no stale DamageIntent, burst counters in step |
| `CombatGame` | a boss and a Lockster: the respawn shield, `PlayerLife` and `BossLife` implemented, the respawn never heals a dying boss; falls hurt and are fatal, the dead are revived |
| `Field` | five levels: patrols stay on their path, go on and fire; charges end; neither steps over what it looks for; the checkpoint is the rightmost spawn; the view holds the player and stays in the map; Locksters come back; bullets leave |
| `Boss` | attacks alternate through healings and respawns, volley length, attacks on time, `BossLife` implemented with one whole death clip; keeps attacking; dying ends |
| `Jump` | the game's timers, any terrain, keys and deaths: four properties of jumping |
| `EcsCallback` | deleters and delComponent, all three kinds of storage: slots apart, cells in bounds, the store implemented |
| `Startup` | maps of up to four layers, files missing or not: only bad files stop the program, the loop plays a complete game, nothing leaks, it ends when asked and catches up |

Five more runs show a disagreement between the code and its comments
(section 6): `CombatFrozenLockster`, `JumpBufferDead`, `JumpCoyoteStale`,
`RadialBurstMoved`, `StartupValid`.

**Bounds.** `Bullets` bounds the tracked bullets, `MaxContacts` = 2 the begin-touch events that
matter in one step: two are enough for one to overwrite another's DamageIntent,
for two bullets to hit one enemy, and for a bullet and a contact in one step.
The Combat runs scale the timers down and keep their order: flicker + 1 <
i-frames, freeze < i-frames, death clip ≤ flicker, burst < cooldown; the theorems
hold for the game's own values. `Boss` scales its timers down too (4, 3
and 4 ticks, a shot every 3, clip frames of 2): every branch compares a timer
with 0 or with its own starting value only. Boss health is 2 half points instead
of 20 in `Boss`: one hit that does not kill and one that does; a dying boss's
health stops counting at -1 (the guard in `DamageSystem`). `Ecs` has two
ids and two slots per bag (`MaxIds`, `MaxSlots`): enough for a packed
deletion to move a slot or to delete the last one, and for a freed stack slot to
be claimed by either id; bags begin with room for one entity, so that adding to
the second one grows them. `RadialBurst` scales bursts of 8 in a
bag of 10 to bursts of 3 in a bag of 3, which still moves in the middle of a
burst; `MaxBullets` bounds the bullets and explosions alive. `MaxOff` in `Jump` only bounds how
far apart frames in the air are told.
`Startup`'s maps of three layers have every combination of two layers that meet
(two spawn layers, a bad solid layer before or after a good one, no tiles), those
of four a whole scene and one layer more; `MaxLag` bounds how late the loop gets,
three frames. In `Field` a path is five steps long, with the burst's window three
wide; `Strides` lets the player cross a level, `Beyond` bounds how far it leaves
the map, and `tracked` keeps one bullet of one shooter at a time: bullets do not
act on each other. `Knocks` = {0}: what hinders a Lockster in the instance blocks
it. The invariants are proved for any.
Symmetry is used over bullets, enemies of one kind and values, in runs without
liveness properties.

**Fairness.** `Combat` and `Boss` assume `WF_vars(Next)` and nothing else: the
loop of `run` calls every system in turn, no call waits for another part of the
program, and it goes on while the window is open. `Field` says the same as
`[]<><<TRUE>>_vars`: every frame flips `odd`, so a step is always possible and
the two are equal. `Startup` assumes `WF_vars(Program)`: the program waits for
nothing but its own sleep, and the user need not ever quit. No fairness is put on
the nondeterministic choices (nothing says that a bullet ever hits). What
`PatrolGoesOn`, `BurstComes`, `ChargeEnds` and `CatchesUp` need of the
environment is written in them as a premise: a patroller left in peace, a player
that stays in range, a Lockster with nothing in its way that is frozen no more, frames that are short again. In
`Combat` `FallIsFatal` holds although i-frames may drop the lethal DamageIntent and a
contact may overwrite it, because movementSystem raises it again in every frame
below the map. That the player stays below until it is teleported is an
assumption of the model (`below' \in {TRUE, below}`): nothing in the map lifts a
body that has left it downwards. Deadlock is checked in every run but the two of
`Startup`, the only module in which the program ends.

## 4. Proofs

`CombatProofs`, checked by TLAPS for every set of enemies and bullets and every
health and timer value that satisfies the named assumptions of `Combat`:

- `TypeCorrect`: `Spec => []TypeOK`.
- `RespawnShielded`: `Spec => []RespawnShield`. The property is not inductive:
  it says nothing of how long the shield lasts. `ShieldInv` is: from the hit
  that kills to the revival, `timer = flicker + (HitIframes - 1 - FlickerTicks)`,
  give or take the frame healthSystem has taken and respawnSystem has not; with
  it come the facts that only an invulnerable player is dead and that a pending
  intent on a living player costs something. The one assumption on the timers
  it needs is `FlickerTicks + 1 < HitIframes`.
- `ImplementsLives`: `Spec => LivesSpec`, which joins
  `ImplementsPlayerLife` and `BossesImplementBossLife`.
- `ImplementsPlayerLife`: `Spec => LifeSpec`, from the same invariant. Every
  system maps to `Hit`, `Frame`, `Revive` or a stutter of `PlayerLife`.
- `BulletsGoneWhileDown`: `Spec => []NoPlayerBulletWhileDown` by `DownInv`, which
  adds that a dead player's Intent is empty from inputSystem on.
- `FreezeBounded`: `Spec => []FreezeInsideShield` by `FreezeInv`, which keeps every
  freeze counter at least `HitIframes - FreezeFrames` behind the i-frames.
- `BurstsInStep`: `Spec => []BurstClockwork`, inductive as it stands.
- `IntentsAreFresh`: `Spec => []NoStaleDamage` by `HitInv`, which adds that no
  enemy has a DamageIntent while the player respawns, and none has more health
  than it spawned with.
- `EnemiesRestWhileDown`: `Spec => EnemiesUnhurtWhileDown`, from `DownInv` and
  `HitInv`: no bullet of the player and no pending hit on an enemy exist while
  the player is down, so healthSystem takes nothing.
- `FallsHurt` (`FallHurts`, an action property) by `FallInv`: from
  movementSystem to damageSystem a player below the map has a pending
  DamageIntent, and by the invariant behind `RespawnShielded` a pending one costs
  a living player health, be it the lethal one or what a contact wrote over it.
- `BossesImplementBossLife`: `Spec => BossesEnd`, for each boss, from `ClockInv`
  (a boss that is not dying has its death clip at the start). That a respawn re-creates Locksters and no boss
  (`ComesBack`) is what makes it true.
- `DyingBossStaysSpent`: `Spec => []NoZombieBoss` by `ZombieInv`. A respawn heals
  every enemy that exists, a dying boss too; it does not reach one because no
  boss is hit while the player is down and the death clip is over before the
  flicker is. The invariant says that the clip has had a tick for every frame of
  the flicker that has passed; the assumption is `ClipAssumption`, `DieTicks <= FlickerTicks`.

`JumpProofs`, for every frame time, coyote time and buffer time:

- `OneJumpPerLanding` (`NoDoubleJump`) and `GravityRestored` (`HeavyOnlyInJump`),
  both inductive as they stand; `TypeCorrect` needs the first for the range of
  `jumps`.
- `JumpsStartNearGround` (`JumpsNearGround`, an action property) by `CoyoteInv`:
  the coyote timer and the frames since the last ground add up to at most the
  coyote time.
- `HeldKeyIsSpent` (`HeldKeyJumpsOnce`, an action property) by `PressInv`: outside
  jumpSystem `prevMoveUp` remembers every held key of a living player, so a fresh
  press means that the key was seen let go or that a death emptied the Intent in
  between. It assumes a buffer no longer than a frame, which the game's is; a longer
  one could be used after the press it stands for had already made its jump, because
  a fresh press does not clear it.

`EcsProofs` and `EcsRefines`, for any component types, ids and values
and any size of the bags, with and without deleters:

- `TypeCorrect`: `Spec => []TypeOK`. It needs the slots: an index is in range only
  because the slot it came from was.
- `IdsAreClean`: `Spec => []RecycledIdsClean` by `MaskInv`, only a live entity has
  components.
- `SlotsStayApart`: `Spec => []SlotsApart` by `SlotInv`. For a packed storage
  (`PackedInv`) the two maps are inverse to each other while the last slot moves
  into the freed one; for a stack storage (`StackInv`) a slot is owned by one
  entity or free once. Without deleters slots of dead entities stay behind and
  only one half of `PackedInv` holds; delComponent would then move a dead
  entity's slot, so `DeletersAssumption` says it is used with deleters only. The
  game calls it nowhere.
- `CellsStayInBounds`: `Spec => []CellsInBounds` by `RoomInv` and the one fact about
  growing (`EnsuredIsEnough`): ensure never shrinks a bag and always reaches the
  cell asked for, from capacity 0 on.
- `WorldIsAStore`: `Spec => StoreSpec`, that the world implements `EntityStore`
  under the mapping "what `get` shows of the live entities". Every action maps to
  its namesake. The lemmas say what a deletion, an addition and a write leave of
  every other entity's component; they need `SlotInv`, and that recycled ids are
  at most `maxId` (`IdsBelow`).
- `SlotsAreNeverReused`: `~CallbackOnDelete` gives `Spec => [][SlotsLeak]_vars`. It is
  about the game's own setting: no slot is ever put on a free list (`NoneFree`), so
  every component added makes its bag one slot longer and nothing makes it shorter.
  No run checks it: it is the leak of section 6, not something the code promises.

`BossProofs`, for every health, timer, volley and clip length: `TypeCorrect`,
`AttacksTakeTurns` (`AttacksAlternate`), `VolleysAreComplete` (`VolleyIsComplete`) and
`DeathClipIsWhole` (`DeathClipRunsOnce`), from `BossInv`: the types, that a volley
under way has bullets left, that the death clip belongs to a boss in DIE, and
`TurnInv`: `nextIsDash` is set exactly when the attack
that began last was not a dash, in every state, so nothing but the beginning of an
attack may change the flag. `DieTick` then says that one tick of the clip is one
tick of its clock, which runs out exactly when the clip reports its end. Two more
theorems build on it:

- `ImplementsBossLife`: `Spec => LifeSpec`. The clock of `BossLife` is the number of
  ticks the death clip has had; every system maps to `Spend`, `Tick`, `Bury`, `Fall`
  or a stutter. It needs that no system but healthSystem puts a boss in DIE and
  none takes it out, a healing respawn included.
- `AttacksComeOnTime`: `Spec => AttacksOnTime`. `TimeToAttack` falls by one in every
  bossSystem that does not attack, no other system changes it unless the boss
  dies, and its bound is a sum of constants: the boss attacks within that many
  frames, which is how `KeepsAttacking` comes true. `ClocksOK` holds each timer
  between 1 and the value it is set to.

`FieldProofs`, for every list of levels and all speeds, ranges and counts:

- `PatrollersStayBounded` (`PatrolBounded`) by `FieldInv`. The bound is not
  inductive alone: where a patroller goes is decided by where its `MTransform`
  was. `OnPath` holds both places within two steps of the path's ends and at most
  one step apart; a step outward is taken only from inside the path.
- `CheckpointCorrect` (`CheckpointIsRightmost`), `PlayerStaysInView`
  (`PlayerInView`), `LockstersComeBack` (`LockstersBack`), `TypeCorrect`.
- `CenterIsNeverMissed` (`NoCenterMissed`) and `TargetIsNeverMissed`
  (`NoTargetMissed`), action properties from `FieldInv`: a patroller or a charging
  Lockster that passes its mark is seen inside the window, or has acted. They
  hold because a step is no longer than the window is wide, which is
  `PatrolAssumption` and `ChargeAssumption`. The target's needs the Lockster to be
  moved by no more than its own speed: a knock may carry it past.
- `MarksAreNeverMissed` (`MarksNotMissed`) joins the two.
- `BulletsGainOnTheView` (`ShotsGain`): a bullet that is faster than the player gains
  on the view in every frame, since the clamp never lengthens a stride of the
  camera (`ClampedStride`).

`StartupProofs`, for every list of textures, every map and every set of missing
files: `UsableFilesDoNotStopIt` (`OnlyBadFilesStopIt`), `GameIsComplete` (`PlaysComplete`),
`NothingIsLeft` (`NothingLeaks`), `StartIsNeverAhead` (`NeverEarly`), `TypeCorrect` and
`LateLoopCatchesUp` (`LagShrinks`), from `StartupInv`: `OwnedInv` says who owns which SDL object at
every step, `StageInv` what exists when each step of the constructor begins, and
`ClockOK` that the clock is not behind `start`.

`RadialBurstProofs`, for any number of shooters, bullets and cells within `Sizes`,
from `BurstsInv`; what matters in `Sizes` is that a burst of 8 is no longer than
the bag of 10:

- `RoomyBurstsAreRight` (`RoomyBurstIsRight`) and `BagMovesOnce` (`BurstMovesBagOnce`):
  the comment of fireRadialBurst, refuted in general by `RadialBurstMoved`, is
  true of the bursts that begin with room, and the others move the bag once.
  `BurstInv` says why: every bullet takes one from the burst and one from the room,
  so room that was there stays there, and a bag that moves has doubled.
- `BagStaysBounded` (`BagBounded`): a new id is made only when none is free, so there
  are no more ids than entities were ever alive at a time (`BagInv`), and the bag
  is at most twice as long.

What stays with TLC: the liveness properties, which the prover cannot treat.
For most of them the step they rest on, the measure that falls or the mark that
is not missed, is an action property of its own and proved:

| Liveness, model-checked | Its step, proved |
|---|---|
| `FallIsFatal` | `FallHurts` |
| `KeepsAttacking` | `AttacksOnTime` |
| `DyingEnds` | `LifeSpec` of `Boss` (the clock of the clip) |
| `CatchesUp` | `LagShrinks` |
| `BurstComes` | `NoCenterMissed` |
| `ChargeEnds` | `NoTargetMissed` |
| `ShotsLeave` | `ShotsGain` |

`LagShrinks`, `ShotsGain`, `TypeOK` and `RecycledIdsClean` of `Ecs`, `DeathClipRunsOnce`
of `Boss` and the three properties of `RadialBurst` are theorems that no run
repeats: each is the step of a property that is run, or follows from one
(`StoreSpec`, `LifeSpec`), or holds on the instance of `RadialBurstMoved` beside the
one that is refuted there.
`DeadIsRevived`, `EndsWhenAsked` and `PatrolGoesOn` have no such
step. The way from these steps to the liveness property is an argument under
fairness, by hand.

## 5. What is not modelled

- Drawing, HUD, the geometry of tile and image layers: they read state and call
  SDL, and nothing they do is seen by another system. The choice of the
  player's, patroller's and Lockster's clips is output of the same kind.
- Heights and vertical velocities, except as free choices (who falls, where the
  ground is, how high above an enemy the player is), the direction of a bounced
  bullet, and the player's velocity: Box2D decides them.
- `createPlatform`, `createTrigger`, `createItem`: never called.
- SDL, SDL_image, Box2D and tmxlite. They are in the tree under
  `dependencies/`, and with them it has some 946 000 lines; the program itself
  has about 5 000, and those are what the modules are about. What the program
  gets from the libraries (keys, events, contacts, positions, times, loads that
  fail) is free input.
- Integer overflow: the only counter that moves without a reset, an enemy's
  `invulnerableTimer`, would need more than a year of play.

## 6. Where code and comments disagree

Shown by a run:

1. A frozen, idle Lockster is vulnerable (`CombatFrozenLockster`).
2. The jump buffer can never fire: 10 ms is less than a frame (`JumpBufferDead`).
3. Stale ground sensing can open a coyote window in flight (`JumpCoyoteStale`).
4. A radial burst reads its origin through a reference that a growing storage
   invalidates (`RadialBurstMoved`).
5. A constructor that stops at a texture leaves a game that `valid()` accepts,
   without a world or a player, and `main` runs it (`StartupValid`).

Met while modelling, with no run of their own:

6. `Megaman.h:631` says a hit on the player freezes all enemies; damageSystem
   freezes those with an `AI` component, and the boss has `BossAI` instead.
7. `Megaman.cpp:1587` says the boss always faces the player; movementSystem turns
   it along its dash, so it may show its back to a player it has passed.
8. `RenderFrame::finishedThisTick` is documented to be set for exactly one tick;
   a one-shot clip that stays on its last frame sets it again every
   `framesPerStep` ticks.
9. `Megaman.cpp:718` gives the coyote time in ticks; the constant is compared in
   milliseconds, and 40 ms are three frames.
10. With `CallbackOnDelete` false, as in the game, slots of packed and stack
    storages are never reused, although `Megaman.h:391` chooses the stack storage
    for components whose entities come and go. Bullets, explosions and
    re-created Locksters each leave their slots behind: the bags grow as long as the
    game is played (`SlotsAreNeverReused`).
11. `Megaman.cpp:1677` says frozen enemies keep their current Box2D velocity;
    movementSystem, four systems later, sets it from their empty Intent, so they
    stop.
12. `MapSpawnLayer.h:19` says the checkpoints are ordered by X; they are in file
    order. Nothing depends on the order (`CheckpointIsRightmost`).
13. The destructor destroys the renderer and quits SDL before the member `_scene`
    destroys its textures. It works because SDL keeps a registry of live objects
    and ignores a handle that is not in it.

Not errors, but good to know: a burst fired more than about 11.5 m from the
middle of the view is culled in the frame it is fired, so a patroller, whose
range is 15 m, may fire at a player who never sees it; a Lockster frozen in the
frame that would have seen its target reached is carried past it; a charge that
a wall blocks short of its target never ends; the frame in which the player is
put back still shows the place of its death; a key held through a death jumps on
revival without being pressed again; an image layer that names no source ends the
program (`Texture.cpp:23`), one whose file does not load is passed over.

## 7. Plan

Done: `Combat` with `PlayerLife` and `BossLife`, `Ecs` with `EntityStore`, `Boss`, `Jump`,
`RadialBurst`, then `Startup` with `FrameClock`, and `Field` with `Patroller` and
`Lockster`. Every invariant and every action property of the passing runs, and
the refinements, are proved.

Left, in this order:

1. The steps behind the three liveness properties that have none: the flicker
   that runs down (`DeadIsRevived`) and the stride toward the end of the path
   (`PatrolGoesOn`).
2. What tickAnim does to a clip of any length, apart from the boss.
3. Heights in `Field`: falls, the vertical clamp of the camera, a bounced bullet.
4. The clip selection of playerAnimSystem and locksterAnimSystem over `Anim`.
