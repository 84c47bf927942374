------------------------------- MODULE Combat -------------------------------
(***************************************************************************)
(* One frame of MegamanGame::run, system by system, as far as health,      *)
(* damage, bullets and respawning go.  Each system is one action and phase *)
(* names the system that runs next.  jumpSystem, checkpointSystem, the     *)
(* sprite animations, the camera and the drawing touch none of this state  *)
(* and are not phases.  Positions are abstracted: what the systems read    *)
(* from them (in range, target reached, fell off the map, two bodies begin *)
(* to touch, out of view) is chosen anew each time.                        *)
(* Health and damage are counted in half points, the unit of the code.     *)
(***************************************************************************)
EXTENDS Integers, FiniteSets

CONSTANTS
  Player, World,      \* the player, and the static map bodies (userData -1)
  Locksters, Patrollers, Bosses,  \* the enemies the spawn layer lists
  Bullets,            \* bound: the bullets that are tracked at one time
  MaxContacts,        \* bound: begin-touch events that matter in one step
  MaxHp, LocksterHp, PatrollerHp, BossHp,
  HitIframes, RespawnIframes, FreezeFrames, FlickerTicks,
  AlertTicks, BurstFrames, BurstCooldown, ShootCooldown, DieTicks

AIEnemies == Locksters \cup Patrollers    \* the entities with an AI component
Enemies   == AIEnemies \cup Bosses

ASSUME KindsAreDisjoint ==
  /\ Locksters \cap Patrollers = {} /\ AIEnemies \cap Bosses = {}
  /\ Player \notin Enemies /\ World \notin Enemies /\ Player # World
  /\ Bullets \cap (Enemies \cup {Player, World}) = {}

ASSUME HealthAssumption ==
  /\ MaxHp \in Nat \ {0} /\ LocksterHp \in Nat \ {0}
  /\ PatrollerHp \in Nat \ {0} /\ BossHp \in Nat \ {0}

(* The constants of Megaman.cpp satisfy these: 90, 60, 60 and 60 frames.   *)
ASSUME TimerAssumption ==
  /\ HitIframes \in Nat /\ RespawnIframes \in Nat \ {0}
  /\ FreezeFrames \in Nat /\ FlickerTicks \in Nat \ {0}
  /\ FlickerTicks + 1 < HitIframes
  /\ FreezeFrames < HitIframes

(* The boss's death clip (4 frames of 10 ticks) is no longer than the      *)
(* flicker (60).                                                           *)
ASSUME ClipAssumption == DieTicks <= FlickerTicks

ASSUME AIAssumption ==
  /\ AlertTicks \in Nat \ {0} 
  /\ BurstFrames \in Nat \ {0} /\ BurstCooldown \in Nat
  /\ BurstFrames < BurstCooldown
  /\ ShootCooldown \in Nat /\ DieTicks \in Nat \ {0} /\ MaxContacts \in Nat

-----------------------------------------------------------------------------
VARIABLES
  phase,                                  \* the system that runs next
  \* the player's Health
  hp, invulnerable, timer, dead,
  \* its Respawn
  respawning, flicker,
  \* its DamageIntent; amount is 0 when nothing is pending
  pending, amount,
  \* its Intent::shoot and Weapon::shootCooldown, and t.y < sceneMinY
  shoot, cooldown, below,
  \* the enemies: the entity exists, Health, DamageIntent::pending
  alive, ehp, shielded, hit,
  \* their AI: freezeFrames, alertTimer, burstTimer, burstCooldown, burstFired
  freeze, alert, burst, burstCool, burstFired,
  \* a boss in BossAI::State::DIE, and the ticks of its death clip
  dying, dieClock,
  \* who fired each tracked bullet, "none" for a free one
  bullet

healthVars  == <<hp, invulnerable, timer, dead>>
respawnVars == <<respawning, flicker>>
intentVars  == <<pending, amount, hit>>
playerVars  == <<shoot, cooldown, below>>
enemyVars   == <<alive, ehp, shielded>>
aiVars      == <<freeze, alert, burst, burstCool, burstFired>>
bossVars    == <<dying, dieClock>>
vars == <<phase, healthVars, respawnVars, intentVars, playerVars, enemyVars,
          aiVars, bossVars, bullet>>

Phases == {"input", "ai", "boss", "movement", "shooting", "collision",
           "damage", "health", "respawn", "bossAnim", "cull"}

Owners == {"player", "patroller", "boss"}

BulletDamage     == 1     \* BULLET_DAMAGE, 0.5
BossBulletDamage == 2     \* BOSS_BULLET_DAMAGE, 1
ContactDamage    == 2     \* ENEMY_CONTACT_DAMAGE, 1

DamageOf(owner) == IF owner = "boss" THEN BossBulletDamage ELSE BulletDamage

SpawnHp(e) == IF e \in Locksters THEN LocksterHp
              ELSE IF e \in Patrollers THEN PatrollerHp ELSE BossHp

CountersOK == /\ hp \in Int /\ timer \in Int /\ flicker \in Int
              /\ amount \in Int /\ cooldown \in Nat

FlagsOK == /\ invulnerable \in BOOLEAN /\ dead \in BOOLEAN
           /\ respawning \in BOOLEAN /\ pending \in BOOLEAN
           /\ shoot \in BOOLEAN /\ below \in BOOLEAN

EnemyTypeOK ==
  /\ alive \in [Enemies -> BOOLEAN] /\ ehp \in [Enemies -> Int]
  /\ shielded \in [Enemies -> BOOLEAN] /\ hit \in [Enemies -> BOOLEAN]
  /\ dying \in [Bosses -> BOOLEAN] /\ dieClock \in [Bosses -> Nat]

AITypeOK ==
  /\ freeze \in [AIEnemies -> Nat] /\ alert \in [Locksters -> 0..AlertTicks]
  /\ burst \in [Patrollers -> 0..BurstFrames]
  /\ burstCool \in [Patrollers -> 0..BurstCooldown]
  /\ burstFired \in [Patrollers -> BOOLEAN]

TypeOK == /\ phase \in Phases
          /\ CountersOK /\ FlagsOK /\ EnemyTypeOK /\ AITypeOK
          /\ bullet \in [Bullets -> Owners \cup {"none"}]

Init ==
  /\ phase = "input"
  /\ hp = MaxHp /\ invulnerable = FALSE /\ timer = 0 /\ dead = FALSE
  /\ respawning = FALSE /\ flicker = 0
  /\ pending = FALSE /\ amount = 0
  /\ shoot = FALSE /\ cooldown = 0 /\ below = FALSE
  /\ alive = [e \in Enemies |-> TRUE]
  /\ ehp = [e \in Enemies |-> SpawnHp(e)]
  /\ shielded = [e \in Enemies |-> FALSE]
  /\ hit = [e \in Enemies |-> FALSE]
  /\ freeze = [e \in AIEnemies |-> 0]
  /\ alert = [l \in Locksters |-> 0]
  /\ burst = [p \in Patrollers |-> 0]
  /\ burstCool = [p \in Patrollers |-> 0]
  /\ burstFired = [p \in Patrollers |-> FALSE]
  /\ dying = [b \in Bosses |-> FALSE]
  /\ dieClock = [b \in Bosses |-> 0]
  /\ bullet = [b \in Bullets |-> "none"]

-----------------------------------------------------------------------------
Then(from, to) == phase = from /\ phase' = to

(* if (n > 0) --n, as cooldowns and timers are counted down.  Definitions  *)
(* named Slip... are plausible mistakes in the definition that follows:    *)
(* nothing uses them, they show that the properties can fail.              *)
CountDown(n) == IF n > 0 THEN n - 1 ELSE 0

(* createProjectile.  A new bullet takes a free slot; one that is not      *)
(* tracked is a bullet that leaves the view without touching anything,     *)
(* which no property can tell from one that was never fired.               *)
Free == {b \in Bullets : bullet[b] = "none"}
Fire(owner, slots) ==
  bullet' = [b \in Bullets |-> IF b \in slots THEN owner ELSE bullet[b]]

(* inputSystem: a dead player's Intent is cleared, otherwise the keyboard  *)
(* decides.                                                                *)
SlipReadsKeys == TRUE
ReadsKeys == ~dead
InputSystem ==
  /\ Then("input", "ai")
  /\ shoot' \in IF ReadsKeys THEN BOOLEAN ELSE {FALSE}
  /\ UNCHANGED <<healthVars, respawnVars, intentVars, cooldown, below,
                 enemyVars, aiVars, bossVars, bullet>>

(* aiSystem skips a frozen enemy after one count down, and ticks the rest. *)
Ticks(e) == alive[e] /\ freeze[e] = 0

Charging(l) == alert[l] >= AlertTicks

NextAlert(l, inRange, reached) ==
  IF Charging(l)
    THEN IF reached THEN 0 ELSE alert[l]
    ELSE IF inRange THEN alert[l] + 1 ELSE 0

(* The cooldown runs during a burst too.                                   *)
SlipCoolDown(p) == IF burst[p] > 0 THEN burstCool[p] ELSE CountDown(burstCool[p])
CoolDown(p) == CountDown(burstCool[p])

(* tickPatroller starts a burst near the middle of its path, off cooldown. *)
StartsBurst(p, inRange, atCenter) ==
  burst[p] = 0 /\ inRange /\ atCenter /\ CoolDown(p) = 0

(* A burst fires on its first tick.                                        *)
Bursting == {p \in Patrollers : Ticks(p) /\ burst[p] > 0 /\ ~burstFired[p]}

AiSystem ==
  /\ Then("ai", "boss")
  /\ freeze' = [e \in AIEnemies |->
                  IF alive[e] THEN CountDown(freeze[e]) ELSE freeze[e]]
  /\ \E inRange, there \in [AIEnemies -> BOOLEAN] :
       /\ alert' = [l \in Locksters |->
                      IF Ticks(l) THEN NextAlert(l, inRange[l], there[l])
                                  ELSE alert[l]]
       /\ LET starts == {p \in Patrollers :
                           Ticks(p) /\ StartsBurst(p, inRange[p], there[p])}
          IN /\ burst' = [p \in Patrollers |->
                            IF p \in starts THEN BurstFrames
                            ELSE IF Ticks(p) THEN CountDown(burst[p])
                            ELSE burst[p]]
             /\ burstCool' = [p \in Patrollers |->
                                IF p \in starts THEN BurstCooldown
                                ELSE IF Ticks(p) THEN CoolDown(p)
                                ELSE burstCool[p]]
             /\ burstFired' = [p \in Patrollers |->
                                 IF p \in starts THEN FALSE
                                 ELSE burstFired[p] \/ p \in Bursting]
  /\ shielded' = [e \in Enemies |->
                    IF e \in Locksters /\ Ticks(e) THEN ~Charging(e) ELSE shielded[e]]
  /\ \E slots \in SUBSET Free :
       /\ slots # {} => Bursting # {}
       /\ Fire("patroller", slots)
  /\ UNCHANGED <<healthVars, respawnVars, intentVars, playerVars,
                 alive, ehp, bossVars>>

(* bossSystem: a boss that is not dying may shoot in this frame; when it   *)
(* does is the subject of Boss.                                            *)
BossSystem ==
  /\ Then("boss", "movement")
  /\ \E slots \in SUBSET Free :
       /\ Cardinality(slots) <= Cardinality({b \in Bosses : alive[b] /\ ~dying[b]})
       /\ Fire("boss", slots)
  /\ UNCHANGED <<healthVars, respawnVars, intentVars, playerVars, enemyVars,
                 aiVars, bossVars>>

(* movementSystem below the map: lethal DamageIntent for the player, every *)
(* frame until it is teleported; immediate destruction for anyone else.    *)
(* Patrollers are kinematic and never fall. Nothing below lifts the player.*)
SlipFalls == below' /\ ~below
Falls == below'

MovementSystem ==
  /\ Then("movement", "shooting")
  /\ below' \in {TRUE, below}
  /\ pending' = (pending \/ Falls)
  /\ amount' = IF Falls THEN hp ELSE amount
  /\ \E fallen \in SUBSET {e \in Locksters \cup Bosses : alive[e]} :
       alive' = [e \in Enemies |-> alive[e] /\ e \notin fallen]
  /\ UNCHANGED <<healthVars, respawnVars, hit, shoot, cooldown, ehp, shielded,
                 aiVars, bossVars, bullet>>

(* shootingSystem: the player's weapon.  No AI tick ever sets an enemy's   *)
(* Intent::shoot, so the enemy branch fires nothing.                       *)
ShootingSystem ==
  /\ Then("shooting", "collision")
  /\ LET ready == CountDown(cooldown)
     IN IF shoot /\ ready = 0
          THEN /\ cooldown' = ShootCooldown
               /\ \E slots \in SUBSET Free :
                    Cardinality(slots) <= 1 /\ Fire("player", slots)
          ELSE cooldown' = ready /\ UNCHANGED bullet
  /\ UNCHANGED <<healthVars, respawnVars, intentVars, shoot, below, enemyVars,
                 aiVars, bossVars>>

-----------------------------------------------------------------------------
(* b2World_Step reports the pairs that begin to touch, in some order.  The *)
(* filter bits of the create functions say which pairs can: a bullet and   *)
(* the map or the other side, and the player and an enemy.                 *)
LiveEnemies == {e \in Enemies : alive[e]}
Touchable(b) == IF bullet[b] = "player" THEN LiveEnemies \cup {World}
                                        ELSE {Player, World}
TouchPairs ==
  {c \in Bullets \X (LiveEnemies \cup {Player, World}) :
      bullet[c[1]] # "none" /\ c[2] \in Touchable(c[1])}
  \cup {Player} \X LiveEnemies
Contacts == UNION {[1..n -> TouchPairs] : n \in 0..MaxContacts}

(* A bullet bounces off an invulnerable enemy: it survives, nobody is hurt.*)
Bounces(c) == c[2] \in Enemies /\ shielded[c[2]]

HurtsPlayer(c) == c[1] = Player \/ c[2] = Player
HarmOf(c) == IF c[1] = Player THEN ContactDamage ELSE DamageOf(bullet[c[1]])

(* collisionSystem.  Destruction is deferred to the end of the event loop, *)
(* so every contact is judged on the state before it; the last contact     *)
(* that hurts the player overwrites its DamageIntent.                      *)
LastHarm(cs, i) == /\ HurtsPlayer(cs[i])
                   /\ \A j \in DOMAIN cs : HurtsPlayer(cs[j]) => j <= i

CollisionSystem ==
  /\ Then("collision", "damage")
  /\ \E cs \in Contacts :
       /\ IF \E i \in DOMAIN cs : HurtsPlayer(cs[i])
            THEN /\ pending' = TRUE
                 /\ \E i \in DOMAIN cs :
                      LastHarm(cs, i) /\ amount' = HarmOf(cs[i])
            ELSE UNCHANGED <<pending, amount>>
       /\ hit' = [e \in Enemies |->
                    hit[e] \/ \E i \in DOMAIN cs :
                                /\ cs[i][1] \in Bullets /\ cs[i][2] = e
                                /\ ~Bounces(cs[i])]
       /\ bullet' = [b \in Bullets |->
                       IF \E i \in DOMAIN cs : cs[i][1] = b /\ ~Bounces(cs[i])
                         THEN "none" ELSE bullet[b]]
  /\ UNCHANGED <<healthVars, respawnVars, playerVars, enemyVars, aiVars,
                 bossVars>>

-----------------------------------------------------------------------------
(* damageSystem: every pending DamageIntent is applied or dropped.  A hit  *)
(* on the player raises its shield and freezes the entities that have AI.  *)
SlipIframesRespawn == RespawnIframes
SlipIframesFlicker == FlickerTicks
IframesOfHit == HitIframes

Hurts == pending /\ ~invulnerable

SlipDropIntents == /\ pending' = (pending /\ invulnerable)
                   /\ amount' = IF pending /\ invulnerable THEN amount ELSE 0
                   /\ hit' = [e \in Enemies |-> FALSE]
DropIntents == /\ pending' = FALSE /\ amount' = 0
               /\ hit' = [e \in Enemies |-> FALSE]

DamageSystem ==
  /\ Then("damage", "health")
  /\ IF Hurts
       THEN /\ hp' = hp - amount
            /\ invulnerable' = TRUE
            /\ timer' = IframesOfHit
            /\ freeze' = [e \in AIEnemies |-> FreezeFrames]
       ELSE UNCHANGED <<hp, invulnerable, timer, freeze>>
  /\ ehp' = [e \in Enemies |-> IF alive[e] /\ hit[e] /\ ~shielded[e]
                                 THEN ehp[e] - BulletDamage ELSE ehp[e]]
  /\ DropIntents
  /\ UNCHANGED <<dead, respawnVars, playerVars, alive, shielded, alert, burst,
                 burstCool, burstFired, bossVars, bullet>>

(* healthSystem.  An enemy's invulnerableTimer is never set, so the test   *)
(* --invulnerableTimer <= 0 always clears an enemy's isInvulnerable.       *)
Expires == invulnerable /\ timer - 1 <= 0
Spent(e) == alive[e] /\ ehp[e] <= 0

HealthSystem ==
  /\ Then("health", "respawn")
  /\ timer' = IF invulnerable THEN timer - 1 ELSE timer
  /\ invulnerable' = (invulnerable /\ ~Expires)
  /\ dead' = (dead \/ hp <= 0)
  /\ shielded' = [e \in Enemies |-> shielded[e] /\ ~alive[e]]
  /\ alive' = [e \in Enemies |-> alive[e] /\ ~(e \in AIEnemies /\ Spent(e))]
  /\ dying' = [b \in Bosses |-> dying[b] \/ Spent(b)]
  /\ UNCHANGED <<hp, respawnVars, intentVars, playerVars, ehp, aiVars,
                 dieClock, bullet>>

-----------------------------------------------------------------------------
(* respawnSystem, the three branches.                                      *)
SlipAllBulletsGone == bullet
AllBulletsGone == [b \in Bullets |-> "none"]

SlipBegins == dead
Begins == ~respawning /\ dead

BeginRespawn ==
  /\ Begins
  /\ respawning' = TRUE
  /\ flicker' = FlickerTicks
  /\ shoot' = FALSE
  /\ bullet' = AllBulletsGone
  /\ UNCHANGED <<healthVars, cooldown, below, enemyVars, aiVars>>

KeepFlickering ==
  /\ respawning /\ flicker - 1 > 0
  /\ flicker' = flicker - 1
  /\ shoot' = FALSE
  /\ UNCHANGED <<healthVars, respawning, cooldown, below, enemyVars, aiVars,
                 bullet>>

(* The player is teleported and restored, every AI enemy reset, a boss     *)
(* healed, a missing Lockster created again.                               *)
SlipComesBack(e) == e \in Locksters \cup Bosses
ComesBack(e) == e \in Locksters

Revive ==
  /\ respawning /\ flicker - 1 <= 0
  /\ hp' = MaxHp /\ dead' = FALSE
  /\ invulnerable' = TRUE /\ timer' = RespawnIframes
  /\ respawning' = FALSE /\ flicker' = flicker - 1
  /\ below' = FALSE
  /\ freeze' = [e \in AIEnemies |-> 0]
  /\ alert' = [l \in Locksters |-> 0]
  /\ burst' = [p \in Patrollers |-> 0]
  /\ burstCool' = [p \in Patrollers |-> 0]
  /\ burstFired' = [p \in Patrollers |-> FALSE]
  /\ alive' = [e \in Enemies |-> alive[e] \/ ComesBack(e)]
  /\ ehp' = [e \in Enemies |->
               IF (ComesBack(e) /\ ~alive[e]) \/ (e \in Bosses /\ alive[e])
                 THEN SpawnHp(e) ELSE ehp[e]]
  /\ shielded' = [e \in Enemies |-> shielded[e] /\ alive[e]]
  /\ UNCHANGED <<shoot, cooldown, bullet>>

NoRespawn ==
  /\ ~respawning /\ ~dead
  /\ UNCHANGED <<healthVars, respawnVars, playerVars, enemyVars, aiVars, bullet>>

RespawnSystem ==
  /\ Then("respawn", "bossAnim")
  /\ BeginRespawn \/ KeepFlickering \/ Revive \/ NoRespawn
  /\ UNCHANGED <<intentVars, bossVars>>

(* bossAnimSystem: a dying boss is destroyed when its death clip finishes. *)
ClipTick(b) == dieClock[b] + 1

SlipBuried == {b \in Bosses : alive[b] /\ dying[b] /\ dieClock[b] >= DieTicks}
Buried == {b \in Bosses : alive[b] /\ dying[b] /\ ClipTick(b) >= DieTicks}

BossAnimSystem ==
  /\ Then("bossAnim", "cull")
  /\ dieClock' = [b \in Bosses |-> IF alive[b] /\ dying[b] THEN ClipTick(b)
                                                          ELSE dieClock[b]]
  /\ alive' = [e \in Enemies |-> alive[e] /\ e \notin Buried]
  /\ UNCHANGED <<healthVars, respawnVars, intentVars, playerVars, ehp, shielded,
                 aiVars, dying, bullet>>

(* projectileCullSystem: bullets that left the camera's view.              *)
ProjectileCullSystem ==
  /\ Then("cull", "input")
  /\ \E gone \in SUBSET {b \in Bullets : bullet[b] # "none"} :
       bullet' = [b \in Bullets |-> IF b \in gone THEN "none" ELSE bullet[b]]
  /\ UNCHANGED <<healthVars, respawnVars, intentVars, playerVars, enemyVars,
                 aiVars, bossVars>>

-----------------------------------------------------------------------------
Next == \/ InputSystem \/ AiSystem \/ BossSystem \/ MovementSystem
        \/ ShootingSystem \/ CollisionSystem \/ DamageSystem \/ HealthSystem
        \/ RespawnSystem \/ BossAnimSystem \/ ProjectileCullSystem

(* while (!quit) calls every system in turn and none of them waits: as     *)
(* long as the window stays open the loop goes on.                         *)
Spec == Init /\ [][Next]_vars /\ WF_vars(Next)
-----------------------------------------------------------------------------
(* A player that is respawning is dead and invulnerable to the end of the  *)
(* flicker: the i-frames of the hit that killed it (90) outlast the 60     *)
(* flickering frames, on which respawnSystem silently relies.              *)
RespawnShield == respawning => dead /\ invulnerable /\ timer > 0

(* Why it holds: the clock of the i-frames and the clock of the flicker    *)
(* are a fixed distance apart from the hit that kills to the revival,      *)
(* healthSystem taking its frame before respawnSystem takes its own.       *)
ShieldInv ==
  /\ respawning => dead
  /\ dead => hp <= 0
  /\ phase # "health" => (hp <= 0 => dead)
  /\ phase # "respawn" => (dead => respawning)
  /\ hp <= 0 => invulnerable
  /\ invulnerable => timer > 0
  /\ respawning =>
       /\ 1 <= flicker /\ flicker <= FlickerTicks
       /\ timer = flicker + (HitIframes - 1 - FlickerTicks)
                    - (IF phase = "respawn" THEN 1 ELSE 0)
  /\ hp <= 0 /\ ~respawning =>
       timer = IF phase = "health" THEN HitIframes ELSE HitIframes - 1
  /\ pending => /\ phase \in {"shooting", "collision", "damage"}
                /\ hp > 0 => amount > 0

(* respawnSystem destroys every bullet when the respawn begins, and        *)
(* inputSystem and respawnSystem keep a dead player's Intent empty: no     *)
(* bullet of the player flies while it is down.                            *)
NoPlayerBulletWhileDown ==
  respawning => \A b \in Bullets : bullet[b] # "player"

(* ... because a dead player cannot ask for a shot either.                 *)
DownInv ==
  respawning => /\ phase # "input" => ~shoot
                /\ NoPlayerBulletWhileDown

(* Enemies stay frozen only inside the player's i-frames: a second hit     *)
(* can never prolong a freeze.                                             *)
FreezeInsideShield ==
  \A e \in AIEnemies : alive[e] /\ freeze[e] > 0 => invulnerable

(* ... because every live enemy's freeze counter, counted down by aiSystem,*)
(* stays behind the i-frames that healthSystem counts down later in the    *)
(* same frame.                                                             *)
FreezeInv ==
  \A e \in AIEnemies : alive[e] /\ freeze[e] > 0 =>
    /\ invulnerable
    /\ freeze[e] <= timer - (HitIframes - FreezeFrames)
         + (IF phase \in {"respawn", "bossAnim", "cull", "input", "ai"}
              THEN 1 ELSE 0)

(* respawnSystem restores a boss's health without looking at BossAI::state.*)
(* A boss playing its death clip is nevertheless never healed: the clip    *)
(* (40 ticks) is over before the flicker (60) is.                          *)
NoZombieBoss == \A b \in Bosses : alive[b] /\ dying[b] => ehp[b] <= 0

(* ... because a boss that is dying when the respawn begins has had a tick *)
(* of its clip for every frame of the flicker, and none starts to die      *)
(* while the player is down.                                               *)
ZombieInv ==
  \A b \in Bosses : alive[b] =>
    /\ dieClock[b] < DieTicks
    /\ dying[b] => ehp[b] <= 0
    /\ phase # "health" \/ respawning => (ehp[b] <= 0 => dying[b])
    /\ dying[b] /\ respawning =>
         dieClock[b] + flicker >= FlickerTicks + (IF phase = "bossAnim" THEN 0 ELSE 1)

(* A burst and its cooldown keep step through freezes and respawns, and    *)
(* the bullets leave on the first tick of the burst, once: a patroller     *)
(* cannot burst again before BurstCooldown of its ticks have passed.       *)
BurstClockwork ==
  \A p \in Patrollers : burst[p] > 0 =>
    /\ burstCool[p] = burst[p] + (BurstCooldown - BurstFrames)
    /\ ~burstFired[p] <=> burst[p] = BurstFrames

(* One system's DamageIntent never survives into the next frame: a hit     *)
(* that met i-frames is forgotten, it does not fire when they end.         *)
NoStaleDamage ==
  phase \in {"health", "respawn", "bossAnim", "cull", "input", "ai", "boss",
             "movement"}
    => ~pending /\ \A e \in Enemies : ~hit[e]

(* Nothing takes health from an enemy while the player is respawning, so   *)
(* the enemies the player meets again are the ones it left.                *)
EnemiesUnhurtWhileDown ==
  [][respawning => \A e \in Enemies : ehp'[e] >= ehp[e]]_vars

(* ... because no DamageIntent reaches an enemy then, and a boss or a      *)
(* Lockster that is given its health back has no more than that.           *)
HitInv ==
  /\ NoStaleDamage
  /\ respawning => \A e \in Enemies : ~hit[e]
  /\ \A e \in Enemies : ehp[e] <= SpawnHp(e)

(* The player's life as damageSystem, healthSystem and respawnSystem       *)
(* promise it: the abstract specification PlayerLife.                      *)
Life == INSTANCE PlayerLife WITH
          shield <- IF invulnerable THEN timer ELSE 0
LifeSpec == Life!Spec

(* The end of every boss is the one BossLife describes and Boss delivers,  *)
(* with the clock this module keeps in place of the animation: no respawn, *)
(* hit or freeze holds up a death clip or lets a boss come back.           *)
End(b) == INSTANCE BossLife WITH
            where <- IF alive[b] THEN "there"
                     ELSE IF dying[b] /\ dieClock[b] >= DieTicks
                            THEN "buried" ELSE "fallen",
            dying <- alive[b] /\ dying[b],
            clock <- IF alive[b] /\ dying[b] THEN dieClock[b] ELSE 0
BossesEnd == /\ \A b \in Bosses : End(b)!Init
             /\ [][\A b \in Bosses : [End(b)!Next]_(End(b)!vars)]_vars

(* Both at once: the frame implements the lives of all it may kill for     *)
(* good or bring back.                                                     *)
LivesSpec == LifeSpec /\ BossesEnd

(* A player that fell off the map dies, even when i-frames drop the lethal *)
(* DamageIntent or a contact in the same step overwrites it.               *)
FallIsFatal == below ~> dead

(* Why it does: in every frame the fallen player is either shielded or     *)
(* loses health, also when its lethal DamageIntent was overwritten by the  *)
(* small harm of a contact in the same step.                               *)
FallHurts ==
  [][DamageSystem /\ below /\ hp > 0 => hp' < hp \/ invulnerable]_vars

(* A dead player is put back into the game.                                *)
DeadIsRevived == dead ~> ~dead

(* "The Lockster is vulnerable only while charging" (tickLockster): a      *)
(* frozen Lockster that is not charging is not hurt.                       *)
IdleLocksterUnhurt ==
  [][\A l \in Locksters : freeze[l] > 0 /\ ehp'[l] < ehp[l]
                            => Charging(l)]_vars
=============================================================================
