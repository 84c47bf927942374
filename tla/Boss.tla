-------------------------------- MODULE Boss --------------------------------
(***************************************************************************)
(* The boss: BossAI's state machine (tickBoss), its health, its animation  *)
(* and its end, through the systems of a frame that touch it.  The player  *)
(* is abstracted to the side of the boss it stands on, to whether it hurt  *)
(* the boss in this frame, and to its revival, which heals the boss.       *)
(* Health is counted in half points.                                       *)
(***************************************************************************)
EXTENDS Integers, Anim

CONSTANTS BossHp, IdleTicks, ChargeTicks, DashTicks, Shots, ShootCooldown,
          ClipStep        \* BOSS_ANIM_SPEED

ASSUME BossAssumption ==
  /\ {BossHp, IdleTicks, ChargeTicks, DashTicks, Shots, ShootCooldown, ClipStep}
       \subseteq Nat \ {0}

VARIABLES
  phase,        \* the system that runs next
  alive, hp,
  state, stateTimer, dashRight, nextIsDash, shotsFired, shotTimer,  \* BossAI
  side,         \* where bossSystem saw the player
  moves,        \* Intent: "left", "right" or "none"
  facingLeft,   \* Movement::facingLeft
  anim,         \* BossAnimation and RenderFrame, as in Anim
  lastAttack    \* history: the attack that began last

aiVars == <<state, stateTimer, dashRight, nextIsDash, shotsFired, shotTimer>>
seenVars == <<side, moves, facingLeft>>
vars == <<phase, alive, hp, aiVars, seenVars, anim, lastAttack>>

States == {"IDLE", "CHARGE_DASH", "DASH", "SHOOT", "DIE"}
Sides == {"left", "right", "same"}

(* createBoss's clip table; CHARGE_DASH and IDLE are single frames.        *)
Clip == [s \in States \cup {"BRAKE"} |->
           [count |-> CASE s = "DASH" -> 3 [] s = "SHOOT" -> 2
                        [] s = "DIE" -> 4 [] OTHER -> 1,
            step |-> ClipStep,
            loop |-> s \in {"IDLE", "CHARGE_DASH"}]]

TypeOK ==
  /\ phase \in {"boss", "movement", "damage", "health", "respawn", "anim"}
  /\ alive \in BOOLEAN /\ hp \in Int
  /\ state \in States
  /\ stateTimer \in 0..(IdleTicks + ChargeTicks + DashTicks)
  /\ dashRight \in BOOLEAN /\ nextIsDash \in BOOLEAN
  /\ shotsFired \in 0..Shots /\ shotTimer \in 0..ShootCooldown
  /\ side \in Sides /\ moves \in {"left", "right", "none"}
  /\ facingLeft \in BOOLEAN
  /\ anim \in [prev : States \cup {"BRAKE"}, frame : 0..3,
               timer : 0..(ClipStep - 1), finished : BOOLEAN]
  /\ lastAttack \in {"none", "dash", "volley"}

Init ==
  /\ phase = "boss" /\ alive = TRUE /\ hp = BossHp
  /\ state = "IDLE" /\ stateTimer = IdleTicks
  /\ dashRight = FALSE /\ nextIsDash = TRUE
  /\ shotsFired = 0 /\ shotTimer = 0
  /\ side = "same" /\ moves = "none" /\ facingLeft = FALSE
  /\ anim = Fresh("IDLE") /\ lastAttack = "none"

Then(from, to) == phase = from /\ phase' = to

-----------------------------------------------------------------------------
(* tickBoss, one operator per state of the machine.  Definitions named     *)
(* Slip... are plausible mistakes in the one that follows; nothing uses    *)
(* them.                                                                   *)
SlipGoIdle == state' = "IDLE" /\ UNCHANGED stateTimer
GoIdle == state' = "IDLE" /\ stateTimer' = IdleTicks

SlipNextAttack == nextIsDash
NextAttack == ~nextIsDash

TickIdle ==
  /\ state = "IDLE"
  /\ IF stateTimer - 1 > 0
       THEN /\ stateTimer' = stateTimer - 1
            /\ UNCHANGED <<state, nextIsDash, shotsFired, shotTimer>>
       ELSE /\ shotsFired' = 0 /\ shotTimer' = ShootCooldown
            /\ state' = IF nextIsDash THEN "CHARGE_DASH" ELSE "SHOOT"
            /\ stateTimer' = IF nextIsDash THEN ChargeTicks ELSE 0
            /\ nextIsDash' = NextAttack
  /\ moves' = "none"
  /\ UNCHANGED dashRight

Locks == stateTimer = ChargeTicks

TickCharge ==
  /\ state = "CHARGE_DASH"
  /\ dashRight' = IF Locks THEN side' = "right" ELSE dashRight
  /\ IF stateTimer - 1 > 0
       THEN stateTimer' = stateTimer - 1 /\ UNCHANGED state
       ELSE state' = "DASH" /\ stateTimer' = DashTicks
  /\ moves' = "none"
  /\ UNCHANGED <<nextIsDash, shotsFired, shotTimer>>

TickDash ==
  /\ state = "DASH"
  /\ moves' = IF dashRight THEN "right" ELSE "left"
  /\ IF stateTimer - 1 > 0
       THEN stateTimer' = stateTimer - 1 /\ UNCHANGED state
       ELSE GoIdle
  /\ UNCHANGED <<dashRight, nextIsDash, shotsFired, shotTimer>>

(* A shot leaves when the timer has run, aimed at the player's side.       *)
SlipVolleyOver(n) == n > Shots
VolleyOver(n) == n >= Shots

TickShoot ==
  /\ state = "SHOOT"
  /\ IF shotTimer - 1 > 0
       THEN /\ shotTimer' = shotTimer - 1
            /\ UNCHANGED <<state, stateTimer, shotsFired>>
       ELSE /\ shotsFired' = shotsFired + 1
            /\ shotTimer' = ShootCooldown
            /\ IF VolleyOver(shotsFired') THEN GoIdle
                                          ELSE UNCHANGED <<state, stateTimer>>
  /\ moves' = "none"
  /\ UNCHANGED <<dashRight, nextIsDash>>

TickDie == state = "DIE" /\ moves' = "none" /\ UNCHANGED aiVars

Begins(attack) == state' = attack /\ state # attack

BossSystem ==
  /\ Then("boss", "movement")
  /\ IF alive
       THEN /\ side' \in Sides
            /\ facingLeft' = (side' = "left")
            /\ TickIdle \/ TickCharge \/ TickDash \/ TickShoot \/ TickDie
       ELSE UNCHANGED <<aiVars, seenVars>>
  /\ lastAttack' = IF Begins("CHARGE_DASH") THEN "dash"
                   ELSE IF Begins("SHOOT") THEN "volley" ELSE lastAttack
  /\ UNCHANGED <<alive, hp, anim>>

(* movementSystem: the Intent turns the boss too, and a boss that fell off *)
(* the map is destroyed on the spot.                                       *)
MovementSystem ==
  /\ Then("movement", "damage")
  /\ facingLeft' = IF alive /\ moves # "none" THEN moves = "left" ELSE facingLeft
  /\ alive' \in {alive, FALSE}
  /\ UNCHANGED <<hp, aiVars, side, moves, anim, lastAttack>>

(* damageSystem: at most one DamageIntent, a player bullet's half point.   *)
DamageSystem ==
  /\ Then("damage", "health")
  /\ hp' \in IF alive THEN {hp, hp - 1} ELSE {hp}
  /\ hp' > -2            \* bound: a dying boss can be hit any number of times
  /\ UNCHANGED <<alive, aiVars, seenVars, anim, lastAttack>>

(* healthSystem: a spent boss starts to die, whatever it was doing.        *)
HealthSystem ==
  /\ Then("health", "respawn")
  /\ state' = IF alive /\ hp <= 0 THEN "DIE" ELSE state
  /\ UNCHANGED <<alive, hp, stateTimer, dashRight, nextIsDash, shotsFired,
                 shotTimer, seenVars, anim, lastAttack>>

(* respawnSystem: when the player is put back the boss is healed; its      *)
(* BossAI is left as it is.                                                *)
SlipRespawnedAI ==
  /\ Then("respawn", "anim")
  /\ hp' \in IF alive THEN {hp, BossHp} ELSE {hp}
  /\ nextIsDash' = (hp' > hp \/ nextIsDash)
  /\ UNCHANGED <<alive, state, stateTimer, dashRight, shotsFired, shotTimer,
                 seenVars, anim, lastAttack>>
SlipRespawnSystem ==
  /\ Then("respawn", "anim")
  /\ hp' \in IF alive THEN {hp, BossHp} ELSE {hp}
  /\ state' = IF hp' > hp THEN "IDLE" ELSE state
  /\ UNCHANGED <<alive, stateTimer, dashRight, nextIsDash, shotsFired,
                 shotTimer, seenVars, anim, lastAttack>>
RespawnSystem ==
  /\ Then("respawn", "anim")
  /\ hp' \in IF alive THEN {hp, BossHp} ELSE {hp}
  /\ UNCHANGED <<alive, aiVars, seenVars, anim, lastAttack>>

(* bossAnimSystem: the last 30% of a dash show the BRAKE clip; the boss is *)
(* destroyed, with an explosion, when the DIE clip reports its end.        *)
AnimState ==
  IF state = "DASH" /\ 10 * stateTimer < 3 * DashTicks THEN "BRAKE" ELSE state

IsOver(a) == state = "DIE" /\ a.finished

BossAnimSystem ==
  /\ Then("anim", "boss")
  /\ IF alive
       THEN /\ anim' = TickAnim(anim, AnimState, Clip[AnimState])
            /\ alive' = ~IsOver(anim')
       ELSE UNCHANGED <<anim, alive>>
  /\ UNCHANGED <<hp, aiVars, seenVars, lastAttack>>

Next == BossSystem \/ MovementSystem \/ DamageSystem \/ HealthSystem
        \/ RespawnSystem \/ BossAnimSystem

(* Every system runs once in every frame, as long as the window is open.   *)
Spec == Init /\ [][Next]_vars /\ WF_vars(Next)

-----------------------------------------------------------------------------
(* Dash and volley alternate, starting with a dash: an attack that begins  *)
(* is never of the kind of the one before it, however many hits, healings  *)
(* and respawns came in between.                                           *)
TakesTurn == /\ Begins("CHARGE_DASH") => lastAttack \in {"none", "volley"}
             /\ Begins("SHOOT") => lastAttack = "dash"
AttacksAlternate == [][TakesTurn]_vars

(* A volley is exactly Shots bullets: SHOOT is left for IDLE only when that*)
(* many have been fired, and never holds more.                             *)
VolleyIsComplete ==
  [][(state = "SHOOT" /\ state' = "IDLE" => shotsFired' = Shots)
     /\ (state = "SHOOT" => shotsFired < Shots)]_vars

(* The death clip runs once from its first frame, whatever clip it cut     *)
(* short, and the boss is gone exactly when it ends: not before, not by a  *)
(* finish flag of another clip.                                            *)
DieClipTicks == Clip["DIE"].count * ClipStep
DieClock == IF anim.prev = "DIE" THEN anim.frame * ClipStep + anim.timer ELSE 0
DeathClipTick ==
  BossAnimSystem /\ alive =>
    IF state = "DIE"
      THEN \/ DieClock + 1 < DieClipTicks /\ DieClock' = DieClock + 1 /\ alive'
           \/ DieClock + 1 = DieClipTicks /\ ~alive'
      ELSE alive'
DeathClipRunsOnce == [][DeathClipTick]_vars

(* ... and nothing else touches that clock: the end of a boss is the one   *)
(* that Combat assumes, BossLife with the length of this clip.             *)
Life == INSTANCE BossLife WITH
          DieTicks <- DieClipTicks,
          where <- IF alive THEN "there"
                   ELSE IF IsOver(anim) THEN "buried" ELSE "fallen",
          dying <- alive /\ state = "DIE",
          clock <- IF alive /\ state = "DIE" THEN DieClock ELSE 0
LifeSpec == Life!Spec

(* The boss's attacks come by the clock: in every frame the time to its    *)
(* next bullet or dash gets shorter by one, or the attack comes, and no    *)
(* hit, no healing and no end of an attack ever puts it off.               *)
TimeToAttack ==
  CASE state = "IDLE" -> stateTimer + (IF nextIsDash THEN ChargeTicks ELSE ShootCooldown)
    [] state = "CHARGE_DASH" -> stateTimer
    [] state = "SHOOT" -> shotTimer
    [] OTHER -> 0
Attacks == \/ state = "CHARGE_DASH" /\ state' = "DASH"
           \/ shotsFired' > shotsFired
AttackTick ==
  /\ BossSystem /\ alive /\ state \in {"IDLE", "CHARGE_DASH", "SHOOT"} =>
       /\ Attacks <=> TimeToAttack = 1
       /\ ~Attacks => TimeToAttack' = TimeToAttack - 1
  /\ ~BossSystem /\ state' # "DIE" => TimeToAttack' = TimeToAttack
  /\ TimeToAttack' <= IdleTicks + ChargeTicks + ShootCooldown
AttacksOnTime == [][AttackTick]_vars

(* A boss that lives keeps attacking: it fires or dashes again and again.  *)
KeepsAttacking ==
  /\ []<>(state = "SHOOT" \/ state = "DIE" \/ ~alive)
  /\ []<>(state = "DASH" \/ state = "DIE" \/ ~alive)

(* Once dying it goes away, even if a revival of the player heals it.      *)
DyingEnds == (state = "DIE") ~> ~alive
=============================================================================
