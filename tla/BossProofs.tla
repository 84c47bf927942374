----------------------------- MODULE BossProofs -----------------------------
(***************************************************************************)
(* Theorems about the boss, for any health, attack times, number of shots  *)
(* and speed of its clips.                                                 *)
(***************************************************************************)
EXTENDS Boss, TLAPS

LEMMA ConstantsAreNat ==
  /\ BossHp \in Nat \ {0} /\ IdleTicks \in Nat \ {0} /\ ChargeTicks \in Nat \ {0}
  /\ DashTicks \in Nat \ {0} /\ Shots \in Nat \ {0} /\ ShootCooldown \in Nat \ {0}
  /\ ClipStep \in Nat \ {0}
BY BossAssumption

-----------------------------------------------------------------------------
(* BossAI: its counters, its attacks in turn, its volleys.                 *)
AiOK ==
  /\ state \in States
  /\ stateTimer \in 0..(IdleTicks + ChargeTicks + DashTicks)
  /\ shotsFired \in 0..Shots /\ shotTimer \in 0..ShootCooldown
  /\ state = "SHOOT" => shotsFired < Shots

FlagsOK == dashRight \in BOOLEAN /\ nextIsDash \in BOOLEAN

LEMMA FlagsStep == ASSUME FlagsOK, [Next]_vars PROVE FlagsOK'
<1> USE DEF FlagsOK
<1>1. CASE BossSystem /\ TickIdle
  BY <1>1, Zenon DEF TickIdle, NextAttack
<1>2. CASE BossSystem /\ TickCharge
  BY <1>2, Zenon DEF TickCharge
<1>3. CASE BossSystem /\ TickDash
  BY <1>3, Zenon DEF TickDash, GoIdle
<1>4. CASE BossSystem /\ TickShoot
  BY <1>4, Zenon DEF TickShoot, GoIdle
<1>5. CASE UNCHANGED aiVars
  BY <1>5 DEF aiVars
<1>6. CASE HealthSystem
  BY <1>6, Zenon DEF HealthSystem
<1> QED
  BY <1>1, <1>2, <1>3, <1>4, <1>5, <1>6, Zenon
  DEF Next, BossSystem, TickDie, MovementSystem, DamageSystem, RespawnSystem,
      BossAnimSystem, vars

(* The flag that chooses the next attack always tells the last one: only   *)
(* the end of IDLE changes either, and it changes both.                    *)
TurnInv == /\ lastAttack \in {"none", "dash", "volley"}
           /\ nextIsDash <=> lastAttack # "dash"

LEMMA TurnStep == ASSUME TurnInv, [Next]_vars PROVE TurnInv' /\ TakesTurn
<1> USE DEF TurnInv, TakesTurn, Begins
<1>1. CASE BossSystem
  <2>1. lastAttack' = IF Begins("CHARGE_DASH") THEN "dash"
                      ELSE IF Begins("SHOOT") THEN "volley" ELSE lastAttack
    BY <1>1 DEF BossSystem
  <2>2. CASE TickIdle
    <3>1. \/ state' = state /\ nextIsDash' = nextIsDash
          \/ /\ state' = IF nextIsDash THEN "CHARGE_DASH" ELSE "SHOOT"
             /\ nextIsDash' = ~nextIsDash /\ state = "IDLE"
      BY <2>2 DEF TickIdle, NextAttack
    <3>2. CASE state' = state /\ nextIsDash' = nextIsDash
      BY <2>1, <3>2
    <3>3. CASE /\ state' = IF nextIsDash THEN "CHARGE_DASH" ELSE "SHOOT"
               /\ nextIsDash' = ~nextIsDash /\ state = "IDLE"
      BY <2>1, <3>3
    <3> QED
      BY <3>1, <3>2, <3>3
  <2>3. CASE TickCharge \/ TickDash \/ TickShoot
    <3>1. nextIsDash' = nextIsDash /\ state' \in {state, "DASH", "IDLE"}
      BY <2>3 DEF TickCharge, TickDash, TickShoot, GoIdle
    <3> QED
      BY <2>1, <3>1
  <2>4. CASE UNCHANGED aiVars
    BY <2>1, <2>4 DEF aiVars
  <2> QED
    BY <1>1, <2>2, <2>3, <2>4 DEF BossSystem, TickDie
<1>2. CASE HealthSystem
  BY <1>2 DEF HealthSystem
<1>3. CASE UNCHANGED <<aiVars, lastAttack>>
  BY <1>3 DEF aiVars
<1> QED
  BY <1>1, <1>2, <1>3
  DEF Next, MovementSystem, DamageSystem, RespawnSystem, BossAnimSystem, vars

(* A volley ends with its last bullet.                                     *)
VolleyStep == /\ state = "SHOOT" /\ state' = "IDLE" => shotsFired' = Shots
              /\ state = "SHOOT" => shotsFired < Shots

LEMMA AiStep == ASSUME AiOK, [Next]_vars PROVE AiOK' /\ VolleyStep
<1> USE ConstantsAreNat DEF AiOK, VolleyStep, States
<1>1. CASE TickIdle
  <2>1. CASE stateTimer - 1 > 0
    BY <1>1, <2>1 DEF TickIdle
  <2>2. CASE ~(stateTimer - 1 > 0)
    BY <1>1, <2>2 DEF TickIdle
  <2> QED
    BY <2>1, <2>2
<1>2. CASE TickCharge
  BY <1>2 DEF TickCharge
<1>3. CASE TickDash
  BY <1>3 DEF TickDash, GoIdle
<1>4. CASE TickShoot
  <2>1. CASE shotTimer - 1 > 0
    BY <1>4, <2>1 DEF TickShoot
  <2>2. CASE ~(shotTimer - 1 > 0)
    <3>1. /\ shotsFired' = shotsFired + 1 /\ shotTimer' = ShootCooldown
          /\ IF shotsFired + 1 >= Shots THEN GoIdle
                                        ELSE UNCHANGED <<state, stateTimer>>
      BY <1>4, <2>2 DEF TickShoot, VolleyOver
    <3>2. state = "SHOOT"
      BY <1>4 DEF TickShoot
    <3>3. CASE shotsFired + 1 >= Shots
      BY <3>1, <3>2, <3>3 DEF GoIdle
    <3>4. CASE ~(shotsFired + 1 >= Shots)
      BY <3>1, <3>2, <3>4
    <3> QED
      BY <3>3, <3>4
  <2> QED
    BY <2>1, <2>2
<1>5. CASE UNCHANGED aiVars
  BY <1>5 DEF aiVars
<1>6. CASE HealthSystem
  BY <1>6 DEF HealthSystem
<1> QED
  BY <1>1, <1>2, <1>3, <1>4, <1>5, <1>6, Zenon
  DEF Next, BossSystem, TickDie, MovementSystem, DamageSystem, RespawnSystem,
      BossAnimSystem, vars

-----------------------------------------------------------------------------
(* The animation.                                                          *)
AnimType == [prev : States \cup {"BRAKE"}, frame : 0..3,
             timer : 0..(ClipStep - 1), finished : BOOLEAN]

LEMMA TickAnimType ==
  ASSUME NEW a \in AnimType, NEW s \in States \cup {"BRAKE"}
  PROVE  TickAnim(a, s, Clip[s]) \in AnimType
<1> DEFINE clip == Clip[s]
           b == Entered(a, s)
<1>1. clip.count \in 1..4 /\ clip.step = ClipStep
  BY DEF Clip
<1>2. 0 \in 0..(ClipStep - 1) /\ ClipStep \in Nat
  BY ConstantsAreNat
<1>3. Fresh(s) \in AnimType
  BY <1>2 DEF Fresh, AnimType
<1>4. [a EXCEPT !.finished = FALSE] \in AnimType
  BY DEF AnimType
<1>5. b \in AnimType
  BY <1>3, <1>4 DEF Entered
<1>6. TickAnim(a, s, clip) =
         IF clip.count <= 1 THEN b
         ELSE IF b.timer + 1 >= clip.step THEN Advance(b, clip)
         ELSE [b EXCEPT !.timer = b.timer + 1]
  BY DEF TickAnim
<1> HIDE DEF clip, b
<1>7. ASSUME NEW t \in 0..(ClipStep - 1), NEW f \in 0..3
      PROVE  /\ [b EXCEPT !.timer = t, !.frame = f] \in AnimType
             /\ [b EXCEPT !.timer = t, !.frame = f, !.finished = TRUE] \in AnimType
  BY <1>5 DEF AnimType
<1>8. ASSUME NEW t \in 0..(ClipStep - 1) PROVE [b EXCEPT !.timer = t] \in AnimType
  BY <1>5 DEF AnimType
<1>9. b.frame \in 0..3 /\ b.timer \in 0..(ClipStep - 1)
  BY <1>5 DEF AnimType
<1>10. Advance(b, clip) \in AnimType
  <2>1. CASE b.frame + 1 < clip.count
    <3>1. b.frame + 1 \in 0..3
      BY <1>1, <1>9, <2>1
    <3> QED
      BY <1>2, <1>7, <2>1, <3>1 DEF Advance
  <2>2. CASE ~(b.frame + 1 < clip.count)
    <3>1. clip.count - 1 \in 0..3 /\ 0 \in 0..3
      BY <1>1
    <3> QED
      BY <1>2, <1>7, <2>2, <3>1 DEF Advance
  <2> QED
    BY <2>1, <2>2
<1>11. ~(b.timer + 1 >= ClipStep) => b.timer + 1 \in 0..(ClipStep - 1)
  BY <1>2, <1>9
<1> QED
  <2>1. ~(b.timer + 1 >= ClipStep) => [b EXCEPT !.timer = b.timer + 1] \in AnimType
    <3> DEFINE n == b.timer + 1
    <3>1. ~(n >= ClipStep) => n \in 0..(ClipStep - 1)
      BY <1>11
    <3> HIDE DEF n
    <3>2. ~(n >= ClipStep) => [b EXCEPT !.timer = n] \in AnimType
      BY <1>8, <3>1
    <3> QED
      BY <3>2 DEF n
  <2>2. TickAnim(a, s, clip) \in AnimType
    BY <1>1, <1>5, <1>10, <1>6, <2>1
  <2> QED
    BY <2>2 DEF clip

(* The rest of the types, and what the death clip needs: it belongs to a   *)
(* dying boss, and has not reported its end while the boss is there.       *)
BodyOK ==
  /\ phase \in {"boss", "movement", "damage", "health", "respawn", "anim"}
  /\ alive \in BOOLEAN /\ hp \in Int
  /\ side \in Sides /\ moves \in {"left", "right", "none"} /\ facingLeft \in BOOLEAN

DeathInv == anim \in AnimType /\ (anim.prev = "DIE" => state = "DIE")

LEMMA BodyStep == ASSUME BodyOK, [Next]_vars PROVE BodyOK'
<1> USE ConstantsAreNat DEF BodyOK, Then
<1>1. CASE BossSystem
  <2>1. moves' \in {"left", "right", "none"}
    BY <1>1 DEF BossSystem, TickIdle, TickCharge, TickDash, TickShoot, TickDie, seenVars
  <2> QED
    BY <1>1, <2>1 DEF BossSystem, seenVars
<1>2. CASE MovementSystem
  BY <1>2 DEF MovementSystem
<1>3. CASE DamageSystem
  BY <1>3 DEF DamageSystem, seenVars
<1>4. CASE HealthSystem \/ RespawnSystem
  BY <1>4 DEF HealthSystem, RespawnSystem, seenVars
<1>5. CASE BossAnimSystem
  BY <1>5 DEF BossAnimSystem, seenVars
<1>6. CASE UNCHANGED vars
  BY <1>6 DEF vars, seenVars
<1> QED
  BY <1>1, <1>2, <1>3, <1>4, <1>5, <1>6 DEF Next

LEMMA DieStays == ASSUME [Next]_vars, state = "DIE" PROVE state' = "DIE"
BY DEF Next, BossSystem, TickIdle, TickCharge, TickDash, TickShoot, TickDie,
       MovementSystem, DamageSystem, HealthSystem, RespawnSystem,
       BossAnimSystem, aiVars, vars

LEMMA AnimStateType ==
  ASSUME state \in States
  PROVE  /\ AnimState \in States \cup {"BRAKE"}
         /\ AnimState = "DIE" <=> state = "DIE"
BY DEF AnimState, States

LEMMA EnteredPrev ==
  ASSUME NEW a \in AnimType, NEW s \in States \cup {"BRAKE"}
  PROVE  TickAnim(a, s, Clip[s]).prev = s
BY DEF TickAnim, Entered, Advance, Fresh, AnimType

LEMMA DeathInvStep ==
  ASSUME AiOK, DeathInv, [Next]_vars PROVE DeathInv'
<1>1. CASE anim' = anim
  BY <1>1, DieStays DEF DeathInv
<1>2. CASE BossAnimSystem /\ anim' = TickAnim(anim, AnimState, Clip[AnimState])
  <2>1. /\ AnimState \in States \cup {"BRAKE"}
        /\ AnimState = "DIE" <=> state = "DIE"
    BY AnimStateType DEF AiOK
  <2>2. anim' \in AnimType /\ anim'.prev = AnimState
    BY <1>2, <2>1, TickAnimType, EnteredPrev DEF DeathInv
  <2>3. state' = state
    BY <1>2 DEF BossAnimSystem, aiVars
  <2> QED
    BY <2>1, <2>2, <2>3 DEF DeathInv
<1> QED
  BY <1>1, <1>2
  DEF Next, BossSystem, MovementSystem, DamageSystem, HealthSystem,
      RespawnSystem, BossAnimSystem, vars

-----------------------------------------------------------------------------
BossInv == AiOK /\ FlagsOK /\ TurnInv /\ BodyOK /\ DeathInv

LEMMA BossCorrect == Spec => []BossInv
<1>1. Init => BossInv
  <2> SUFFICES ASSUME Init PROVE BossInv
    OBVIOUS
  <2> USE ConstantsAreNat
  <2>1. AiOK
    BY DEF Init, AiOK, States
  <2>2. FlagsOK /\ TurnInv
    BY DEF Init, FlagsOK, TurnInv
  <2>3. BodyOK
    <3>1. BossHp \in Int
      OBVIOUS
    <3> QED
      BY <3>1, Zenon DEF Init, BodyOK, Sides
  <2>4. DeathInv
    <3>1. 0 \in 0..(ClipStep - 1)
      OBVIOUS
    <3> QED
      BY <3>1 DEF Init, DeathInv, AnimType, Fresh, States
  <2> QED
    BY <2>1, <2>2, <2>3, <2>4 DEF BossInv
<1>2. BossInv /\ [Next]_vars => BossInv'
  BY AiStep, FlagsStep, TurnStep, BodyStep, DeathInvStep DEF BossInv
<1> QED
  BY <1>1, <1>2, PTL DEF Spec

(* The counters of the boss's state machine, its timers and the frame of   *)
(* its clip stay within their bounds.                                      *)
THEOREM TypeCorrect == Spec => []TypeOK
<1>1. BossInv => TypeOK
  BY DEF BossInv, AiOK, FlagsOK, TurnInv, BodyOK, DeathInv, AnimType, TypeOK
<1> QED
  BY <1>1, BossCorrect, PTL

(* No attack begins that is of the kind of the one before it, whatever    *)
(* hits, healing and respawns come in between; the first is a dash.        *)
THEOREM AttacksTakeTurns == Spec => AttacksAlternate
<1>1. BossInv /\ [Next]_vars => [TakesTurn]_vars
  BY TurnStep DEF BossInv
<1> QED
  BY <1>1, BossCorrect, PTL DEF Spec, AttacksAlternate

(* Every volley that ends in IDLE was of exactly Shots bullets.            *)
THEOREM VolleysAreComplete == Spec => VolleyIsComplete
<1>1. BossInv /\ [Next]_vars => [VolleyStep]_vars
  BY AiStep DEF BossInv
<1> QED
  BY <1>1, BossCorrect, PTL DEF Spec, VolleyIsComplete, VolleyStep

(* One tick of the death clip is one tick of its clock; the last one ends  *)
(* it.                                                                     *)
LEMMA FrameTicks ==
  ASSUME NEW n \in 0..3, NEW step \in Nat
  PROVE  /\ n * step \in Nat /\ n * step <= 3 * step
         /\ (n + 1) * step = n * step + step
         /\ n < 3 => n * step <= 2 * step
<1>1. n = 0 \/ n = 1 \/ n = 2 \/ n = 3
  OBVIOUS
<1> QED
  BY <1>1

LEMMA DieTick ==
  ASSUME NEW a \in AnimType
  PROVE  LET clock == IF a.prev = "DIE" THEN a.frame * ClipStep + a.timer ELSE 0
             b     == TickAnim(a, "DIE", Clip["DIE"])
         IN \/ /\ ~b.finished /\ clock + 1 < 4 * ClipStep
               /\ b.frame * ClipStep + b.timer = clock + 1
            \/ b.finished /\ clock + 1 = 4 * ClipStep
<1> DEFINE c == Entered(a, "DIE")
           clip == Clip["DIE"]
           clock == IF a.prev = "DIE" THEN a.frame * ClipStep + a.timer ELSE 0
           b == TickAnim(a, "DIE", clip)
<1>1. clip.count = 4 /\ clip.step = ClipStep
  BY DEF Clip, States
<1>2. ~clip.loop
  BY DEF Clip, States
<1>3. ClipStep \in Nat \ {0}
  BY ConstantsAreNat
<1>4. c.frame \in 0..3 /\ c.timer \in 0..(ClipStep - 1) /\ ~c.finished
  BY <1>3 DEF Entered, Fresh, AnimType
<1>5. clock = c.frame * ClipStep + c.timer
  BY <1>3, FrameTicks DEF Entered, Fresh, AnimType
<1>6. c = [prev |-> "DIE", frame |-> c.frame, timer |-> c.timer, finished |-> c.finished]
  BY DEF Entered, Fresh, AnimType
<1>7. b = IF c.timer + 1 >= ClipStep THEN Advance(c, clip)
                                     ELSE [c EXCEPT !.timer = c.timer + 1]
  BY <1>1 DEF TickAnim
<1>8. SUFFICES \/ /\ ~b.finished /\ clock + 1 < 4 * ClipStep
                  /\ b.frame * ClipStep + b.timer = clock + 1
               \/ b.finished /\ clock + 1 = 4 * ClipStep
  OBVIOUS
<1> HIDE DEF c, clip, clock, b
<1>9. CASE c.timer + 1 < ClipStep
  <2>1. b.frame = c.frame /\ b.timer = c.timer + 1 /\ b.finished = c.finished
    <3>1. b = [c EXCEPT !.timer = c.timer + 1]
      BY <1>3, <1>4, <1>7, <1>9
    <3> DEFINE n == c.timer + 1
    <3> HIDE DEF n
    <3>2. b = [c EXCEPT !.timer = n]
      BY <3>1 DEF n
    <3>3. b.frame = c.frame /\ b.timer = n /\ b.finished = c.finished
      BY <1>6, <3>2
    <3> QED
      BY <3>3 DEF n
  <2>2. clock + 1 < 4 * ClipStep /\ b.frame * ClipStep + b.timer = clock + 1
    <3> DEFINE played == c.frame * ClipStep
    <3>1. b.frame * ClipStep = played
      BY <2>1
    <3>2. played \in Nat /\ played <= 3 * ClipStep
      BY <1>3, <1>4, FrameTicks
    <3>3. clock = played + c.timer
      BY <1>5
    <3> HIDE DEF played
    <3> QED
      BY <1>3, <1>4, <1>9, <2>1, <3>1, <3>2, <3>3
  <2> QED
    BY <1>4, <2>1, <2>2
<1>10. CASE c.timer + 1 = ClipStep /\ c.frame < 3
  <2>1. b.frame = c.frame + 1 /\ b.timer = 0 /\ b.finished = c.finished
    <3>1. b = [c EXCEPT !.timer = 0, !.frame = c.frame + 1]
      BY <1>1, <1>3, <1>4, <1>7, <1>10 DEF Advance
    <3> DEFINE n == c.frame + 1
    <3> HIDE DEF n
    <3>2. b = [c EXCEPT !.timer = 0, !.frame = n]
      BY <3>1 DEF n
    <3>3. b.frame = n /\ b.timer = 0 /\ b.finished = c.finished
      BY <1>6, <3>2
    <3> QED
      BY <3>3 DEF n
  <2>2. clock + 1 < 4 * ClipStep /\ b.frame * ClipStep + b.timer = clock + 1
    <3> DEFINE played == c.frame * ClipStep
    <3>1. b.frame * ClipStep = played + ClipStep
      BY <1>3, <1>4, <2>1, FrameTicks
    <3>2. played \in Nat /\ played <= 2 * ClipStep
      BY <1>3, <1>4, <1>10, FrameTicks
    <3>3. clock = played + c.timer
      BY <1>5
    <3> HIDE DEF played
    <3> QED
      BY <1>3, <1>4, <1>10, <2>1, <3>1, <3>2, <3>3
  <2> QED
    BY <1>4, <2>1, <2>2
<1>11. CASE c.timer + 1 = ClipStep /\ c.frame = 3
  <2>1. b = [c EXCEPT !.timer = 0, !.frame = clip.count - 1, !.finished = TRUE]
    BY <1>1, <1>2, <1>3, <1>4, <1>7, <1>11 DEF Advance
  <2>2. b.finished
    BY <1>6, <2>1
  <2>3. clock + 1 = 4 * ClipStep
    BY <1>3, <1>4, <1>5, <1>11
  <2> QED
    BY <2>2, <2>3
<1> QED
  BY <1>3, <1>4, <1>9, <1>10, <1>11

LEMMA DeathTickStep == ASSUME BossInv, [Next]_vars PROVE DeathClipTick
<1> SUFFICES ASSUME BossAnimSystem, alive
             PROVE  IF state = "DIE"
                      THEN \/ /\ DieClock + 1 < DieClipTicks
                              /\ DieClock' = DieClock + 1 /\ alive'
                           \/ DieClock + 1 = DieClipTicks /\ ~alive'
                      ELSE alive'
  BY DEF DeathClipTick
<1>1. anim' = TickAnim(anim, AnimState, Clip[AnimState]) /\ alive' = ~IsOver(anim')
  BY DEF BossAnimSystem
<1>2. state' = state
  BY DEF BossAnimSystem, aiVars
<1>3. CASE state # "DIE"
  BY <1>1, <1>2, <1>3 DEF IsOver
<1>4. CASE state = "DIE"
  <2>1. AnimState = "DIE" /\ anim \in AnimType
    BY <1>4 DEF AnimState, BossInv, DeathInv
  <2> DEFINE b == TickAnim(anim, "DIE", Clip["DIE"])
  <2>2. anim' = b /\ b.prev = "DIE"
    BY <1>1, <2>1, EnteredPrev DEF States
  <2>3. \/ /\ ~b.finished /\ DieClock + 1 < 4 * ClipStep
           /\ b.frame * ClipStep + b.timer = DieClock + 1
        \/ b.finished /\ DieClock + 1 = 4 * ClipStep
    BY <2>1, DieTick DEF DieClock
  <2> HIDE DEF b
  <2>4. DieClock' = b.frame * ClipStep + b.timer
    BY <2>2 DEF DieClock
  <2>5. DieClipTicks = 4 * ClipStep
    BY DEF DieClipTicks, Clip, States
  <2>6. alive' <=> ~b.finished
    BY <1>1, <1>2, <1>4, <2>2 DEF IsOver
  <2> QED
    BY <1>4, <2>3, <2>4, <2>5, <2>6
<1> QED
  BY <1>3, <1>4

(* The death clip runs once, from its first frame to its last, and the     *)
(* boss is there exactly as long.                                          *)
THEOREM DeathClipIsWhole == Spec => DeathClipRunsOnce
<1>1. BossInv /\ [Next]_vars => [DeathClipTick]_vars
  BY DeathTickStep
<1> QED
  BY <1>1, BossCorrect, PTL DEF Spec, DeathClipRunsOnce

-----------------------------------------------------------------------------
(* The timer that counts to the next attack is running, and within the     *)
(* length of what it counts.                                               *)
ClocksOK ==
  /\ state = "IDLE" => stateTimer \in 1..IdleTicks
  /\ state = "CHARGE_DASH" => stateTimer \in 1..ChargeTicks
  /\ state = "SHOOT" => shotTimer \in 1..ShootCooldown

LEMMA AttackStep ==
  ASSUME AiOK, FlagsOK, ClocksOK, [Next]_vars PROVE ClocksOK' /\ AttackTick
<1> USE ConstantsAreNat DEF AiOK, FlagsOK, ClocksOK, States
<1> DEFINE Bound == IdleTicks + ChargeTicks + ShootCooldown
<1>1. CASE UNCHANGED aiVars
  <2>1. TimeToAttack' = TimeToAttack /\ TimeToAttack <= Bound
    BY <1>1 DEF aiVars, TimeToAttack
  <2>2. ClocksOK'
    BY <1>1 DEF aiVars
  <2>3. ~(BossSystem /\ alive /\ state \in {"IDLE", "CHARGE_DASH", "SHOOT"})
    <3>1. ASSUME BossSystem, alive, state \in {"IDLE", "CHARGE_DASH", "SHOOT"}
          PROVE  TickIdle \/ TickCharge \/ TickShoot
      BY <3>1 DEF BossSystem, TickDash, TickDie
    <3>2. ~TickIdle
      <4>1. CASE stateTimer - 1 > 0
        BY <1>1, <4>1 DEF TickIdle, aiVars
      <4>2. CASE ~(stateTimer - 1 > 0)
        BY <1>1, <4>2 DEF TickIdle, aiVars
      <4> QED
        BY <4>1, <4>2
    <3>3. ~TickCharge
      BY <1>1 DEF TickCharge, aiVars
    <3>4. ~TickShoot
      <4>1. CASE shotTimer - 1 > 0
        BY <1>1, <4>1 DEF TickShoot, aiVars
      <4>2. CASE ~(shotTimer - 1 > 0)
        BY <1>1, <4>2 DEF TickShoot, aiVars
      <4> QED
        BY <4>1, <4>2
    <3> QED
      BY <3>1, <3>2, <3>3, <3>4
  <2> QED
    BY <2>1, <2>2, <2>3 DEF AttackTick
<1>2. CASE HealthSystem
  <2>1. UNCHANGED aiVars \/ state' = "DIE"
    BY <1>2 DEF HealthSystem, aiVars
  <2>2. CASE state' = "DIE"
    <3>1. TimeToAttack' = 0 /\ ~BossSystem
      BY <1>2, <2>2 DEF TimeToAttack, HealthSystem, BossSystem, Then
    <3> QED
      BY <2>2, <3>1 DEF AttackTick
  <2> QED
    BY <1>1, <2>1, <2>2
<1>3. CASE BossSystem /\ TickIdle
  <2>1. CASE stateTimer - 1 > 0
    <3>1. /\ stateTimer' = stateTimer - 1 /\ state = "IDLE" /\ state' = state
          /\ UNCHANGED <<nextIsDash, shotsFired, shotTimer>>
      BY <1>3, <2>1 DEF TickIdle
    <3>2. TimeToAttack' = TimeToAttack - 1 /\ TimeToAttack > 1 /\ TimeToAttack' <= Bound
      BY <2>1, <3>1 DEF TimeToAttack
    <3> QED
      BY <1>3, <2>1, <3>1, <3>2 DEF AttackTick, Attacks
  <2>2. CASE ~(stateTimer - 1 > 0)
    <3>1. /\ shotsFired' = 0 /\ shotTimer' = ShootCooldown /\ state = "IDLE"
          /\ state' = IF nextIsDash THEN "CHARGE_DASH" ELSE "SHOOT"
          /\ nextIsDash => stateTimer' = ChargeTicks
      BY <1>3, <2>2 DEF TickIdle
    <3>2. stateTimer = 1
      BY <2>2, <3>1
    <3>3. TimeToAttack' = TimeToAttack - 1 /\ TimeToAttack > 1 /\ TimeToAttack' <= Bound
      BY <3>1, <3>2 DEF TimeToAttack
    <3>4. ~Attacks /\ ClocksOK'
      BY <3>1 DEF Attacks
    <3> QED
      BY <1>3, <3>3, <3>4 DEF AttackTick
  <2> QED
    BY <2>1, <2>2
<1>4. CASE BossSystem /\ TickCharge
  <2>1. CASE stateTimer - 1 > 0
    <3>1. /\ stateTimer' = stateTimer - 1 /\ state = "CHARGE_DASH" /\ state' = state
          /\ shotsFired' = shotsFired
      BY <1>4, <2>1 DEF TickCharge
    <3>2. TimeToAttack' = TimeToAttack - 1 /\ TimeToAttack > 1 /\ TimeToAttack' <= Bound
      BY <2>1, <3>1 DEF TimeToAttack
    <3> QED
      BY <1>4, <2>1, <3>1, <3>2 DEF AttackTick, Attacks
  <2>2. CASE ~(stateTimer - 1 > 0)
    <3>1. state = "CHARGE_DASH" /\ state' = "DASH"
      BY <1>4, <2>2 DEF TickCharge
    <3>2. TimeToAttack = 1 /\ TimeToAttack' = 0
      BY <2>2, <3>1 DEF TimeToAttack
    <3> QED
      BY <1>4, <3>1, <3>2 DEF AttackTick, Attacks
  <2> QED
    BY <2>1, <2>2
<1>5. CASE BossSystem /\ TickDash
  <2>1. /\ state = "DASH"
        /\ \/ state' = "DASH"
           \/ state' = "IDLE" /\ stateTimer' = IdleTicks
    BY <1>5 DEF TickDash, GoIdle
  <2>2. TimeToAttack' <= Bound
    BY <2>1 DEF TimeToAttack
  <2> QED
    BY <1>5, <2>1, <2>2 DEF AttackTick
<1>6. CASE BossSystem /\ TickShoot
  <2>1. CASE shotTimer - 1 > 0
    <3>1. /\ shotTimer' = shotTimer - 1 /\ state = "SHOOT" /\ state' = state
          /\ shotsFired' = shotsFired
      BY <1>6, <2>1 DEF TickShoot
    <3>2. TimeToAttack' = TimeToAttack - 1 /\ TimeToAttack > 1 /\ TimeToAttack' <= Bound
      BY <2>1, <3>1 DEF TimeToAttack
    <3> QED
      BY <1>6, <2>1, <3>1, <3>2 DEF AttackTick, Attacks
  <2>2. CASE ~(shotTimer - 1 > 0)
    <3>1. /\ state = "SHOOT" /\ shotsFired' = shotsFired + 1
          /\ shotTimer' = ShootCooldown
          /\ \/ state' = "IDLE" /\ stateTimer' = IdleTicks
             \/ state' = "SHOOT"
      <4>1. /\ state = "SHOOT" /\ shotsFired' = shotsFired + 1
            /\ shotTimer' = ShootCooldown
            /\ IF VolleyOver(shotsFired') THEN GoIdle
                                          ELSE UNCHANGED <<state, stateTimer>>
        BY <1>6, <2>2 DEF TickShoot
      <4> QED
        BY <4>1 DEF GoIdle
    <3>2. TimeToAttack = 1 /\ TimeToAttack' <= Bound
      BY <2>2, <3>1 DEF TimeToAttack
    <3> QED
      BY <1>6, <3>1, <3>2 DEF AttackTick, Attacks
  <2> QED
    BY <2>1, <2>2
<1> QED
  BY <1>1, <1>2, <1>3, <1>4, <1>5, <1>6, Zenon
  DEF Next, BossSystem, TickDie, MovementSystem, DamageSystem, RespawnSystem,
      BossAnimSystem, vars

(* The next attack comes by the clock, for any timers: what is left of the *)
(* way to KeepsAttacking is that frames go on.                             *)
THEOREM AttacksComeOnTime == Spec => AttacksOnTime
<1>1. Init => ClocksOK
  BY ConstantsAreNat DEF Init, ClocksOK
<1>2. BossInv /\ ClocksOK /\ [Next]_vars => ClocksOK' /\ [AttackTick]_vars
  BY AttackStep DEF BossInv
<1> QED
  BY <1>1, <1>2, BossCorrect, PTL DEF Spec, AttacksOnTime

-----------------------------------------------------------------------------
(* A boss that is there has not had the end of its death clip: a finish    *)
(* flag that another clip left behind is cleared by the first tick of the  *)
(* death clip, before movementSystem could drop the boss from the map.     *)
NotOver == alive /\ phase \notin {"respawn", "anim"} => ~IsOver(anim)

LEMMA OnlyHealthKills == ASSUME BossSystem PROVE state' = "DIE" <=> state = "DIE"
<1>1. CASE TickIdle
  BY <1>1, Zenon DEF TickIdle
<1>2. CASE TickCharge
  BY <1>2, Zenon DEF TickCharge
<1>3. CASE TickDash
  BY <1>3, Zenon DEF TickDash, GoIdle
<1>4. CASE TickShoot
  BY <1>4, Zenon DEF TickShoot, GoIdle
<1>5. CASE UNCHANGED aiVars
  BY <1>5 DEF aiVars
<1> QED
  BY <1>1, <1>2, <1>3, <1>4, <1>5, Zenon DEF BossSystem, TickDie

LEMMA NotOverStep == ASSUME NotOver, [Next]_vars PROVE NotOver'
<1> USE DEF NotOver, IsOver, Then
<1>1. CASE BossSystem
  BY <1>1, OnlyHealthKills DEF BossSystem
<1>2. CASE MovementSystem
  BY <1>2 DEF MovementSystem, aiVars
<1>3. CASE DamageSystem
  BY <1>3 DEF DamageSystem, aiVars
<1>4. CASE HealthSystem \/ RespawnSystem
  BY <1>4 DEF HealthSystem, RespawnSystem
<1>5. CASE BossAnimSystem
  BY <1>5 DEF BossAnimSystem, aiVars
<1>6. CASE UNCHANGED vars
  BY <1>6 DEF vars, aiVars
<1> QED
  BY <1>1, <1>2, <1>3, <1>4, <1>5, <1>6 DEF Next

LEMMA NotOverCorrect == Spec => []NotOver
<1>1. Init => NotOver
  BY DEF Init, NotOver, IsOver
<1> QED
  BY <1>1, NotOverStep, PTL DEF Spec

(* Only a fall and the death clip end a boss, and the clip is ticked from  *)
(* its beginning, once a frame, whatever else happens to a dying boss.     *)
THEOREM ImplementsBossLife == Spec => LifeSpec
<1>1. Init => Life!Init
  BY DEF Init, Life!Init
<1>2. BossInv /\ NotOver /\ NotOver' /\ [Next]_vars => [Life!Next]_(Life!vars)
  <2> SUFFICES ASSUME BossInv, NotOver, NotOver', [Next]_vars
               PROVE  [Life!Next]_(Life!vars)
    OBVIOUS
  <2>1. (alive /\ state # "DIE") => DieClock = 0
    BY DEF BossInv, DeathInv, DieClock
  <2>2. ASSUME alive' = alive, anim' = anim, state' = "DIE" <=> state = "DIE"
        PROVE  UNCHANGED Life!vars
    BY <2>2 DEF Life!vars, IsOver, DieClock
  <2>3. CASE BossSystem
    BY <2>2, <2>3, OnlyHealthKills DEF BossSystem
  <2>4. CASE MovementSystem
    <3>1. anim' = anim /\ state' = state /\ phase = "movement"
      BY <2>4 DEF MovementSystem, aiVars, Then
    <3>2. CASE alive' = alive
      BY <2>2, <3>1, <3>2
    <3>3. CASE alive' # alive
      <4>1. alive /\ ~alive'
        BY <2>4, <3>3 DEF MovementSystem, BossInv, BodyOK
      <4>2. ~IsOver(anim) /\ ~IsOver(anim)'
        BY <3>1, <4>1 DEF NotOver, IsOver
      <4>3. Life!Fall
        BY <3>1, <4>1, <4>2 DEF Life!Fall, Life!Leave
      <4> QED
        BY <4>3 DEF Life!Next
    <3> QED
      BY <3>2, <3>3
  <2>5. CASE DamageSystem \/ RespawnSystem
    BY <2>2, <2>5 DEF DamageSystem, RespawnSystem, aiVars
  <2>6. CASE HealthSystem
    <3>1. anim' = anim /\ alive' = alive
      BY <2>6 DEF HealthSystem
    <3>2. CASE alive /\ hp <= 0 /\ state # "DIE"
      <4>1. state' = "DIE"
        BY <2>6, <3>2 DEF HealthSystem
      <4>2. DieClock' = DieClock
        BY <3>1 DEF DieClock
      <4>3. Life!Spend
        BY <2>1, <3>1, <3>2, <4>1, <4>2 DEF Life!Spend
      <4> QED
        BY <4>3 DEF Life!Next
    <3>3. CASE ~(alive /\ hp <= 0 /\ state # "DIE")
      BY <2>2, <2>6, <3>1, <3>3 DEF HealthSystem
    <3> QED
      BY <3>2, <3>3
  <2>7. CASE BossAnimSystem
    <3>1. state' = state
      BY <2>7 DEF BossAnimSystem, aiVars
    <3>2. CASE ~alive
      BY <2>2, <2>7, <3>1, <3>2 DEF BossAnimSystem
    <3>3. CASE alive /\ state # "DIE"
      <4>1. alive'
        BY <2>7, <3>1, <3>3 DEF BossAnimSystem, IsOver
      <4> QED
        BY <3>1, <3>3, <4>1 DEF Life!vars
    <3>4. CASE alive /\ state = "DIE"
      <4>1. DeathClipTick
        BY DeathTickStep
      <4>2. CASE DieClock + 1 < DieClipTicks /\ DieClock' = DieClock + 1 /\ alive'
        <5>1. Life!Tick
          BY <3>1, <3>4, <4>2 DEF Life!Tick
        <5> QED
          BY <5>1 DEF Life!Next
      <4>3. CASE DieClock + 1 = DieClipTicks /\ ~alive'
        <5>1. IsOver(anim)'
          BY <2>7, <3>1, <3>4, <4>3 DEF BossAnimSystem, IsOver
        <5>2. Life!Bury
          BY <3>4, <4>3, <5>1 DEF Life!Bury, Life!Leave
        <5> QED
          BY <5>2 DEF Life!Next
      <4> QED
        BY <2>7, <3>4, <4>1, <4>2, <4>3 DEF DeathClipTick
    <3> QED
      BY <3>2, <3>3, <3>4
  <2>8. CASE UNCHANGED vars
    BY <2>2, <2>8 DEF vars, aiVars
  <2> QED
    BY <2>3, <2>4, <2>5, <2>6, <2>7, <2>8 DEF Next
<1> QED
  BY <1>1, <1>2, BossCorrect, NotOverCorrect, PTL DEF Spec, LifeSpec, Life!Spec
=============================================================================
