---------------------------- MODULE CombatProofs ----------------------------
(***************************************************************************)
(* Theorems about Combat, for every value of its constants that satisfies  *)
(* the assumptions.                                                        *)
(***************************************************************************)
EXTENDS Combat, TLAPS

USE DEF healthVars, respawnVars, intentVars, playerVars, enemyVars, aiVars,
        bossVars

-----------------------------------------------------------------------------
(* The helpers: a count down stays in its range, and every enemy is created*)
(* with some health.                                                       *)
LEMMA CountDownRange ==
  ASSUME NEW k \in Nat, NEW n \in 0..k PROVE CountDown(n) \in 0..k
  BY DEF CountDown

LEMMA SpawnHpPositive ==
  ASSUME NEW e PROVE SpawnHp(e) \in Nat \ {0}
  BY HealthAssumption DEF SpawnHp

LEMMA HarmPositive ==
  ASSUME NEW c PROVE HarmOf(c) \in Nat \ {0}
  BY DEF HarmOf, ContactDamage, DamageOf, BulletDamage, BossBulletDamage

-----------------------------------------------------------------------------
(* aiSystem keeps every freeze, alert, burst and cooldown counter in range.*)
LEMMA AiSystemType ==
  ASSUME TypeOK, AiSystem PROVE AITypeOK'
<1> USE DEF TypeOK, AITypeOK
<1>1. freeze' \in [AIEnemies -> Nat]
  BY DEF AiSystem, CountDown
<1>2. PICK inRange, there \in [AIEnemies -> BOOLEAN] :
        /\ alert' = [l \in Locksters |->
                      IF Ticks(l) THEN NextAlert(l, inRange[l], there[l])
                                  ELSE alert[l]]
        /\ burst' = [p \in Patrollers |->
             IF p \in {q \in Patrollers :
                         Ticks(q) /\ StartsBurst(q, inRange[q], there[q])}
               THEN BurstFrames
             ELSE IF Ticks(p) THEN CountDown(burst[p]) ELSE burst[p]]
        /\ burstCool' = [p \in Patrollers |->
             IF p \in {q \in Patrollers :
                         Ticks(q) /\ StartsBurst(q, inRange[q], there[q])}
               THEN BurstCooldown
             ELSE IF Ticks(p) THEN CoolDown(p) ELSE burstCool[p]]
        /\ burstFired' = [p \in Patrollers |->
             IF p \in {q \in Patrollers :
                         Ticks(q) /\ StartsBurst(q, inRange[q], there[q])}
               THEN FALSE
             ELSE burstFired[p] \/ p \in Bursting]
  BY DEF AiSystem
<1>3. alert' \in [Locksters -> 0..AlertTicks]
  <2>1. \A l \in Locksters : NextAlert(l, inRange[l], there[l]) \in 0..AlertTicks
    BY AIAssumption DEF NextAlert, Charging
  <2> QED
    BY <1>2, <2>1
<1>4. burst' \in [Patrollers -> 0..BurstFrames]
  <2>1. \A p \in Patrollers : CountDown(burst[p]) \in 0..BurstFrames
    BY AIAssumption, CountDownRange
  <2> QED
    BY <1>2, <2>1, AIAssumption
<1>5. burstCool' \in [Patrollers -> 0..BurstCooldown]
  <2>1. \A p \in Patrollers : CoolDown(p) \in 0..BurstCooldown
    BY AIAssumption, CountDownRange DEF CoolDown
  <2> QED
    BY <1>2, <2>1, AIAssumption
<1>6. burstFired' \in [Patrollers -> BOOLEAN]
  BY <1>2
<1> QED
  BY <1>1, <1>3, <1>4, <1>5, <1>6

(* Every state of the game loop is well typed: no timer, alert level or    *)
(* burst counter leaves its range in any interleaving of the systems.      *)
THEOREM TypeCorrect == Spec => []TypeOK
<1> USE DEF TypeOK, EnemyTypeOK
<1>1. Init => TypeOK
  <2> SUFFICES ASSUME Init PROVE TypeOK
    OBVIOUS
  <2>1. CountersOK
    BY HealthAssumption DEF Init, CountersOK
  <2>4. FlagsOK
    BY DEF Init, FlagsOK
  <2>5. phase \in Phases /\ bullet \in [Bullets -> Owners \cup {"none"}]
    BY DEF Init, Phases
  <2>2. EnemyTypeOK
    BY SpawnHpPositive DEF Init
  <2>3. AITypeOK
    BY AIAssumption DEF Init, AITypeOK
  <2> QED
    BY <2>1, <2>2, <2>3, <2>4, <2>5
<1>2. TypeOK /\ [Next]_vars => TypeOK'
  <2> SUFFICES ASSUME TypeOK, [Next]_vars PROVE TypeOK'
    OBVIOUS
  <2> USE DEF Then, Phases
  <2>1. CASE InputSystem
    <3>1. FlagsOK'
      BY <2>1 DEF InputSystem, FlagsOK
    <3> QED
      BY <2>1, <3>1 DEF InputSystem, CountersOK, AITypeOK
  <2>2. CASE AiSystem
    <3>1. bullet' \in [Bullets -> Owners \cup {"none"}]
      BY <2>2 DEF AiSystem, Fire, Owners
    <3>2. shielded' \in [Enemies -> BOOLEAN]
      BY <2>2 DEF AiSystem
    <3>3. phase' \in Phases /\ UNCHANGED <<healthVars, respawnVars, intentVars,
                                 playerVars, alive, ehp, bossVars>>
      BY <2>2 DEF AiSystem
    <3> QED
      BY <2>2, <3>1, <3>2, <3>3, AiSystemType DEF CountersOK, FlagsOK
  <2>3. CASE BossSystem
    BY <2>3 DEF BossSystem, Fire, Owners, CountersOK, FlagsOK, AITypeOK
  <2>4. CASE MovementSystem
    <3>1. FlagsOK'
      BY <2>4 DEF MovementSystem, Falls, FlagsOK
    <3>2. CountersOK'
      BY <2>4 DEF MovementSystem, CountersOK
    <3> QED
      BY <2>4, <3>1, <3>2 DEF MovementSystem, AITypeOK
  <2>5. CASE ShootingSystem
    <3>1. FlagsOK'
      BY <2>5 DEF ShootingSystem, FlagsOK
    <3>2. CountersOK'
      BY <2>5, AIAssumption DEF ShootingSystem, CountDown, CountersOK
    <3> QED
      BY <2>5, <3>1, <3>2 DEF ShootingSystem, Fire, Owners, AITypeOK
  <2>6. CASE CollisionSystem
    <3>1. FlagsOK'
      BY <2>6 DEF CollisionSystem, FlagsOK
    <3>2. CountersOK'
      BY <2>6, HarmPositive DEF CollisionSystem, CountersOK
    <3>3. hit' \in [Enemies -> BOOLEAN]
      BY <2>6 DEF CollisionSystem
    <3>4. bullet' \in [Bullets -> Owners \cup {"none"}]
      BY <2>6 DEF CollisionSystem
    <3>5. phase' \in Phases /\ UNCHANGED <<enemyVars, aiVars, bossVars>>
      BY <2>6 DEF CollisionSystem
    <3> QED
      BY <3>1, <3>2, <3>3, <3>4, <3>5 DEF AITypeOK
  <2>7. CASE DamageSystem
    <3>1. FlagsOK'
      BY <2>7 DEF DamageSystem, DropIntents, FlagsOK
    <3>2. CountersOK'
      BY <2>7, TimerAssumption
         DEF DamageSystem, DropIntents, IframesOfHit, CountersOK
    <3>3. EnemyTypeOK'
      BY <2>7 DEF DamageSystem, DropIntents, BulletDamage
    <3>4. AITypeOK'
      BY <2>7, TimerAssumption DEF DamageSystem, AITypeOK
    <3> QED
      BY <2>7, <3>1, <3>2, <3>3, <3>4 DEF DamageSystem
  <2>8. CASE HealthSystem
    <3>1. FlagsOK'
      BY <2>8 DEF HealthSystem, FlagsOK
    <3>2. CountersOK'
      BY <2>8 DEF HealthSystem, CountersOK
    <3> QED
      BY <2>8, <3>1, <3>2 DEF HealthSystem, AITypeOK
  <2>9. CASE RespawnSystem
    <3> USE <2>9 DEF RespawnSystem
    <3>1. CASE BeginRespawn
      <4>1. FlagsOK'
        BY <3>1 DEF BeginRespawn, FlagsOK
      <4>2. CountersOK'
        BY <3>1, TimerAssumption DEF BeginRespawn, CountersOK
      <4> QED
        BY <3>1, <4>1, <4>2 DEF BeginRespawn, AllBulletsGone, AITypeOK
    <3>2. CASE KeepFlickering
      <4>1. FlagsOK'
        BY <3>2 DEF KeepFlickering, FlagsOK
      <4>2. CountersOK'
        BY <3>2 DEF KeepFlickering, CountersOK
      <4> QED
        BY <3>2, <4>1, <4>2 DEF KeepFlickering, AITypeOK
    <3>3. CASE Revive
      <4>1. FlagsOK'
        BY <3>3 DEF Revive, ComesBack, FlagsOK
      <4>2. CountersOK'
        BY <3>3, HealthAssumption, TimerAssumption DEF Revive, CountersOK
      <4>3. EnemyTypeOK'
        BY <3>3, SpawnHpPositive DEF Revive, ComesBack
      <4>4. AITypeOK'
        BY <3>3, AIAssumption DEF Revive, AITypeOK
      <4> QED
        BY <3>3, <4>1, <4>2, <4>3, <4>4 DEF Revive
    <3>4. CASE NoRespawn
      BY <3>4 DEF NoRespawn, CountersOK, FlagsOK, AITypeOK
    <3> QED
      BY <3>1, <3>2, <3>3, <3>4
  <2>10. CASE BossAnimSystem
    BY <2>10 DEF BossAnimSystem, ClipTick, CountersOK, FlagsOK, AITypeOK
  <2>11. CASE ProjectileCullSystem
    BY <2>11 DEF ProjectileCullSystem, CountersOK, FlagsOK, AITypeOK
  <2>12. CASE UNCHANGED vars
    BY <2>12 DEF vars, CountersOK, FlagsOK, AITypeOK
  <2> QED
    BY <2>1, <2>2, <2>3, <2>4, <2>5, <2>6, <2>7, <2>8, <2>9, <2>10, <2>11,
       <2>12 DEF Next
<1> QED
  BY <1>1, <1>2, PTL DEF Spec

-----------------------------------------------------------------------------
(* The relation between the i-frames and the flicker is inductive.         *)
LEMMA ShieldInit == Init => ShieldInv
  BY HealthAssumption DEF Init, ShieldInv

LEMMA ShieldStep ==
  ASSUME TypeOK, ShieldInv, [Next]_vars PROVE ShieldInv'
<1> USE DEF TypeOK, CountersOK, FlagsOK, ShieldInv, Then
<1>1. CASE InputSystem
  BY <1>1 DEF InputSystem
<1>2. CASE AiSystem
  BY <1>2 DEF AiSystem
<1>3. CASE BossSystem
  BY <1>3 DEF BossSystem
<1>4. CASE MovementSystem
  BY <1>4 DEF MovementSystem, Falls
<1>5. CASE ShootingSystem
  BY <1>5 DEF ShootingSystem
<1>6. CASE CollisionSystem
  BY <1>6, HarmPositive DEF CollisionSystem
<1>7. CASE DamageSystem
  BY <1>7, TimerAssumption DEF DamageSystem, DropIntents, Hurts, IframesOfHit
<1>8. CASE HealthSystem
  BY <1>8, TimerAssumption DEF HealthSystem, Expires
<1>9. CASE RespawnSystem
  <2>1. CASE BeginRespawn
    BY <1>9, <2>1, TimerAssumption DEF RespawnSystem, BeginRespawn, Begins
  <2>2. CASE KeepFlickering
    BY <1>9, <2>2, TimerAssumption DEF RespawnSystem, KeepFlickering
  <2>3. CASE Revive
    BY <1>9, <2>3, TimerAssumption, HealthAssumption DEF RespawnSystem, Revive
  <2>4. CASE NoRespawn
    BY <1>9, <2>4, TimerAssumption DEF RespawnSystem, NoRespawn
  <2> QED
    BY <1>9, <2>1, <2>2, <2>3, <2>4 DEF RespawnSystem
<1>10. CASE BossAnimSystem
  BY <1>10 DEF BossAnimSystem
<1>11. CASE ProjectileCullSystem
  BY <1>11 DEF ProjectileCullSystem
<1>12. CASE UNCHANGED vars
  BY <1>12 DEF vars
<1> QED
  BY <1>1, <1>2, <1>3, <1>4, <1>5, <1>6, <1>7, <1>8, <1>9, <1>10, <1>11,
     <1>12 DEF Next

LEMMA ShieldCorrect == Spec => []ShieldInv
<1>1. TypeOK /\ ShieldInv /\ [Next]_vars => ShieldInv'
  BY ShieldStep
<1> QED
  BY <1>1, ShieldInit, TypeCorrect, PTL DEF Spec

(* A respawning player stays dead and invulnerable until it is put back.   *)
THEOREM RespawnShielded == Spec => []RespawnShield
<1>1. ShieldInv => RespawnShield
  BY DEF ShieldInv, RespawnShield
<1> QED
  BY <1>1, ShieldCorrect, PTL

-----------------------------------------------------------------------------
(* The player lives as PlayerLife says: a hit never lands on a shielded    *)
(* player, a shield never runs out while the player is down, and it is     *)
(* revived FlickerTicks frames after the hit that killed it.               *)
THEOREM ImplementsPlayerLife == Spec => LifeSpec
<1> USE DEF Life!Down, Then
<1>1. Init => Life!Init
  BY DEF Init, Life!Init
<1>2. TypeOK /\ ShieldInv /\ ShieldInv' /\ [Next]_vars => [Life!Next]_(Life!vars)
  <2> SUFFICES ASSUME TypeOK, ShieldInv, ShieldInv', [Next]_vars
               PROVE  [Life!Next]_(Life!vars)
    OBVIOUS
  <2>1. CASE UNCHANGED <<hp, invulnerable, timer>>
    BY <2>1 DEF Life!vars
  <2>2. CASE DamageSystem
    <3>1. CASE Hurts
      <4>1. hp' = hp - amount /\ invulnerable' = TRUE /\ timer' = HitIframes
        BY <2>2, <3>1 DEF DamageSystem, IframesOfHit
      <4>2. hp > 0 /\ amount > 0 /\ ~invulnerable
        BY <3>1 DEF Hurts, ShieldInv, TypeOK, CountersOK
      <4>3. Life!Hit
        BY <4>1, <4>2 DEF Life!Hit, TypeOK, CountersOK
      <4> QED
        BY <4>3 DEF Life!Next
    <3>2. CASE ~Hurts
      BY <2>1, <2>2, <3>2 DEF DamageSystem
    <3> QED
      BY <3>1, <3>2
  <2>3. CASE HealthSystem
    <3>1. CASE invulnerable
      <4>1. hp' = hp /\ timer' = timer - 1 /\ timer > 0
        BY <2>3, <3>1 DEF HealthSystem, ShieldInv
      <4>2. invulnerable' <=> timer - 1 > 0
        <5>1. invulnerable' <=> ~(timer - 1 <= 0)
          BY <2>3, <3>1 DEF HealthSystem, Expires
        <5> QED
          BY <5>1 DEF TypeOK, CountersOK
      <4>3. hp <= 0 => invulnerable'
        BY <4>1 DEF ShieldInv
      <4>4. (IF invulnerable' THEN timer' ELSE 0) = timer - 1
        BY <4>1, <4>2 DEF TypeOK, CountersOK
      <4>5. Life!Frame
        BY <3>1, <4>1, <4>2, <4>3, <4>4 DEF Life!Frame, TypeOK, CountersOK
      <4> QED
        BY <4>5 DEF Life!Next
    <3>2. CASE ~invulnerable
      <4>1. hp' = hp /\ timer' = timer
        BY <2>3, <3>2 DEF HealthSystem
      <4>2. invulnerable' = invulnerable
        BY <2>3, <3>2 DEF HealthSystem, TypeOK, FlagsOK
      <4> QED
        BY <2>1, <4>1, <4>2
    <3> QED
      BY <3>1, <3>2
  <2>4. CASE RespawnSystem
    <3>1. CASE Revive
      <4>1. hp <= 0 /\ invulnerable /\ timer = HitIframes - 1 - FlickerTicks
        BY <2>4, <3>1, TimerAssumption
           DEF RespawnSystem, Revive, ShieldInv, TypeOK, CountersOK
      <4>2. Life!Revive
        BY <3>1, <4>1 DEF Revive, Life!Revive
      <4> QED
        BY <4>2 DEF Life!Next
    <3>2. CASE ~Revive
      BY <2>1, <2>4, <3>2
         DEF RespawnSystem, BeginRespawn, KeepFlickering, NoRespawn
    <3> QED
      BY <3>1, <3>2
  <2>5. CASE \/ InputSystem \/ AiSystem \/ BossSystem \/ MovementSystem
             \/ ShootingSystem \/ CollisionSystem \/ BossAnimSystem
             \/ ProjectileCullSystem \/ UNCHANGED vars
    BY <2>1, <2>5 DEF InputSystem, AiSystem, BossSystem, MovementSystem,
         ShootingSystem, CollisionSystem, BossAnimSystem, ProjectileCullSystem,
         vars
  <2> QED
    BY <2>2, <2>3, <2>4, <2>5 DEF Next
<1> QED
  BY <1>1, <1>2, ShieldCorrect, TypeCorrect, PTL DEF Spec, LifeSpec, Life!Spec

-----------------------------------------------------------------------------
(* No bullet of the player flies while it is down: the respawn removes them*)
(* and neither inputSystem nor respawnSystem lets a dead player shoot.     *)
LEMMA DownStep ==
  ASSUME TypeOK, ShieldInv, DownInv, [Next]_vars PROVE DownInv'
<1> USE DEF TypeOK, DownInv, NoPlayerBulletWhileDown, Then
<1>1. CASE InputSystem
  BY <1>1 DEF InputSystem, ReadsKeys, ShieldInv
<1>2. CASE AiSystem
  BY <1>2 DEF AiSystem, Fire
<1>3. CASE BossSystem
  BY <1>3 DEF BossSystem, Fire
<1>4. CASE MovementSystem
  BY <1>4 DEF MovementSystem
<1>5. CASE ShootingSystem
  BY <1>5 DEF ShootingSystem
<1>6. CASE CollisionSystem
  BY <1>6 DEF CollisionSystem
<1>7. CASE DamageSystem
  BY <1>7 DEF DamageSystem
<1>8. CASE HealthSystem
  BY <1>8 DEF HealthSystem
<1>9. CASE RespawnSystem
  BY <1>9 DEF RespawnSystem, BeginRespawn, KeepFlickering, Revive, ComesBack, NoRespawn,
              AllBulletsGone
<1>10. CASE BossAnimSystem
  BY <1>10 DEF BossAnimSystem
<1>11. CASE ProjectileCullSystem
  BY <1>11 DEF ProjectileCullSystem
<1>12. CASE UNCHANGED vars
  BY <1>12 DEF vars
<1> QED
  BY <1>1, <1>2, <1>3, <1>4, <1>5, <1>6, <1>7, <1>8, <1>9, <1>10, <1>11,
     <1>12 DEF Next

LEMMA DownCorrect == Spec => []DownInv
<1>1. Init => DownInv
  BY DEF Init, DownInv
<1>2. TypeOK /\ ShieldInv /\ DownInv /\ [Next]_vars => DownInv'
  BY DownStep
<1> QED
  BY <1>1, <1>2, ShieldCorrect, TypeCorrect, PTL DEF Spec

(* respawnSystem's clearing of the bullets lasts as long as the respawn.   *)
THEOREM BulletsGoneWhileDown == Spec => []NoPlayerBulletWhileDown
<1>1. DownInv => NoPlayerBulletWhileDown
  BY DEF DownInv, NoPlayerBulletWhileDown
<1> QED
  BY <1>1, DownCorrect, PTL

-----------------------------------------------------------------------------
(* Enemies are frozen only while the player is invulnerable.               *)
LEMMA FreezeStep ==
  ASSUME TypeOK, ShieldInv, FreezeInv, [Next]_vars PROVE FreezeInv'
<1> USE TimerAssumption DEF TypeOK, CountersOK, EnemyTypeOK, AITypeOK, FreezeInv,
        Then, Enemies
<1>1. CASE InputSystem
  BY <1>1 DEF InputSystem
<1>2. CASE AiSystem
  BY <1>2 DEF AiSystem, CountDown
<1>3. CASE BossSystem
  BY <1>3 DEF BossSystem
<1>4. CASE MovementSystem
  BY <1>4 DEF MovementSystem
<1>5. CASE ShootingSystem
  BY <1>5 DEF ShootingSystem
<1>6. CASE CollisionSystem
  BY <1>6 DEF CollisionSystem
<1>7. CASE DamageSystem
  BY <1>7 DEF DamageSystem, IframesOfHit
<1>8. CASE HealthSystem
  BY <1>8 DEF HealthSystem, Expires, ShieldInv
<1>9. CASE RespawnSystem
  BY <1>9 DEF RespawnSystem, BeginRespawn, KeepFlickering, Revive, ComesBack, NoRespawn
<1>10. CASE BossAnimSystem
  BY <1>10 DEF BossAnimSystem
<1>11. CASE ProjectileCullSystem
  BY <1>11 DEF ProjectileCullSystem
<1>12. CASE UNCHANGED vars
  BY <1>12 DEF vars
<1> QED
  BY <1>1, <1>2, <1>3, <1>4, <1>5, <1>6, <1>7, <1>8, <1>9, <1>10, <1>11,
     <1>12 DEF Next

(* A freeze is over before the player can be hit again: no hit prolongs it.*)
THEOREM FreezeBounded == Spec => []FreezeInsideShield
<1>1. Init => FreezeInv
  BY DEF Init, FreezeInv
<1>2. TypeOK /\ ShieldInv /\ FreezeInv /\ [Next]_vars => FreezeInv'
  BY FreezeStep
<1>3. FreezeInv => FreezeInsideShield
  BY DEF FreezeInv, FreezeInsideShield
<1> QED
  BY <1>1, <1>2, <1>3, ShieldCorrect, TypeCorrect, PTL DEF Spec

-----------------------------------------------------------------------------
(* A burst, its cooldown and its fired flag stay in step.                  *)
LEMMA BurstStep ==
  ASSUME TypeOK, BurstClockwork, [Next]_vars PROVE BurstClockwork'
<1> USE AIAssumption DEF TypeOK, AITypeOK, BurstClockwork
<1>1. CASE AiSystem
  <2>1. PICK starts \in SUBSET Patrollers :
          /\ burst' = [p \in Patrollers |->
               IF p \in starts THEN BurstFrames
               ELSE IF Ticks(p) THEN CountDown(burst[p]) ELSE burst[p]]
          /\ burstCool' = [p \in Patrollers |->
               IF p \in starts THEN BurstCooldown
               ELSE IF Ticks(p) THEN CoolDown(p) ELSE burstCool[p]]
          /\ burstFired' = [p \in Patrollers |->
               IF p \in starts THEN FALSE
               ELSE burstFired[p] \/ p \in Bursting]
    BY <1>1 DEF AiSystem
  <2> SUFFICES ASSUME NEW p \in Patrollers, burst'[p] > 0
               PROVE /\ burstCool'[p] = burst'[p] + (BurstCooldown - BurstFrames)
                     /\ ~burstFired'[p] <=> burst'[p] = BurstFrames
    OBVIOUS
  <2>2. CASE p \in starts
    BY <2>1, <2>2
  <2>3. CASE p \notin starts /\ Ticks(p)
    <3>1. /\ burst'[p] = CountDown(burst[p]) /\ burstCool'[p] = CountDown(burstCool[p])
          /\ burstFired'[p] <=> burstFired[p] \/ p \in Bursting
      BY <2>1, <2>3 DEF CoolDown
    <3>2. burst[p] \in 0..BurstFrames /\ burstCool[p] \in 0..BurstCooldown
      OBVIOUS
    <3>3. /\ burst[p] > 0 /\ burst'[p] = burst[p] - 1
          /\ burstCool[p] = burst[p] + (BurstCooldown - BurstFrames)
      BY <3>1, <3>2 DEF CountDown
    <3>4. burstCool'[p] = burst'[p] + (BurstCooldown - BurstFrames)
      BY <3>1, <3>2, <3>3 DEF CountDown
    <3>5. burstFired'[p]
      BY <2>3, <3>1, <3>3 DEF Bursting
    <3>6. burst'[p] # BurstFrames
      BY <3>2, <3>3
    <3> QED
      BY <3>4, <3>5, <3>6
  <2>4. CASE p \notin starts /\ ~Ticks(p)
    <3>1. /\ burst'[p] = burst[p] /\ burstCool'[p] = burstCool[p]
          /\ burstFired'[p] <=> burstFired[p] \/ p \in Bursting
      BY <2>1, <2>4
    <3>2. p \notin Bursting
      BY <2>4 DEF Bursting
    <3> QED
      BY <3>1, <3>2
  <2> QED
    BY <2>2, <2>3, <2>4
<1>2. CASE RespawnSystem
  BY <1>2 DEF RespawnSystem, BeginRespawn, KeepFlickering, Revive, ComesBack, NoRespawn
<1>3. CASE \/ InputSystem \/ BossSystem \/ MovementSystem \/ ShootingSystem
           \/ CollisionSystem \/ DamageSystem \/ HealthSystem \/ BossAnimSystem
           \/ ProjectileCullSystem \/ UNCHANGED vars
  BY <1>3 DEF InputSystem, BossSystem, MovementSystem, ShootingSystem,
       CollisionSystem, DamageSystem, HealthSystem, BossAnimSystem,
       ProjectileCullSystem, vars
<1> QED
  BY <1>1, <1>2, <1>3 DEF Next

(* A patroller's bullets leave once per burst, on its first tick, and the  *)
(* next burst waits for the cooldown, however the player's deaths and the  *)
(* freezes interrupt it.                                                   *)
THEOREM BurstsInStep == Spec => []BurstClockwork
<1>1. Init => BurstClockwork
  BY DEF Init, BurstClockwork
<1>2. TypeOK /\ BurstClockwork /\ [Next]_vars => BurstClockwork'
  BY BurstStep
<1> QED
  BY <1>1, <1>2, TypeCorrect, PTL DEF Spec

-----------------------------------------------------------------------------
(* DamageIntents live for one frame, and no enemy gets one while the player*)
(* is down.                                                                *)
LEMMA HitStep ==
  ASSUME TypeOK, DownInv, HitInv, [Next]_vars PROVE HitInv'
<1> USE DEF TypeOK, EnemyTypeOK, HitInv, NoStaleDamage, Then
<1>1. CASE InputSystem
  BY <1>1 DEF InputSystem
<1>2. CASE AiSystem
  BY <1>2 DEF AiSystem
<1>3. CASE BossSystem
  BY <1>3 DEF BossSystem
<1>4. CASE MovementSystem
  BY <1>4 DEF MovementSystem
<1>5. CASE ShootingSystem
  BY <1>5 DEF ShootingSystem
<1>6. CASE CollisionSystem
  <2>1. PICK cs \in Contacts :
          hit' = [e \in Enemies |->
                    hit[e] \/ \E n \in DOMAIN cs :
                               /\ cs[n][1] \in Bullets /\ cs[n][2] = e
                               /\ ~Bounces(cs[n])]
    BY <1>6 DEF CollisionSystem
  <2>2. ASSUME NEW n \in DOMAIN cs, respawning, cs[n][1] \in Bullets
        PROVE  cs[n][2] \notin Enemies
    <3>1. cs[n] \in TouchPairs
      BY DEF Contacts
    <3>2. cs[n][1] # Player
      BY <2>2, KindsAreDisjoint
    <3>3. cs[n][2] \in Touchable(cs[n][1])
      BY <3>1, <3>2 DEF TouchPairs
    <3>4. bullet[cs[n][1]] # "player"
      BY <2>2 DEF DownInv, NoPlayerBulletWhileDown
    <3> QED
      BY <3>3, <3>4, KindsAreDisjoint DEF Touchable
  <2>3. respawning => \A e \in Enemies : ~hit'[e]
    BY <2>1, <2>2
  <2> QED
    BY <1>6, <2>3 DEF CollisionSystem
<1>7. CASE DamageSystem
  <2>1. \A e \in Enemies : ehp'[e] = ehp[e] \/ ehp'[e] = ehp[e] - 1
    BY <1>7 DEF DamageSystem, BulletDamage
  <2>2. \A e \in Enemies : ehp'[e] <= SpawnHp(e)
    BY <2>1, SpawnHpPositive
  <2>3. ~pending' /\ \A e \in Enemies : ~hit'[e]
    BY <1>7 DEF DamageSystem, DropIntents
  <2> QED
    BY <2>2, <2>3
<1>8. CASE HealthSystem
  BY <1>8 DEF HealthSystem
<1>9. CASE RespawnSystem
  <2>1. ~pending' /\ \A e \in Enemies : ~hit'[e]
    BY <1>9 DEF RespawnSystem
  <2>2. \A e \in Enemies : ehp'[e] = ehp[e] \/ ehp'[e] = SpawnHp(e)
    BY <1>9 DEF RespawnSystem, BeginRespawn, KeepFlickering, Revive, ComesBack, NoRespawn
  <2>3. \A e \in Enemies : ehp'[e] <= SpawnHp(e)
    BY <2>2, SpawnHpPositive
  <2> QED
    BY <2>1, <2>3
<1>10. CASE BossAnimSystem
  BY <1>10 DEF BossAnimSystem
<1>11. CASE ProjectileCullSystem
  BY <1>11 DEF ProjectileCullSystem
<1>12. CASE UNCHANGED vars
  BY <1>12 DEF vars
<1> QED
  BY <1>1, <1>2, <1>3, <1>4, <1>5, <1>6, <1>7, <1>8, <1>9, <1>10, <1>11,
     <1>12 DEF Next

LEMMA HitCorrect == Spec => []HitInv
<1>1. Init => HitInv
  BY SpawnHpPositive DEF Init, HitInv, NoStaleDamage
<1>2. TypeOK /\ DownInv /\ HitInv /\ [Next]_vars => HitInv'
  BY HitStep
<1> QED
  BY <1>1, <1>2, DownCorrect, TypeCorrect, PTL DEF Spec

(* A hit that met i-frames is forgotten in the frame it was dealt.         *)
THEOREM IntentsAreFresh == Spec => []NoStaleDamage
<1>1. HitInv => NoStaleDamage
  BY DEF HitInv
<1> QED
  BY <1>1, HitCorrect, PTL

(* No step takes health from an enemy while the player is down.            *)
THEOREM EnemiesRestWhileDown == Spec => EnemiesUnhurtWhileDown
<1>1. TypeOK /\ HitInv /\ [Next]_vars
        => [respawning => \A e \in Enemies : ehp'[e] >= ehp[e]]_vars
  <2> SUFFICES ASSUME TypeOK, HitInv, [Next]_vars, respawning, NEW e \in Enemies
               PROVE  ehp'[e] >= ehp[e]
    OBVIOUS
  <2>1. ehp[e] \in Int /\ SpawnHp(e) \in Int /\ ~hit[e] /\ ehp[e] <= SpawnHp(e)
    BY SpawnHpPositive DEF TypeOK, EnemyTypeOK, HitInv
  <2>2. CASE DamageSystem
    BY <2>1, <2>2 DEF DamageSystem
  <2>3. CASE RespawnSystem
    <3>1. CASE Revive
      <4>1. ehp'[e] = ehp[e] \/ ehp'[e] = SpawnHp(e)
        BY <3>1 DEF Revive, ComesBack
      <4> QED
        BY <2>1, <4>1
    <3>2. CASE ~Revive
      <4>1. ehp' = ehp
        BY <2>3, <3>2
           DEF RespawnSystem, BeginRespawn, KeepFlickering, NoRespawn
      <4> QED
        BY <2>1, <4>1
    <3> QED
      BY <3>1, <3>2
  <2>4. CASE \/ InputSystem \/ AiSystem \/ BossSystem \/ MovementSystem
             \/ ShootingSystem \/ CollisionSystem \/ HealthSystem
             \/ BossAnimSystem \/ ProjectileCullSystem \/ UNCHANGED vars
    <3>1. ehp' = ehp
      BY <2>4 DEF InputSystem, AiSystem, BossSystem, MovementSystem,
           ShootingSystem, CollisionSystem, HealthSystem, BossAnimSystem,
           ProjectileCullSystem, vars
    <3> QED
      BY <2>1, <3>1
  <2> QED
    BY <2>2, <2>3, <2>4 DEF Next
<1> QED
  BY <1>1, HitCorrect, TypeCorrect, PTL DEF Spec, EnemiesUnhurtWhileDown

-----------------------------------------------------------------------------
(* A dying boss is out of the game before the respawn can heal it.         *)
LEMMA ZombieStep ==
  ASSUME TypeOK, ShieldInv, HitInv, ZombieInv, [Next]_vars PROVE ZombieInv'
<1> SUFFICES ASSUME NEW b \in Bosses, alive'[b]
             PROVE  /\ dieClock'[b] < DieTicks
                    /\ dying'[b] => ehp'[b] <= 0
                    /\ phase' # "health" \/ respawning'
                         => (ehp'[b] <= 0 => dying'[b])
                    /\ dying'[b] /\ respawning' =>
                         dieClock'[b] + flicker' >=
                           FlickerTicks + (IF phase' = "bossAnim" THEN 0 ELSE 1)
  BY DEF ZombieInv
<1>a. /\ b \in Enemies /\ ehp[b] \in Int /\ SpawnHp(b) \in Nat \ {0}
      /\ dieClock[b] \in Nat /\ flicker \in Int
      /\ dying[b] \in BOOLEAN /\ respawning \in BOOLEAN
      /\ FlickerTicks \in Nat \ {0} /\ DieTicks \in Nat \ {0}
  BY SpawnHpPositive, AIAssumption, TimerAssumption
     DEF TypeOK, CountersOK, FlagsOK, EnemyTypeOK, Enemies
<1>b. alive[b] => /\ dieClock[b] < DieTicks
                  /\ dying[b] => ehp[b] <= 0
                  /\ phase # "health" \/ respawning => (ehp[b] <= 0 => dying[b])
                  /\ dying[b] /\ respawning =>
                       dieClock[b] + flicker >=
                         FlickerTicks + (IF phase = "bossAnim" THEN 0 ELSE 1)
  BY DEF ZombieInv
<1> USE DEF Then
<1>1. CASE \/ InputSystem \/ AiSystem \/ BossSystem \/ MovementSystem
           \/ ShootingSystem \/ CollisionSystem \/ ProjectileCullSystem
           \/ UNCHANGED vars
  <2>1. /\ UNCHANGED <<ehp, respawning, flicker, dying, dieClock>>
        /\ phase # "bossAnim" /\ phase # "health" /\ phase' # "bossAnim"
        \/ UNCHANGED vars
    BY <1>1 DEF InputSystem, AiSystem, BossSystem, MovementSystem,
         ShootingSystem, CollisionSystem, ProjectileCullSystem
  <2>2. alive[b]
    BY <1>1, <1>a DEF InputSystem, AiSystem, BossSystem, MovementSystem,
         ShootingSystem, CollisionSystem, ProjectileCullSystem, vars
  <2> QED
    BY <1>a, <1>b, <2>1, <2>2 DEF vars
<1>2. CASE DamageSystem
  <2>1. /\ UNCHANGED <<alive, respawning, flicker, dying, dieClock>>
        /\ phase = "damage" /\ phase' = "health"
        /\ ehp'[b] = ehp[b] \/ ehp'[b] = ehp[b] - 1
        /\ respawning => ehp'[b] = ehp[b]
    BY <1>2, <1>a DEF DamageSystem, BulletDamage, HitInv
  <2> QED
    BY <1>a, <1>b, <2>1
<1>3. CASE HealthSystem
  <2>1. /\ UNCHANGED <<ehp, respawning, flicker, dieClock>> /\ alive[b]
        /\ phase = "health" /\ phase' = "respawn"
        /\ dying'[b] <=> dying[b] \/ ehp[b] <= 0
    BY <1>3, <1>a DEF HealthSystem, Spent
  <2>2. respawning /\ ehp[b] <= 0 => dying[b]
    BY <1>b, <2>1
  <2> QED
    BY <1>a, <1>b, <2>1, <2>2
<1>4. CASE RespawnSystem
  <2>1. phase = "respawn" /\ phase' = "bossAnim" /\ UNCHANGED <<dying, dieClock>>
    BY <1>4 DEF RespawnSystem
  <2>2. CASE Revive
    <3>1. alive[b] /\ ehp'[b] = SpawnHp(b) /\ ~respawning' /\ respawning
      BY <1>a, <2>2, KindsAreDisjoint DEF Revive, ComesBack, AIEnemies
    <3>2. flicker <= 1
      BY <1>a, <2>2 DEF Revive
    <3>3. ~dying[b]
      BY <1>a, <1>b, <2>1, <3>1, <3>2, ClipAssumption
    <3> QED
      BY <1>a, <1>b, <2>1, <3>1, <3>3
  <2>3. CASE BeginRespawn
    BY <1>a, <1>b, <2>1, <2>3 DEF BeginRespawn
  <2>4. CASE KeepFlickering
    BY <1>a, <1>b, <2>1, <2>4 DEF KeepFlickering
  <2>5. CASE NoRespawn
    BY <1>a, <1>b, <2>1, <2>5 DEF NoRespawn
  <2> QED
    BY <1>4, <2>2, <2>3, <2>4, <2>5 DEF RespawnSystem
<1>5. CASE BossAnimSystem
  <2>1. /\ UNCHANGED <<ehp, respawning, flicker, dying>>
        /\ phase = "bossAnim" /\ phase' = "cull"
        /\ alive[b] /\ b \notin Buried
        /\ dieClock'[b] = IF dying[b] THEN dieClock[b] + 1 ELSE dieClock[b]
    BY <1>5, <1>a DEF BossAnimSystem, ClipTick
  <2>2. dying[b] => dieClock[b] + 1 < DieTicks
    BY <1>a, <2>1 DEF Buried, ClipTick
  <2> QED
    BY <1>a, <1>b, <2>1, <2>2
<1> QED
  BY <1>1, <1>2, <1>3, <1>4, <1>5 DEF Next

(* The respawn that heals every boss, whatever its state, never reaches one*)
(* that plays its death clip.                                              *)
THEOREM DyingBossStaysSpent == Spec => []NoZombieBoss
<1>1. Init => ZombieInv
  BY SpawnHpPositive, AIAssumption DEF Init, ZombieInv, Enemies
<1>2. TypeOK /\ ShieldInv /\ HitInv /\ ZombieInv /\ [Next]_vars => ZombieInv'
  BY ZombieStep
<1>3. ZombieInv => NoZombieBoss
  BY DEF ZombieInv, NoZombieBoss
<1> QED
  BY <1>1, <1>2, <1>3, HitCorrect, ShieldCorrect, TypeCorrect, PTL DEF Spec

-----------------------------------------------------------------------------
(* A player below the map has a DamageIntent whenever damageSystem looks.  *)
FallInv == below /\ phase \in {"shooting", "collision", "damage"} => pending

LEMMA FallStep == ASSUME FallInv, [Next]_vars PROVE FallInv'
<1> USE DEF FallInv, Then
<1>1. CASE MovementSystem
  BY <1>1 DEF MovementSystem, Falls
<1>2. CASE ShootingSystem
  BY <1>2 DEF ShootingSystem, intentVars
<1>3. CASE CollisionSystem
  <2>1. /\ phase = "collision" /\ below' = below
        /\ pending' = TRUE \/ pending' = pending
    BY <1>3 DEF CollisionSystem, playerVars
  <2> QED
    BY <2>1
<1>4. CASE UNCHANGED vars
  BY <1>4 DEF vars, playerVars, intentVars
<1>5. phase' \in {"shooting", "collision", "damage"}
        => MovementSystem \/ ShootingSystem \/ CollisionSystem \/ UNCHANGED vars
  BY DEF Next, InputSystem, AiSystem, BossSystem, MovementSystem, ShootingSystem,
         CollisionSystem, DamageSystem, HealthSystem, RespawnSystem,
         BossAnimSystem, ProjectileCullSystem
<1> QED
  BY <1>1, <1>2, <1>3, <1>4, <1>5

(* A fallen player loses health in every frame that does not find it       *)
(* shielded, whatever touches it on the way.                               *)
THEOREM FallsHurt == Spec => FallHurts
<1>1. Init => FallInv
  BY DEF Init, FallInv
<1>2. FallInv /\ [Next]_vars => FallInv'
  BY FallStep
<1>3. TypeOK /\ ShieldInv /\ FallInv /\ [Next]_vars
        => [DamageSystem /\ below /\ hp > 0 => hp' < hp \/ invulnerable]_vars
  <2> SUFFICES ASSUME TypeOK, ShieldInv, FallInv, DamageSystem, below, hp > 0,
                      ~invulnerable
               PROVE  hp' < hp
    BY DEF TypeOK, FlagsOK
  <2>1. pending /\ amount > 0
    BY DEF DamageSystem, Then, FallInv, ShieldInv
  <2>2. hp' = hp - amount
    BY <2>1 DEF DamageSystem, Hurts
  <2> QED
    BY <2>1, <2>2 DEF TypeOK, CountersOK
<1> QED
  BY <1>1, <1>2, <1>3, TypeCorrect, ShieldCorrect, PTL DEF Spec, FallHurts

-----------------------------------------------------------------------------
(* The clock of a death clip stands still until the boss starts to die.    *)
ClockInv == \A b \in Bosses : ~dying[b] => dieClock[b] = 0

LEMMA ClockStep == ASSUME TypeOK, ClockInv, [Next]_vars PROVE ClockInv'
<1>1. CASE UNCHANGED bossVars
  BY <1>1 DEF ClockInv, bossVars
<1>2. CASE HealthSystem
  BY <1>2 DEF HealthSystem, ClockInv, TypeOK, EnemyTypeOK
<1>3. CASE BossAnimSystem
  BY <1>3 DEF BossAnimSystem, ClockInv, TypeOK, EnemyTypeOK
<1> QED
  BY <1>1, <1>2, <1>3
  DEF Next, InputSystem, AiSystem, BossSystem, MovementSystem, ShootingSystem,
      CollisionSystem, DamageSystem, RespawnSystem, ProjectileCullSystem, vars

(* What one step does to one boss: its dying, its clock, its end.          *)
LEMMA BossStep ==
  ASSUME TypeOK, ClockInv, ZombieInv, [Next]_vars, NEW b \in Bosses
  PROVE  \/ UNCHANGED <<alive[b], dying[b], dieClock[b]>>
         \/ alive[b] /\ ~alive'[b] /\ UNCHANGED <<dying[b], dieClock[b]>>
         \/ /\ alive[b] /\ alive'[b] /\ ~dying[b] /\ dying'[b]
            /\ dieClock[b] = 0 /\ dieClock'[b] = 0
         \/ /\ alive[b] /\ dying[b] /\ dying'[b] /\ dieClock'[b] = dieClock[b] + 1
            /\ alive'[b] <=> dieClock[b] + 1 < DieTicks
<1>a. /\ b \in Enemies /\ b \notin AIEnemies /\ b \notin Locksters
      /\ alive[b] \in BOOLEAN /\ dying[b] \in BOOLEAN /\ dieClock[b] \in Nat
  BY KindsAreDisjoint DEF TypeOK, EnemyTypeOK, Enemies, AIEnemies
<1>1. CASE UNCHANGED <<alive, bossVars>>
  BY <1>1 DEF bossVars
<1>2. CASE MovementSystem
  <2>1. UNCHANGED <<dying[b], dieClock[b]>>
    BY <1>2 DEF MovementSystem, bossVars
  <2>2. alive'[b] \in BOOLEAN /\ (alive'[b] => alive[b])
    BY <1>2, <1>a DEF MovementSystem
  <2> QED
    BY <1>a, <2>1, <2>2
<1>3. CASE HealthSystem
  <2>1. /\ alive'[b] = alive[b] /\ dieClock'[b] = dieClock[b]
        /\ dying'[b] = (dying[b] \/ Spent(b))
    BY <1>3, <1>a DEF HealthSystem
  <2> QED
    BY <1>a, <2>1 DEF Spent, ClockInv
<1>4. CASE RespawnSystem
  <2>1. UNCHANGED <<dying[b], dieClock[b]>>
    BY <1>4 DEF RespawnSystem, bossVars
  <2>2. alive'[b] = alive[b]
    BY <1>4, <1>a DEF RespawnSystem, BeginRespawn, KeepFlickering, Revive,
                      ComesBack, NoRespawn, enemyVars
  <2> QED
    BY <2>1, <2>2
<1>5. CASE BossAnimSystem
  <2>1. /\ dying'[b] = dying[b]
        /\ dieClock'[b] = IF alive[b] /\ dying[b] THEN dieClock[b] + 1 ELSE dieClock[b]
        /\ alive'[b] <=> alive[b] /\ b \notin Buried
        /\ alive'[b] \in BOOLEAN
    BY <1>5, <1>a DEF BossAnimSystem, ClipTick
  <2>2. b \in Buried <=> alive[b] /\ dying[b] /\ dieClock[b] + 1 >= DieTicks
    BY DEF Buried, ClipTick
  <2>3. CASE alive[b] /\ dying[b]
    <3>1. alive'[b] <=> ~(dieClock[b] + 1 >= DieTicks)
      BY <2>1, <2>2, <2>3, Zenon
    <3>2. DieTicks \in Nat
      BY AIAssumption
    <3>3. alive'[b] <=> dieClock[b] + 1 < DieTicks
      BY <1>a, <3>1, <3>2
    <3> QED
      BY <1>a, <2>1, <2>3, <3>3, Zenon
  <2>4. CASE ~(alive[b] /\ dying[b])
    <3>1. b \notin Buried
      BY <2>2, <2>4
    <3> QED
      BY <1>a, <2>1, <2>4, <3>1
  <2> QED
    BY <2>3, <2>4
<1> QED
  BY <1>1, <1>2, <1>3, <1>4, <1>5
  DEF Next, InputSystem, AiSystem, BossSystem, ShootingSystem, CollisionSystem,
      DamageSystem, ProjectileCullSystem, enemyVars, vars

(* Every boss ends as BossLife says, whatever the player, the other enemies*)
(* and the respawns do.                                                    *)
THEOREM BossesImplementBossLife == Spec => BossesEnd
<1>1. Init => \A b \in Bosses : End(b)!Init
  BY KindsAreDisjoint DEF Init, End!Init, Enemies
<1>2. TypeOK /\ ClockInv /\ ZombieInv /\ [Next]_vars
        => \A b \in Bosses : [End(b)!Next]_(End(b)!vars)
  <2> SUFFICES ASSUME TypeOK, ClockInv, ZombieInv, [Next]_vars, NEW b \in Bosses
               PROVE  [End(b)!Next]_(End(b)!vars)
    OBVIOUS
  <2>1. /\ alive[b] \in BOOLEAN /\ dying[b] \in BOOLEAN /\ dieClock[b] \in Nat
        /\ alive[b] => dieClock[b] < DieTicks
        /\ DieTicks \in Nat
    BY AIAssumption DEF TypeOK, EnemyTypeOK, Enemies, ZombieInv
  <2>2. CASE UNCHANGED <<alive[b], dying[b], dieClock[b]>>
    BY <2>2 DEF End!vars
  <2>3. CASE alive[b] /\ ~alive'[b] /\ UNCHANGED <<dying[b], dieClock[b]>>
    BY <2>1, <2>3 DEF End!Next, End!Fall, End!Leave
  <2>4. CASE /\ alive[b] /\ alive'[b] /\ ~dying[b] /\ dying'[b]
             /\ dieClock[b] = 0 /\ dieClock'[b] = 0
    BY <2>4 DEF End!Next, End!Spend
  <2>5. CASE /\ alive[b] /\ dying[b] /\ dying'[b] /\ dieClock'[b] = dieClock[b] + 1
             /\ alive'[b] <=> dieClock[b] + 1 < DieTicks
    <3>1. CASE alive'[b]
      BY <2>1, <2>5, <3>1 DEF End!Next, End!Tick
    <3>2. CASE ~alive'[b]
      BY <2>1, <2>5, <3>2 DEF End!Next, End!Bury, End!Leave
    <3> QED
      BY <3>1, <3>2
  <2> QED
    BY <2>2, <2>3, <2>4, <2>5, BossStep
<1>3. Init => ClockInv /\ ZombieInv
  BY SpawnHpPositive, AIAssumption DEF Init, ClockInv, ZombieInv, Enemies
<1>4. TypeOK /\ ShieldInv /\ HitInv /\ ClockInv /\ ZombieInv /\ [Next]_vars
        => ClockInv' /\ ZombieInv'
  BY ClockStep, ZombieStep
<1> QED
  BY <1>1, <1>2, <1>3, <1>4, HitCorrect, ShieldCorrect, TypeCorrect, PTL
  DEF Spec, BossesEnd

(* A frame implements the life of the player and of every boss.            *)
THEOREM ImplementsLives == Spec => LivesSpec
  BY ImplementsPlayerLife, BossesImplementBossLife DEF LivesSpec
=============================================================================
