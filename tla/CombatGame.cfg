SPECIFICATION Spec
CONSTANTS
  Player = player
  World = world
  Locksters = {l1}
  Patrollers = {}
  Bosses = {boss1}
  Bullets = {b1}
  MaxContacts = 2
  MaxHp = 3
  LocksterHp = 1
  PatrollerHp = 2
  BossHp = 2
  HitIframes = 5
  RespawnIframes = 2
  FreezeFrames = 3
  FlickerTicks = 3
  AlertTicks = 1
  BurstFrames = 2
  BurstCooldown = 3
  ShootCooldown = 1
  DieTicks = 3
INVARIANTS
  RespawnShield
  NoZombieBoss
PROPERTIES
  LivesSpec
  FallHurts
  FallIsFatal
  DeadIsRevived
