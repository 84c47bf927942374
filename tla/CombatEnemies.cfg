SPECIFICATION Spec
CONSTANTS
  Player = player
  World = world
  Locksters = {l1}
  Patrollers = {p1}
  Bosses = {}
  Bullets = {b1, b2}
  MaxContacts = 2
  MaxHp = 3
  LocksterHp = 1
  PatrollerHp = 2
  BossHp = 2
  HitIframes = 5
  RespawnIframes = 2
  FreezeFrames = 3
  FlickerTicks = 3
  AlertTicks = 2
  BurstFrames = 2
  BurstCooldown = 3
  ShootCooldown = 1
  DieTicks = 3
SYMMETRY Symmetry
INVARIANTS
  NoPlayerBulletWhileDown
  FreezeInsideShield
  NoStaleDamage
  BurstClockwork
PROPERTIES
  EnemiesUnhurtWhileDown
