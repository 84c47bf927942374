SPECIFICATION Spec
CONSTANTS
  BossHp = 2
  IdleTicks = 4
  ChargeTicks = 3
  DashTicks = 4
  Shots = 3
  ShootCooldown = 3
  ClipStep = 2
PROPERTIES
  AttacksAlternate
  VolleyIsComplete
  LifeSpec
  AttacksOnTime
  KeepsAttacking
  DyingEnds
