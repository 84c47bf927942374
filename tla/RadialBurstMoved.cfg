SPECIFICATION Spec
CONSTANTS
  LastShooter = 1
  Places = {here, there}
  BurstBullets = 3
  InitialEntities = 3
  MaxBullets = 8
PROPERTIES
  BurstStartsAtShooter
