SPECIFICATION Spec
CONSTANTS
  Levels <- MCLevels
  Heights = {0, 4}
  Beyond = 2
  PatrolSpeed = 1
  CenterTol = 1
  BurstFrames = 2
  BurstCooldown = 5
  ChargeSpeed = 2
  Reach = 2
  AlertTicks = 3
  Strides <- MCStrides
  PatrolRange = 5
  AlertRange = 4
  YMargin = 2
  NestTol = 2
  Knocks <- MCKnocks
  HalfView = 4
  CullMargin = 1
  ShotSpeed = 5
  BurstSpeed = 3
  FreezeFrames = 2
  FlickerTicks = 3
INVARIANTS
  PatrolBounded
  CheckpointIsRightmost
PROPERTIES
  PlayerInView
  LockstersBack
  MarksNotMissed
  PatrolGoesOn
  BurstComes
  ChargeEnds
  ShotsLeave
