SPECIFICATION Spec
CONSTANTS
  Textures <- MCTextures
  Maps <- MCMaps
  Absent <- MCAbsent
  GameFrame = 4
  WorkTimes = {1, 3, 9}
  MaxOversleep = 1
  MaxLag = 12
CHECK_DEADLOCK FALSE
INVARIANTS
  ValidMeansComplete
