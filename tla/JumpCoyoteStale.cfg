SPECIFICATION Spec
CONSTANTS
  Dt = 50
  CoyoteTime = 120
  BufferTime = 30
  MaxOff = 5
PROPERTIES
  CoyoteWithoutJump
