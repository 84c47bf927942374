SPECIFICATION Spec
CONSTANTS
  Packed = {packed}
  Stack = {stack}
  Sparse = {sparse}
  Values = {v1, v2}
  CallbackOnDelete = TRUE
  RemovesComponents = TRUE
  InitialEntities = 1
  MaxIds = 2
  MaxSlots = 2
SYMMETRY Symmetry
INVARIANTS
  SlotsApart
  CellsInBounds
PROPERTIES
  StoreSpec
