CONSTANTS
  MaxLen = 5
  MaxCount = 3
  NameSize <- FiveSizes
  NameRoom = 2
SPECIFICATION Spec
INVARIANTS
  ScansInBounds
  Sorted
  NamesFit
PROPERTIES
  WorkShrinks
  Terminates
CHECK_DEADLOCK FALSE
