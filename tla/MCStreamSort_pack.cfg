CONSTANTS
  MaxLen = 5
  MaxCount = 3
  NameSize <- FiveSizes
  NameRoom = 2
SPECIFICATION Spec
INVARIANT SingleAllocation
CHECK_DEADLOCK FALSE
