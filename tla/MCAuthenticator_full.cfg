CONSTANTS
  Caller = {t1, t2, t3, t4}
  MaxPending = 2
  UintSize = 8
SPECIFICATION Spec
SYMMETRY Symmetry
INVARIANT RefusedOnlyWhenFull
