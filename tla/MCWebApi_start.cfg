CONSTANTS
  Request = {r1, r2}
  Timer = timer
  Stream = {n1}
  List = {l1, l2, l3}
  MaxInstances = 2
  None = None
SPECIFICATION Spec
INVARIANT AnsweredBeforeFirstList
CHECK_DEADLOCK FALSE
