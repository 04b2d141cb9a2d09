CONSTANTS
  Request = {r1, r2, r3}
  Timer = timer
  Stream = {n1}
  List = {l1, l2, l3}
  MaxInstances = 2
  None = None
SPECIFICATION FairSpec
INVARIANTS
  ReachableIsAllocated
  NothingLeaked
  CountsExact
  InstancesBounded
PROPERTIES
  ImplementsListCache
  ListFollowsRegistry
CHECK_DEADLOCK FALSE
