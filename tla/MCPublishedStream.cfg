CONSTANTS
  Publisher = {p1, p2}
  SrtSubscriber = {s1}
  WebSubscriber = {w1}
  ApiRequest = {a1}
  Name = {n1, n2}
  MaxPublishers = 0
  MaxSubscribers = 1
  MaxWebSendFails = 0
  UintSize = 8
  None = None
SPECIFICATION Spec
SYMMETRY Symmetry
INVARIANTS
  NoCircularWait
  NoUseAfterFree
  QuietWhenDestroyed
  NamesUnique
  SubscribersBounded
  CountReadIsExact
  ConnectionsAccountedFor
  IInv
PROPERTY ImplementsDirectory
