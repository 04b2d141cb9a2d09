CONSTANTS
  Publisher = {p1, p2}
  SrtSubscriber = {s1}
  WebSubscriber = {}
  ApiRequest = {a1}
  Name = {n1, n2}
  MaxPublishers = 1
  MaxSubscribers = 1
  MaxWebSendFails = 0
  UintSize = 8
  None = None
SPECIFICATION FairSpec
INVARIANT PublishersCounted
PROPERTIES
  RemovalCompletes
  ClientsServed
