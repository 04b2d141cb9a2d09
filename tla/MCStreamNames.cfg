CONSTANTS
  n1 = n1
  n2 = n2
  n3 = n3
  n4 = n4
  Publisher = {p1, p2}
  SrtSubscriber = {}
  WebSubscriber = {}
  ApiRequest = {}
  Name = {n1, n2, n3, n4}
  MaxPublishers = 0
  MaxSubscribers = 0
  MaxWebSendFails = 0
  UintSize = 8
  None = None
  NumBuckets = 2
  Hash <- TwoBuckets
  Unlisted = {n4}
SPECIFICATION SpecNames
INVARIANTS
  ListReflectsMap
  ListedOnce
  RoomForStreams
PROPERTY ImplementsListing
