CONSTANTS
  Conn = {c1, c2}
  Fd = {f1, f2}
  ReadSize <- MCReadSize
  BufSize = 1023
  MinRead = 256
  MinRequest = 18
  MaxWebSendFails = 0
  None = None
SPECIFICATION FairSpec
INVARIANTS
  OwnDescriptor
  UnderrunIsHarmless
PROPERTIES
  NeverEndedAfterData
  SlowWatchersSettle
  ThreadsEnd
CHECK_DEADLOCK FALSE
