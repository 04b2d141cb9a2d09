CONSTANTS
  Conn = {c1, c2}
  Fd = {f1, f2}
  ReadSize <- MCReadSize
  BufSize = 1023
  MinRead = 256
  MinRequest = 18
  MaxWebSendFails = 1
  None = None
SPECIFICATION Spec
CHECK_DEADLOCK FALSE
INVARIANT FailuresWithinLimit
