CONSTANTS
  Name = {n1, n2}
  Undecodable = {n2}
  Malformed = {n2}
  Player = {v1, v2, v3}
  MaxPending = 3
  Fetch = {f1, f2, f3}
  None = None
SPECIFICATION PageSpec
INVARIANTS
  PageAgrees
  OnlyPlaysNewest
  ReplayAsksForSame
PROPERTY PageFollowsServer
