SPECIFICATION LiveSpec
CONSTANTS
  Client <- MCClient
  Item <- MCPool
  ChanSize = 1
  Pusher = {p1, p2}
  Stopper = {s1}
  Project = {"a"}
  LogPool = {"x", "y"}
  MaxClients = 2
  NoClient = NoClient
  NoPool = NoPool
INVARIANTS TypeOK RightPool OneClientEach StopReaches WaitsForCancelled
PROPERTIES StopEnds
CHECK_DEADLOCK FALSE
