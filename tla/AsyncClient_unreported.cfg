SPECIFICATION Spec
CONSTANTS
  Producer = {p1}
  Stopper = {s1}
  Log = {"tiny"}
  Size <- MCSize
  BadUtf8 = {}
  OverLimit = {}
  MaxLogSize = 3000000
  MaxLogGroupSize = 3000000
  LogGroupSizeToSend = 2000000
  MaxBulkSize = 2
  QueueSize = 1
  DefaultQueueSize = 2048
  DropIfPoolNotExists = FALSE
  MaxPushes = 3
  Nil = Nil
  NoEvent = NoEvent
INVARIANTS EveryLogReported
CHECK_DEADLOCK FALSE
