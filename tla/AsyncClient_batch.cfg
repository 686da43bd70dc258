SPECIFICATION Spec
CONSTANTS
  Producer = {p1}
  Stopper = {}
  Log = {"tiny", "third", "max", "huge", "utf8"}
  Size <- MCSize
  BadUtf8 = {"utf8"}
  OverLimit = {}
  MaxLogSize = 3000000
  MaxLogGroupSize = 3000000
  LogGroupSizeToSend = 2000000
  MaxBulkSize = 3
  QueueSize = 0
  DefaultQueueSize = 2
  DropIfPoolNotExists = FALSE
  MaxPushes = 4
  Nil = Nil
  NoEvent = NoEvent
INVARIANTS TypeOK CallbackOnce NothingLost BatchWithinLimits BufSizeExact
CHECK_DEADLOCK FALSE
