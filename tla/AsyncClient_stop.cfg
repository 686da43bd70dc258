SPECIFICATION StopSpec
CONSTANTS
  Producer = {p1}
  Stopper = {s1, s2}
  Log = {"third", "utf8"}
  Size <- MCSize
  BadUtf8 = {"utf8"}
  OverLimit = {}
  MaxLogSize = 3000000
  MaxLogGroupSize = 3000000
  LogGroupSizeToSend = 2000000
  MaxBulkSize = 2
  QueueSize = 1
  DefaultQueueSize = 2048
  DropIfPoolNotExists = FALSE
  MaxPushes = 2
  Nil = Nil
  NoEvent = NoEvent
INVARIANTS StopWaits
PROPERTIES StopTerminates ImplementsWorker
CHECK_DEADLOCK FALSE
