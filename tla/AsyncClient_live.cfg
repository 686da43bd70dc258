SPECIFICATION LiveSpec
CONSTANTS
  Producer = {p1}
  Stopper = {}
  Log = {"third", "tiny", "utf8", "keys"}
  Size <- MCSize
  BadUtf8 = {"utf8"}
  OverLimit = {"keys"}
  MaxLogSize = 3000000
  MaxLogGroupSize = 3000000
  LogGroupSizeToSend = 2000000
  MaxBulkSize = 2
  QueueSize = 1
  DefaultQueueSize = 2048
  DropIfPoolNotExists = FALSE
  MaxPushes = 3
  Nil = Nil
  NoEvent = NoEvent
PROPERTIES LogSettled PushLogReturns
CHECK_DEADLOCK FALSE
