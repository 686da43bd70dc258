SPECIFICATION Spec
CONSTANTS
  Producer = {p1, p2}
  Stopper = {s1}
  Log = {"tiny", "utf8", "keys"}
  Size <- MCSize
  BadUtf8 = {"utf8"}
  OverLimit = {"keys"}
  MaxLogSize = 3000000
  MaxLogGroupSize = 3000000
  LogGroupSizeToSend = 2000000
  MaxBulkSize = 2
  QueueSize = 2
  DefaultQueueSize = 2048
  DropIfPoolNotExists = TRUE
  MaxPushes = 3
  Nil = Nil
  NoEvent = NoEvent
INVARIANTS NilMeansStored ProducerOrder DropJustified
PROPERTIES ImplementsDelivery BusyRetryShrinks
SYMMETRY Symm
CHECK_DEADLOCK FALSE
