SPECIFICATION WireSpec
CONSTANTS
  Provider <- MCProvider
  NoProvider = NoProvider
  NoOne = NoOne
  Caller = {"c1", "c2", "c3"}
  NoEndpoint <- MCNoEndpoint
  Anonymous <- MCAnonymous
  ConfigMaxRetries <- MCMaxRetries
  DefaultMaxRetries = 3
  BodyLen = 1
  Nil = Nil
  Given <- MCGiven
INVARIANTS WireTypeOK WholeBody RetriesJustified LastWord ErrorBodiesClosed ExpireKept
INVARIANTS FramedAsSent SignedAsSent ConfigHonoured MutexReleased
PROPERTIES SendReturns SendProgresses
CHECK_DEADLOCK FALSE
