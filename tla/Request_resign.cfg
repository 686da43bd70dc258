SPECIFICATION Spec
CONSTANTS
  Provider <- MCProvider
  NoProvider = NoProvider
  NoOne = NoOne
  Caller = {"c1"}
  NoEndpoint = {}
  Anonymous = {}
  ConfigMaxRetries <- MCDefaultRetries
  DefaultMaxRetries = 3
  BodyLen = 1
  Nil = Nil
INVARIANTS RetryResigned
CHECK_DEADLOCK FALSE
