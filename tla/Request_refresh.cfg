SPECIFICATION Spec
CONSTANTS
  Provider <- MCProvider
  NoProvider = NoProvider
  NoOne = NoOne
  Caller = {"c1"}
  NoEndpoint = {}
  Anonymous = {}
  ConfigMaxRetries <- MCNoRetries
  DefaultMaxRetries = 3
  BodyLen = 1
  Nil = Nil
INVARIANTS ExpiredTokenRefreshes
CHECK_DEADLOCK FALSE
