SPECIFICATION Spec
CONSTANTS
  Requests = {r1, r2}
  RequestTimeout = 2
  ReadinessTimeout = 1
  ShutdownTimeout = 3
  MaxSignals = 3
INVARIANTS RuntimeTypeOK CleanupBeforeDatabase PublicRequestsFinish ReadyAnswersEnd 
PROPERTY Terminates
