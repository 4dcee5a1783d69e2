CONSTANTS
  Servers = {"m", "s1", "s2", "bad", "slow"}
  Slow = {"slow"}
  MasterServer = "m"
  BadAddress = {"bad"}
  MaxSockets = 8
  Calls <- MCCalls
  MaxRequests = 2

SPECIFICATION FairSpec

INVARIANTS
  SocketsNotShared
  TimerGuardsAttempt
  ConfirmedOnceInTime
  ConnectedIsComplete
  QueryFindsProcessor
  RequestIsPending
  LoopOutlivesClient
PROPERTIES
  DestructorReturns

\* The application stops calling, or destroys the client.
CHECK_DEADLOCK FALSE
