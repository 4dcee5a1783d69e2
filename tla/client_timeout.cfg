CONSTANTS
  Servers = {"m", "s1", "s2", "bad", "slow"}
  Slow = {"slow"}
  MasterServer = "m"
  BadAddress = {"bad"}
  MaxSockets = 8
  Calls <- MCSlowCall
  MaxRequests = 1
SPECIFICATION Spec
CHECK_DEADLOCK FALSE
INVARIANT ConfirmedOnce
