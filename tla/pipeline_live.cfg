CONSTANTS
  Clients = {c1, c2}
  Loop = loop
  NoThread = none
  Query = {q1, q2}
  NoQuery = noq
  FromCallback = {}
  MaxBuff = 5
  CanBreak = TRUE
SPECIFICATION FairSpec
CHECK_DEADLOCK FALSE
INVARIANTS DisconnectDrains PromiseOnce
PROPERTIES ImplementsService FrozenIsAnswered BrokenIsNoticed
