CONSTANTS
  Clients = {c1, c2}
  Loop = loop
  NoThread = none
  Query = {q1, q2}
  NoQuery = noq
  FromCallback = {}
  MaxBuff = 5
  CanBreak = FALSE
SPECIFICATION FairSpec
CHECK_DEADLOCK FALSE
PROPERTY EveryQueryAnswered
