CONSTANTS
  Clients = {c1, c2}
  Loop = loop
  NoThread = none
  Query = {q1, q2, q3, q4}
  NoQuery = noq
  FromCallback = {q4}
  MaxQueue = 0
  MaxBatch = 1
  CanBreak = TRUE

SPECIFICATION FairSpec

INVARIANTS
  IInv
  SendedMatchesWire
  OneBatch
  WaiterHasCause
  OwnAnswer
  SendedDrains
PROPERTIES
  ImplementsService
  SendedIsAnswered

\* The processor ends with its destructor or with an exception.
CHECK_DEADLOCK FALSE
