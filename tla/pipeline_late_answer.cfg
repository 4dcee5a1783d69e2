CONSTANTS
  Clients = {c1, c2}
  Loop = loop
  NoThread = none
  Query = {q1, q2, q3}
  NoQuery = noq
  FromCallback = {}
  MaxBuff = 2
  CanBreak = TRUE
SPECIFICATION Spec
CHECK_DEADLOCK FALSE
SYMMETRY Symmetry
INVARIANT OwnAnswer
