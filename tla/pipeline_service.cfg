CONSTANTS
  Clients = {c1, c2}
  Loop = loop
  NoThread = none
  Query = {q1, q2, q3, q4}
  NoQuery = noq
  FromCallback = {q4}
  MaxBuff = 3
  CanBreak = FALSE
SPECIFICATION Spec
CHECK_DEADLOCK FALSE
SYMMETRY Symmetry
INVARIANTS ServiceInv CallbacksMatchQueries OneWriter WaiterHasCause StopDrains WireIsTimed
PROPERTY ImplementsService
