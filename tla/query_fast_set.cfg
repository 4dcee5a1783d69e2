CONSTANTS
  MaxBuff = 40
  BasicBlock = 4
  SizeT = 1024
  ReadSize = 6
  MemSize = 48
  NestedArray <- InitArray
  Streams <- MCFastSet
  Junk <- MCJunk

SPECIFICATION Spec

INVARIANTS
  RepliesInOrder

\* The stream ends.
CHECK_DEADLOCK FALSE
