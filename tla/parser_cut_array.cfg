CONSTANTS
  MaxBuff = 40
  BasicBlock = 4
  SizeT = 1024
  ReadSize = 6
  MemSize = 48
  NestedArray <- InitArray
  Streams <- MCPair
  Junk <- MCJunk
SPECIFICATION Spec
CHECK_DEADLOCK FALSE
INVARIANT NeverRefused
