CONSTANTS
  MaxBuff = 80
  BasicBlock = 4
  SizeT = 1024
  ReadSize = 6
  MemSize = 92
  NestedArray <- InitArray
  Streams <- MCStreams
  Junk <- MCJunk
SPECIFICATION Spec
CHECK_DEADLOCK FALSE
INVARIANTS ParserInv RepliesInOrder NothingHeldBack RefusedBetweenRecords OverflowNeedsLongReply
