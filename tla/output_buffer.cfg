CONSTANTS
  MaxBuff = 8
  BasicBlock = 2
  SizeT = 64
  Sizes = {1, 3}
  Labels = 5
SPECIFICATION Spec
CHECK_DEADLOCK FALSE
INVARIANTS IInv BytesInOrder MemoryMatchesRecord NoOverrun
