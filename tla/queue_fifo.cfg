CONSTANTS
  Threads = {t1, t2, t3}
  NoThread = none
  Node = {n1, n2, n3, n4}
  NoNode = nil
  Value = {v1, v2}
  NoValue = nov
SPECIFICATION Spec
SYMMETRY Symmetry
INVARIANTS ListIsSound SizeCountsItems
PROPERTY ImplementsFifo
