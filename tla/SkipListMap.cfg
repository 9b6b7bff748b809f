CONSTANTS
  t1 = t1
  t2 = t2
  Thread = {t1, t2, t3}
  NoThread = NoThread
  Key = {1, 2}
  Value = {10, 20}
  Absent = Absent
  MaxLevel = 2
  Node = {1, 2, 3}
  HeadNode = 2
  Work <- WritersWork
SPECIFICATION HSpec
INVARIANTS TypeOK Sorted SearchBracketsKey LiveReachable RemovedUnreachable
  LevelsNested  OneLiveNodePerKey SizeExact OutputAscending
PROPERTIES MarkedFrozen RefinesMap
