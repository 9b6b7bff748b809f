CONSTANTS
  t1 = t1
  t2 = t2
  Thread = {t1, t2}
  NoThread = NoThread
  Key = {1, 2, 3, 4}
  Value = {10}
  MaxLevel = 2
  Node = {1, 2, 3, 4, 5}
  HeadNode = 3
  Work <- RemoversWork
SPECIFICATION FairSpec
PROPERTY DeletesReturn
