CONSTANTS
  t1 = t1
  t2 = t2
  Thread = {t1, t2}
  NoThread = NoThread
  Key = {1, 2}
  Value = {10}
  Absent = Absent
  MaxLevel = 2
  Node = {1, 2, 3}
  HeadNode = 2
  Work <- ReadersWork
SPECIFICATION HSpec
PROPERTY GetFindsPresentKey
