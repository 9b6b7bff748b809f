CONSTANTS
  Key = {k1}
  Value = {v1}
  Absent = Absent
  NoKey = NoKey
  Short = Short
  NoFile = NoFile
  Caller = {c1, c2}
  Faults = {"power", "torn"}
  Checkpoints = TRUE
  MaxLog = 3
SPECIFICATION FairSpec
INVARIANTS FlushedWhenAcknowledged UnflushedIsRemembered
PROPERTIES RecordsReachDisk ShutdownEnds
