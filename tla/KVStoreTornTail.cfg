CONSTANTS
  Key = {k1}
  Value = {v1}
  Absent = Absent
  NoKey = NoKey
  Short = Short
  NoFile = NoFile
  Caller = {c1}
  Faults = {"kill", "torn"}
  Checkpoints = FALSE
  MaxLog = 3
SPECIFICATION Spec
PROPERTY RestartSkipsTornTail
