CONSTANTS
  Key = {k1, k2}
  Value = {v1, v2}
  Absent = Absent
  NoKey = NoKey
  Short = Short
  NoFile = NoFile
  c1 = c1
  Caller = {c1}
  Faults = {"kill", "power", "torn"}
  Checkpoints = TRUE
  MaxLog = 3
SPECIFICATION Spec
INVARIANTS TypeOK IndexMatchesDisk
PROPERTIES RefinesDurableStore OnlyRestartForgets
