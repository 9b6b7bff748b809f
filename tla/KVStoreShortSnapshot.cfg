CONSTANTS
  Key = {k1}
  Value = {v1}
  Absent = Absent
  NoKey = NoKey
  Short = Short
  NoFile = NoFile
  Caller = {c1}
  Faults = {"full disk"}
  Checkpoints = TRUE
  MaxLog = 3
SPECIFICATION Spec
PROPERTY TruncatesOnlyAfterSnapshot
