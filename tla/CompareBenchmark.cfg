CONSTANTS
  main = main
  Workloads <- AllWorkloads
  Operations = 4
  MaxThreads = 2
  Preload = 1
  Key <- BenchKeys
  Value <- BenchValues
  Caller <- BenchThreads
  Absent = Absent
  NoKey = NoKey
  Short = Short
  NoFile = NoFile
  Faults = {}
  Checkpoints = FALSE
  MaxLog = 20
SPECIFICATION BenchSpec
INVARIANTS BenchTypeOK SizesAgree LogRestoresStore
PROPERTY BenchmarkEnds
