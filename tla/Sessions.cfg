CONSTANTS
  Key = {1, 2, 3, 4}
  Value = {v1, v2}
  TwoLines = {v2}
  v1 = v1
  v2 = v2
  Absent = Absent
  Blank = Blank
  Nobody = Nobody
  Junk = Junk
  shell = shell
  raw = raw
  bench = bench
  Client = {shell, raw, bench}
  Kind <- Kinds
  Owner <- Owners
  Keys <- BenchKeys
  Typed <- TypedBatches
  Bounds <- SomeBounds
  Depth = 2
SPECIFICATION FairHSpec
INVARIANTS TypeOK BenchmarkSucceeds
PROPERTIES LinesBelong ReadsOwnWrites WaitingEnds
CHECK_DEADLOCK FALSE
