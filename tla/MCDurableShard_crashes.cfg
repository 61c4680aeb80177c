\* Every crash point, of the process and of the machine.
SPECIFICATION Spec
CONSTANTS
  w1 = w1
  w2 = w2
  Write = {w1, w2}
  Vectors <- MCVectors
  Dim <- MCSameDim
  SnapshotEvery = 2
  Fsync = TRUE
  Crashes = {"process", "power"}
  DirectoryOrdered = TRUE
  Failures = {"save"}
  MaxSeq = 3
  MaxLog = 4
INVARIANTS
  TypeOK
  AckedSurvive
  NeverRefused
  RestartRebuildsMemory
  FetchLogComplete
PROPERTIES
  ImplementsDurableLog
  OnlyPowerFailuresLose
  PowerFailureTakesTheEnd
