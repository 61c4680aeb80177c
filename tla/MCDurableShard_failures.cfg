\* Calls that fail half-way: inserts that raise, a disk that is full.
SPECIFICATION Spec
CONSTANTS
  w1 = w1
  w2 = w2
  Write = {w1, w2}
  Vectors <- MCVectors
  Dim <- MCTwoDims
  SnapshotEvery = 2
  Fsync = FALSE
  Crashes = {"process"}
  DirectoryOrdered = FALSE
  Failures = {"append", "save", "reset", "install"}
  MaxSeq = 2
  MaxLog = 2
INVARIANT
  SnapshotReachesLog
PROPERTY
  MemoryOnlyGrows
