\* A batch that cannot be inserted, logged before the insert raises.
SPECIFICATION Spec
CONSTANTS
  w1 = w1
  w2 = w2
  Write = {w1, w2}
  Vectors <- MCVectors
  Dim <- MCTwoDims
  SnapshotEvery = 2
  Fsync = TRUE
  Crashes = {"process"}
  DirectoryOrdered = TRUE
  Failures = {}
  MaxSeq = 3
  MaxLog = 4
INVARIANT
  AckedSurvive
