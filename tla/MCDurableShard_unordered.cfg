\* A file system that orders no directory change before an fsync of a file.
SPECIFICATION Spec
CONSTANTS
  w1 = w1
  w2 = w2
  Write = {w1, w2}
  Vectors <- MCVectors
  Dim <- MCSameDim
  SnapshotEvery = 2
  Fsync = TRUE
  Crashes = {"power"}
  DirectoryOrdered = FALSE
  Failures = {}
  MaxSeq = 3
  MaxLog = 4
INVARIANT
  AckedSurvive
