\* Two shards of two replicas; two coordinators take turns writing.
SPECIFICATION Spec
CONSTANTS
  c1 = c1
  c2 = c2
  Coordinator = {c1, c2}
  NumShards = 2
  NumReplicas = 2
  PerRequest = 1
  CallersRefresh = TRUE
  MaxVectors = 2
  MaxAdds = 2
  MaxCrashes = 1
  MaxDeaths = 1
SYMMETRY
  Interchangeable
INVARIANTS
  TypeOK
  NoIdTwice
  AckedOnEveryCopy
  NextNumberFits
CHECK_DEADLOCK FALSE
