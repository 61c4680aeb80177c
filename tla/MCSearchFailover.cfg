\* Two shards of two replicas, three vectors tagged or not, in every way.
SPECIFICATION Spec
CONSTANTS
  n1 = n1
  Nowhere = Nowhere
  Namespace = {n1}
  Home <- OnShardZero
  NumShards = 2
  NumReplicas = 2
  Vector = {0, 1, 2}
  Query = {1}
  K = 2
INVARIANTS
  TypeOK
  TopK
  MissingOnlyIfAllFailed
PROPERTIES
  ComesBack
