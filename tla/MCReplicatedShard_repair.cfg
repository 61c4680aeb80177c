\* One long-lived coordinator, a lost disk, and repairs until the replicas agree.
SPECIFICATION FairSpec
CONSTANTS
  r1 = r1
  r2 = r2
  c1 = c1
  c2 = c2
  Nobody = Nobody
  Replica = {r1, r2}
  Coordinator = {c1}
  CallersRefresh = FALSE
  Stragglers = FALSE
  MaxWrites = 3
  MaxLosses = 1
INVARIANTS
  SourceHasAcked
  RecordsFollow
PROPERTIES
  SyncLevels
  Converges
