\* A request that outlives the call that sent it.
SPECIFICATION Spec
CONSTANTS
  r1 = r1
  r2 = r2
  c1 = c1
  c2 = c2
  Nobody = Nobody
  Replica = {r1, r2}
  Coordinator = {c1}
  CallersRefresh = TRUE
  Stragglers = TRUE
  MaxWrites = 2
  MaxLosses = 0
INVARIANTS
  SameNumberSameWrite
