\* Two coordinators: one writes, either repairs; servers and clients die.
SPECIFICATION Spec
CONSTANTS
  r1 = r1
  r2 = r2
  c1 = c1
  c2 = c2
  Nobody = Nobody
  Replica = {r1, r2}
  Coordinator = {c1, c2}
  CallersRefresh = TRUE
  Stragglers = FALSE
  MaxWrites = 2
  MaxLosses = 0
SYMMETRY
  Interchangeable
INVARIANTS
  TypeOK
  SameNumberSameWrite
PROPERTIES
  InstallsAhead
  ImplementsDurableLog
