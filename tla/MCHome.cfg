\* Commands one at a time beside a watch, with processes that die, hang or do not start.
SPECIFICATION Spec
CONSTANTS
  s1 = s1
  s2 = s2
  f1 = f1
  f2 = f2
  Server = {s1, s2}
  File = {f1, f2}
  Pid = {1, 2, 3}
  MaxRestarts = 1
  MaxCalls = 2
  MaxEvents = 4
  Overlap = FALSE
INVARIANTS
  TypeOK
  NoneLost
  LosesOneAtMost
PROPERTIES
  Settles
CHECK_DEADLOCK FALSE
