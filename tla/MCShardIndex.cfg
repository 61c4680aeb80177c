\* Two layers, at most four links in layer 0 and two above it.
SPECIFICATION Spec
CONSTANTS
  Point <- Points
  Distance <- Distances
  Payload <- Payloads
  Filter <- Filters
  M = 2
  EfConstruction = 3
  EfSearch = 2
  NeighborSelection = "heuristic"
  ExactAdvantage = 1
  MaxK = 3
  MaxNodes = 6
  MaxLevel = 1
  TallNodes = 4
  Copies = 2
  TieRanks <- BeforeOrAfter
  SearchesAt = {2, 6}
  SnapshotsAt = {3}
INVARIANTS
  LayersNest
  GraphOK
  NoDeadEnd
  FilterMatches
  FindsReachable
  NoShortAnswer
CHECK_DEADLOCK FALSE
