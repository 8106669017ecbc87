SPECIFICATION StoresSpec
CONSTANTS
  Ids = {a, b, c}
  HnswIds = {a, b, c, d}
  Callers = {t1, t2}
  Absent = Absent
  Dims = {1, 2}
  CompactBatches <- MCCompactBatches
  Capacities = {2}
  HnswBatches <- MCHnswBatches
  M = 1
  EfConstruction = 3
  EfSearch = 1
  MaxLevel = 1
  QuantizedBatches <- MCQuantizedBatches
  Capacity = 2
  MaxVersions = 3
  MaxClears = 2
  Batches <- MCBatches
  Queries <- MCQueries
  Score <- MCScore
SYMMETRY Symmetry
VIEW StoresView
INVARIANTS
  IndexMatchesVectors
  LayoutIsSound
  CacheSurvivesRaces
PROPERTIES
  StoresAnswerLikeMaps
