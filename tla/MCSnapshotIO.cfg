SPECIFICATION Spec

CONSTANTS
  Particles <- MCParticles
  Writers <- MCWriters
  ReadTasks = 3
  BytesPerFile = 2
  WritersPerFile = 1
  MinNumWriters = 1
  EnableAggregatedIO = TRUE
  AggThreshold = 2
  CHUNK = 2
  Faults = 2

INVARIANTS
  RestartRoundTrip
  RowsAreComplete
  WritersApart
