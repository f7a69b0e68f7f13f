SPECIFICATION Spec

CHECK_DEADLOCK FALSE

CONSTANTS
  TimeIC = 64
  TimeMax = 256
  OutputList <- Outputs
  PlaneOutputList <- Planes
  PlaneTol = 4
  SnapshotWithFOF = TRUE
  TIMEBASE = 4
  AutoSnapshotTime = 3
  TimeLimitCPU = 6
  MaxTick = 1
  Blocks = 1
  MaxStarts = 2
  MaxRequests = 2

INVARIANTS
  ListedIsWhole
  WrittenWhenDue

PROPERTY
  ListedIsKept
