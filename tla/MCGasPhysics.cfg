CONSTANTS
  NTask = 3
  NThread = 2
  NSortThread = 3
  SegmentSize = 1
  FOFHaloMinLength = 2
  MinSeedLength = 4
  MinStarLength = 1
  MaxBatch = 1
  MaxID = 20
  Worlds <- MCWorlds

  NHost = 2
  NHostThread = 2

  SearchWorlds <- MCSearchWorlds
  BoxSize = 16384
  NHSML = 3
  DesNumNgb = 4
  MaxNumNgbDeviation = 0
  BlackHoleNgbFactor = 2
  BlackHoleMaxAccretionRadius = 4050
  MinGasHsml = 68
  MeanGasSeparation = 64
  MAXITER = 30

  HydroWorlds <- MCHydroWorlds

  BHWorlds <- MCBHWorlds
  MaxEntropy = 12
  TIMEBINS = 9

  WindWorlds <- MCWindWorlds
  WindEfficiency = 60
  WindFreeTravelLength = 12
  MaxWindFreeTravelTime = 5

SPECIFICATION PhysicsSpec

INVARIANTS
  SearchRight
  ForcesWhole
  LargestOrNextSwallows
  SwallowedWhole
  AllHeatKept
  NearestKicks
  LabelsRight
  CatalogueAgrees
  SeededOnce

PROPERTY
  NeverParted
