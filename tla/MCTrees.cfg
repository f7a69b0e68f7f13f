SPECIFICATION TreesSpec

CONSTANTS
    SubBits = 1
    KeyBits = 3
    NTask = 3
    MaxPart = 5
    DomainOverDecompositionFactor = 1
    DomainUseGlobalSorting = TRUE
    SetAsidePercent = 80
    FirstAllocFactor = 3000
    MaxAllocFactor = 10000
    NPolicy = 3
    FirstDistance = 1
    Placements <- MCPlacements
    Drifters <- MCDrifters
    DriftKeys <- MCDriftKeys
    DarkMatter <- MCDarkMatter
    Perishable <- MCPerishable
    MaxSteps = 2
    MaxFailures = 1
    firstnode = 8
    NODECACHE_SIZE = 4
    BoxSize = 64
    TopNodes <- MCTopNodes
    TopTasks <- MCTopTasks
    NThread = 2
    Chunk = 1
    FirstFactor = 200
    MaxFactor = 900
    Kinds = {"gas", "full", "active"}
    TreePlacements <- MCTreePlacements

INVARIANTS
  TreesSound
  AtHome
  WalksComplete
  MomentsRight
  HmaxCovers
