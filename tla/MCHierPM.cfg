CONSTANTS
  TIMEBINS <- MCBins
  Dti <- MCDti
  NSyncPoints = 3
  InitTimes <- MCInit
  g1 = g1
  d1 = d1
  Part <- MCPart
  InitType <- MCGas
  SeedAtStart = TRUE
  ShortestBin = 2
  PushDownRatio = 1

SPECIFICATION HierSpec

INVARIANT HierPMNeverPassed
