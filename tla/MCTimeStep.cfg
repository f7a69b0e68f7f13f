CONSTANTS
  TIMEBINS <- MCBins
  Dti <- MCDti
  NSyncPoints = 3
  InitTimes <- MCInit
  Part <- MCPart
  InitType <- MCNoBH
  SeedAtStart = FALSE

SPECIFICATION Spec

INVARIANTS
  KickTimesMatch
  Synchronised
  NoStepMissed
  PMNeverPassed

PROPERTIES
  SyncPointsVisited
