CONSTANTS
  NTask = 3
  Work <- MCWork
  Gas <- MCGas
  Near <- MCNear
  Reach <- MCReach
  StarMass <- MCStarMass
  Generated <- MCGenerated
  GasMass <- MCGasMass
  MaxGasMass = 9

CHECK_DEADLOCK FALSE

SPECIFICATION MetalSpec

INVARIANTS
  AddedOnce
  RoundsApart
  MassKept

PROPERTY
  DoesAllWork
