CONSTANTS
  MaxPart = 5
  SlotTypes <- MCSlots
  Increase = 2
  GenWrap = 3
  InitTypes <- MCThree
  Generations = 1
  SlotsFree = 0

SPECIFICATION StepSpec

INVARIANTS
  SlotsAlwaysMatch
  IDsAlwaysUnique
  ActiveListHolds
