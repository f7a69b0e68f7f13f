CONSTANTS
  MaxPart = 2
  SlotTypes = {0}
  Increase = 1
  GenWrap = 16
  NTask = 3
  TypeOf <- MCTypes
  InitGarbage = {4}
  SlotsFree = 0
  MaxIter = 2

SPECIFICATION Spec

INVARIANT
  NoneLostNorDoubled

PROPERTY
  IsRelocation
