SPECIFICATION Spec
CONSTANTS
  Size = 5
  Capacity = 3
  Requests = {1, 2, 3}
  MaxSlots = 7
  MayFail = TRUE
INVARIANTS
  TypeOK
  RegionsTile
  EveryBlockIsListed
  NothingToAbsorb
PROPERTIES
  ImplementsAllocator
