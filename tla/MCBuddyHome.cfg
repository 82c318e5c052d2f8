CONSTANTS
  Word = 6
  StaleMs = 2
SPECIFICATION HomeSpec
INVARIANTS
  CycleReachesEveryPet
  PetIsAwakeWhenHeard
