SPECIFICATION AllocatorSpec
CONSTANTS
  MemorySize = 6
  NbSpaces = 6
  Sizes = {1, 2, 3}
  Orders = {"STACK", "ANY"}
  MaxLive = 4
  Beyond <- Zeroed
INVARIANTS SpacesDisjoint LiveIsAllocated WholeAgain
CHECK_DEADLOCK FALSE
