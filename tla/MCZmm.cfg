SPECIFICATION Spec
CONSTANTS
  HEAP_SIZE = 4
  NBLOCKS = 4
  Clients = {c1, c2, c3, c4}
  Sizes = {0, 1, 2, 3}
  None = None
SYMMETRY ClientSymmetry
INVARIANTS
  AllocationsDisjoint
  AllocationsInHeap
  FreeBlocksUnheld
  SplitInTable
