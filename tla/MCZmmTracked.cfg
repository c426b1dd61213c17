SPECIFICATION Spec
CONSTANTS
  HEAP_SIZE = 6
  NBLOCKS = 6
  Clients = {c1, c2, c3, c4, c5, c6}
  Sizes = {1, 2, 3}
  None = None
SYMMETRY ClientSymmetry
INVARIANT HeldTracked
