SPECIFICATION Spec
CONSTANTS
  NumSlots = 1
  SlotSize = 1
  MayFail = FALSE
  Warmup = 2
  Iters = 2
  Depths = {1, 3}
  MaxWr = 3
INVARIANT
  GbpsHonest
