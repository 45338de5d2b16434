SPECIFICATION FairSpec
CONSTANTS
  N = 2
  Iters = 2
  Faulty = {}
INVARIANTS
  NoNicOverlap
PROPERTIES
  NoRnrWhileSumming
