SPECIFICATION FairSpec
CONSTANTS
  N = 3
  Iters = 2
  Faulty = {0, 1}
  Pieces = 2
  Capacities = {1, 3}
INVARIANTS
  FramesAligned
  BarrierLeft
  FailureHasCause
PROPERTIES
  ImplementsAllReduce
  Termination
