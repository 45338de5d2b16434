SPECIFICATION FairSpec
CONSTANTS
  N = 3
  Iters = 1
  Faulty = {1}
INVARIANTS
  TypeOK
  QueueDiscipline
  NoDmaRace
  MessagesMeetTheirReceives
  BarrierNeighbours
  OnlyTeardownFails
PROPERTIES
  ImplementsAllReduce
  Termination
  SenderNoticesLoss
CHECK_DEADLOCK FALSE
