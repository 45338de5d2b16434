SPECIFICATION FairSpec
CONSTANTS
  N = 3
  MaxTries = 3
  MayBeAbsent = {1, 2}
  MayFail = {0, 1}
  MayTimeOut = {0, 1, 2}
INVARIANTS
  ReadyMeansLinked
PROPERTIES
  HangsOnlyBehindGivingUp
  RingComesUp
CHECK_DEADLOCK FALSE
