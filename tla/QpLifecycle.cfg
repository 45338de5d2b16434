SPECIFICATION Spec
CONSTANTS
  Programs = {"cm", "verbs", "scoped", "python"}
  Bufs = {b1, b2}
  MaxSetups = 3
  MrSizes = {1, 2, 6}
  Word = 4
  SizeT = 11
INVARIANTS
  OrderlyTeardown
  NothingLeaked
  PostSound
  OwnersOutliveRegions
CHECK_DEADLOCK FALSE
