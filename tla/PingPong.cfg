SPECIFICATION FairSpec
CONSTANTS
  Total = 7
  Depths = {2, 3}
  Room = 3
  Programs = {"lat_cm", "lat_verbs", "compare", "compare_tcp"}
INVARIANTS
  PongsAnswerPings
  ReceiveReady
  OnlyKnownLosses
PROPERTY
  Termination
