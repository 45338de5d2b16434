SPECIFICATION FairSpec
CONSTANTS
  Total = 6
  Window = 3
  Programs = {"bw", "compare"}
  Inlines = {TRUE, FALSE}
INVARIANTS
  DoorbellMeansLast
  HeldUntilReaped
PROPERTY
  Termination
