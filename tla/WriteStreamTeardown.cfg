SPECIFICATION FairSpec
CONSTANTS
  Total = 4
  Window = 3
  Programs = {"compare"}
  Inlines = {TRUE, FALSE}
INVARIANT
  ClientNotStranded
