SPECIFICATION PingSpec
CONSTANTS
  Rounds = 15
  SeqMod = 4
INVARIANTS
  TruncationSafe
  NobodyStranded
