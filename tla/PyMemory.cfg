SPECIFICATION Spec
CONSTANTS
  Programs = {"python"}
  Bufs = {b1}
  MaxSetups = 1
  MrSizes = {2}
  Word = 4
  SizeT = 11
INVARIANT
  SurvivesUntilDereg
CHECK_DEADLOCK FALSE
