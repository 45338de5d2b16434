SPECIFICATION ClientsSpec
CONSTANTS
  NumSlots = 4
  SlotSize = 2
  MayFail = TRUE
  Warmup = 6
  Iters = 3
  Depths = {1, 3, 4, 5, 6}
  MaxWr = 5
INVARIANTS
  SlotsConserved
  RefusedOnlyWhenFull
  RoundTrip
  OnlyOwnSlot
  BatchesExact
PROPERTIES
  ClientEnds
  ServerStopsOrStuck
