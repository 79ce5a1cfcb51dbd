SPECIFICATION Spec
CONSTANTS
  a = a
  b = b
  NumUnits = 3
  Workers <- MCWorkers
  Batches <- MCBatches
  MaxInFlight = 2
  TTL = 1
  MaxLeases = 5
SYMMETRY Symmetry
INVARIANTS OneCopy LimiterHolds Authoritative
PROPERTIES LowestFirst NoEarlyReclaim RefinesWorkPool
