SPECIFICATION TimelySpec
CONSTANTS
  a = a
  b = b
  Workers <- MCWorkers
  Batches <- MCBatches
  NumUnits = 3
  MaxInFlight = 2
  TTL = 1
  MaxLeases = 7
PROPERTIES EventuallyDone
