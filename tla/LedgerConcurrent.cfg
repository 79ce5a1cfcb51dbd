SPECIFICATION Spec
CONSTANTS
  Procs = {p, q}
  Sources <- MCSources
  Detectable <- MCDetectable
  HashRank <- MCHashRank
  Steps <- MCSteps
  MaxClock = 1
  MaxFiles = 3
SYMMETRY Symmetry
INVARIANTS TypeOK RealTimeOrder RollbackToPrior ReceiptIsRecorded
