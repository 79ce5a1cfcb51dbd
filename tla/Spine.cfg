SPECIFICATION Spec
CONSTANTS
  Procs = {"p", "r"}
  Residents = {"r"}
  Requests <- MCRequests
  Nodes = {"hpc", "grid", "edge"}
  NodeBackend <- MCNodeBackend
  Distro <- MCDistro
  Capacities = {1}
  Quota <- MCQuota
  MeshTTL = 0
  MaxClock = 1
  MaxJobs = 2
INVARIANTS Governed LedgerSound ChargesCovered LedgerWithinQuota
PROPERTIES LiveAtPlacement
