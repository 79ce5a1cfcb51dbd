SPECIFICATION Spec
CONSTANTS
  Procs = {"p", "q"}
  Residents = {}
  Requests <- MCBudget
  Nodes = {"hpc"}
  NodeBackend <- MCNodeBackend
  Distro <- MCDistro
  Capacities = {1}
  Quota <- MCQuota
  MeshTTL = 1
  MaxClock = 0
  MaxJobs = 4
INVARIANTS BudgetHolds
