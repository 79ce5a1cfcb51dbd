SPECIFICATION TenancySpec
CONSTANTS
  Words <- MCWords
  Projects <- MCProjects
  Repos <- MCRepos
  Branches <- MCBranches
  Limit = 4
  MaxPushes = 3
CHECK_DEADLOCK FALSE
INVARIANTS PreviewsApart TenantsApart
PROPERTIES EnvironmentsKept
