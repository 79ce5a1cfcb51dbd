SPECIFICATION ShellSpec
CONSTANTS
  Users = {"ann"}
  Handlers = {h1, h2}
  Idle = 1
PROPERTIES SeenNeverRewinds IdleIsCulled CulledWasIdle
