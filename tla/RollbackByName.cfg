CONSTANTS
  w1 = w1
  w2 = w2
  Workspaces <- MCWorkspaces
  Lives = {1, 2, 3, 4, 5, 6}
  Keys = {1, 2, 3, 4, 5, 6, 7}
  MaxEvents = 3
SPECIFICATION Spec
PROPERTY RollbackDestroysItsOwn
CHECK_DEADLOCK FALSE
