CONSTANTS
  w1 = w1
  w2 = w2
  Workspaces <- MCWorkspaces
  Lives = {1, 2, 3, 4, 5, 6}
  Keys = {1, 2, 3, 4, 5, 6, 7, 8, 9, 10, 11}
  MaxEvents = 8
SPECIFICATION FairSpec
INVARIANTS TypeOK NoSilentOrphan HeldKeyOpens
PROPERTIES RetriesConverge
CHECK_DEADLOCK FALSE
