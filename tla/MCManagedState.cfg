SPECIFICATION FairSpec
CONSTANTS
  c1 = c1
  c2 = c2
  p1 = p1
  bad = bad
  ctrl = ctrl
  Clients <- MCClients
  Plans <- MCPlans
  ValidPlans <- MCValidPlans
  NoPlan = NoPlan
  Holders <- MCHolders
  MaxCalls = 3
  MaxForeign = 3
INVARIANTS
  TypeOK
  NoLostForeignWrite
  WrittenIsMarked
  OnlyValidPlansStored
  OneCausePerFailure
PROPERTIES
  TeardownIsFinal
  StepsAreAtomic
  EveryCallReturns
CHECK_DEADLOCK FALSE
