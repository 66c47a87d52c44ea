CONSTANTS
  Null = Null
  Resources <- Extensions
  MaxResources = 2
SPECIFICATION Spec
INVARIANT DistinctScopesApart
