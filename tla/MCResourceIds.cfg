CONSTANTS
  Null = Null
  Resources <- MCResources
  MaxResources = 2
SPECIFICATION Spec
INVARIANTS TypeOK Recovered SortedByWeight ApartWithoutDashes
