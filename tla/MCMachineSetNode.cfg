CONSTANTS
  Null = Null
  Clusters = {"a", "b"}
  SetIds <- MCSetIds
  Managed <- MCManaged
  MaxEvents = 3
SPECIFICATION Spec
INVARIANTS TypeOK NodeStateIsTrue NoStrayNode
PROPERTY Converges
\* What is as configured may stay so for ever.
CHECK_DEADLOCK FALSE
