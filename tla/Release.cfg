\* make check and make migrate from two checkouts, with downgrades by hand.
SPECIFICATION Spec
CONSTANTS
  MaxTests = 3
  Floors = {0, 1, 2}
  Checkout = {here, there}
  Trees <- MCTrees
  MaxCommands = 4
  MaxLost = 1
CHECK_DEADLOCK FALSE
INVARIANTS
  TypeOK
  SchemaMatchesVersion
  HeadIsReachable
  GuardedAtHead
  GateGreenMeansRun
  PlanStillFits
PROPERTIES
  CommandsEnd
