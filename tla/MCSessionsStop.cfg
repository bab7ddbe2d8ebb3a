\* A stop looks for the turn it is to interrupt while that turn ends.
CONSTANTS
  Roles = {"bootstrap", "stop"}
  Kinds = {"codex"}
  MaxViewers = 1
  MaxTurns = 1
  MaxGeneration = 1
  MaxWork = 0
  MaxReports = 2
  MaxFaults = 0
SPECIFICATION Spec
\* A Task nobody uses stops.
CHECK_DEADLOCK FALSE
INVARIANTS
  ActiveSettles
