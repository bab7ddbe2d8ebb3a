\* Every command over a Codex and over a Claude session on its first connection,
\* two turns, a bridge up to three reports behind.
CONSTANTS
  Roles = {"bootstrap", "prompt", "stop"}
  Kinds = {"codex", "claude"}
  MaxViewers = 1
  MaxTurns = 2
  MaxGeneration = 1
  MaxWork = 0
  MaxReports = 2
  MaxFaults = 0
SPECIFICATION Spec
\* A Task nobody uses stops.
CHECK_DEADLOCK FALSE
INVARIANTS
  StatusSettles
  TurnsSettle
PROPERTY
  EndedStaysEnded
