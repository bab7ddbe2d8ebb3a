\* Sessions of both agents across the loss of a Codex connection, an exit, a
\* refused call or a lag.
CONSTANTS
  Roles = {"bootstrap", "prompt", "recover"}
  Kinds = {"codex", "claude"}
  MaxViewers = 1
  MaxTurns = 0
  MaxGeneration = 2
  MaxWork = 1
  MaxReports = 1
  MaxFaults = 1
SPECIFICATION FairSpec
\* A Task nobody uses stops.
CHECK_DEADLOCK FALSE
INVARIANTS
  TypeOK
  EffectsEnd
  SubscribedIsWatched
PROPERTIES
  ComesBack
  LeftIsLetGo
