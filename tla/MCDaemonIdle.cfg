\* Two runners one after the other with the idle clock on, and a recoverable
\* session whose child may never end.
CONSTANTS
  r1 = r1
  r2 = r2
  Runners = {r1, r2}
  NoRunner = NoRunner
  c1 = c1
  Clients = {c1}
  NoClient = NoClient
  s1 = s1
  Sessions = {s1}
  Recoverable = {s1}
  MaxChildren = 2
  MaxStarting = 1
  IdleTimeout = TRUE
SPECIFICATION FairSpec
\* Runners run once: when the last one is gone nothing more happens.
CHECK_DEADLOCK FALSE
INVARIANTS
  RecordKept
PROPERTIES
  ClearSparesServed
  StopEnds
