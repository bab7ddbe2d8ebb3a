\* A crashed runner, then two started at once on the file it left.
CONSTANTS
  r1 = r1
  r2 = r2
  r3 = r3
  Runners = {r1, r2, r3}
  NoRunner = NoRunner
  c1 = c1
  Clients = {c1}
  NoClient = NoClient
  s1 = s1
  Sessions = {s1}
  Recoverable = {}
  MaxChildren = 1
  MaxStarting = 2
  IdleTimeout = FALSE
SPECIFICATION Spec
\* Runners run once: when the last one is gone nothing more happens.
CHECK_DEADLOCK FALSE
PROPERTIES
  ClearSparesServed
