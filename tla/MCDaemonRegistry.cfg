\* Two runners one after the other, two handlers on one relay session, two
\* children, the idle clock on: a close races a create that replaces the exited
\* child, and either races the runner's idle end.
CONSTANTS
  r1 = r1
  r2 = r2
  Runners = {r1, r2}
  NoRunner = NoRunner
  c1 = c1
  c2 = c2
  Clients = {c1, c2}
  NoClient = NoClient
  s1 = s1
  Sessions = {s1}
  Recoverable = {}
  MaxChildren = 2
  MaxStarting = 1
  IdleTimeout = TRUE
SPECIFICATION Spec
SYMMETRY Symmetry
\* Runners run once: when the last one is gone nothing more happens.
CHECK_DEADLOCK FALSE
INVARIANTS
  NoSecondAgent
  RegistryReaches
  StopClosesAll
