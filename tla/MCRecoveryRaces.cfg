\* Two connections, two leases: stale tasks, late cleanup and stale requests.
CONSTANTS
  c1 = c1
  c2 = c2
  Connections = {c1, c2}
  NoConnection = NoConnection
  MaxLease = 2
  MaxLines = 1
  MaxInputs = 1
  Capacity = 1
  FrameSizes = {1}
  ControlSize = 1
  StdinCapacity = 1
SPECIFICATION Spec
SYMMETRY Symmetry
\* The session stops for good once it is closed and every connection ended.
CHECK_DEADLOCK FALSE
INVARIANTS
  SubscriberPosition
  ReplayIsExact
PROPERTIES
  SubscriberKeepsItsStream
  ImplementsStream
