\* One connection, up to two leases: the journal fills, a frame of size 3 fits in no
\* journal, and two producers, a reader and a supervisor share one notification.
CONSTANTS
  c1 = c1
  Connections = {c1}
  NoConnection = NoConnection
  MaxLease = 2
  MaxLines = 1
  MaxInputs = 2
  Capacity = 2
  FrameSizes = {1, 3}
  ControlSize = 1
  StdinCapacity = 1
SPECIFICATION FairSpec
\* The session stops for good once it is closed and every connection ended.
CHECK_DEADLOCK FALSE
INVARIANTS
  BytesAccounted
  NoLostWakeup
PROPERTIES
  ExitIsLast
  LiveReadsEverything
  CloseFinishes
  ReplayReachesFence
