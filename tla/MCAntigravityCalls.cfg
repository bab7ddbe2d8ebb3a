\* Two callers over one session, one fault: an unanswered commit, a connection
\* that ends or a backend that restarts.
CONSTANTS
  Callers = {c1, c2}
  Asks = {}
  MaxRpc = 3
  MaxOutput = 3
  MaxFaults = 1
SPECIFICATION Spec
SYMMETRY Symmetry
\* A Task nobody uses stops: no call, no output, no fault is left.
CHECK_DEADLOCK FALSE
INVARIANTS
  TypeOK
  TruthfulVerdicts
  NoInputTwice
  NoReplyLost
  CancelAfterStart
