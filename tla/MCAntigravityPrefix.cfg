\* Two callers and whole runs of the child: a commit between two locks.
CONSTANTS
  Callers = {c1, c2}
  Asks = {}
  MaxRpc = 3
  MaxOutput = 4
  MaxFaults = 1
SPECIFICATION Spec
SYMMETRY Symmetry
\* A Task nobody uses stops: no call, no output, no fault is left.
CHECK_DEADLOCK FALSE
INVARIANTS
  CheckpointIsExactPrefix
