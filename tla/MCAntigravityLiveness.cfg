\* One caller, one question of the child and one fault.
CONSTANTS
  Callers = {c1}
  Asks = {a1}
  MaxRpc = 2
  MaxOutput = 3
  MaxFaults = 1
SPECIFICATION FairSpec
\* A Task nobody uses stops: no call, no output, no fault is left.
CHECK_DEADLOCK FALSE
INVARIANTS
  NoQuestionForgotten
PROPERTIES
  StopReachesChild
  CallsReturn
