CONSTANTS
  Names = {s1, s2}
  MaxWires = 2
  MaxOpens = 2
  MaxChildren = 2
  MaxFaults = 1
SPECIFICATION Spec
SYMMETRY Symmetry
CHECK_DEADLOCK FALSE
INVARIANTS
  AttachedIsHeard
  StreamIsOwned
  StopIsNoFailure
  OneYoungStart
  HeldIsAlive
  AskedIsAnswered
PROPERTIES
  CloseEndsChild
