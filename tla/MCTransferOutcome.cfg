CONSTANTS
  N = 2
  Lengths = {1}
SPECIFICATION Spec
CHECK_DEADLOCK FALSE
INVARIANTS
  BothSucceed
