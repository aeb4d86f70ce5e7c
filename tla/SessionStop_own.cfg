CONSTANTS
  Pids = {1, 2}
  MaxStarts = 3
SPECIFICATION Spec
INVARIANT
  SignalsItsOwn
CHECK_DEADLOCK FALSE
