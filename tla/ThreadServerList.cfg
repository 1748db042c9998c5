SPECIFICATION Spec
CONSTANTS
  Clients = {c1, c2, c3}
  NOBODY = NOBODY
  MESSAGES = 0
  Lengths = {1}
  ZeroBytes = {}
  Departures = {"left"}
  BUFFER = 1
  MAX_CLIENTS = 2
  THREADS_MAY_FAIL = TRUE
  Stacks = {}
INVARIANT ListIsExactUnlessCrowded
CONSTRAINT UntilCrowded
SYMMETRY Symmetry
CHECK_DEADLOCK FALSE
