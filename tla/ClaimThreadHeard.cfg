SPECIFICATION Spec
CONSTANTS
  Clients = {c1, c2}
  NOBODY = NOBODY
  MESSAGES = 1
  Lengths = {1}
  ZeroBytes = {}
  Departures = {}
  BUFFER = 2
  MAX_CLIENTS = 2
  THREADS_MAY_FAIL = FALSE
  Stacks = {}
INVARIANT QuestionIsHeard
SYMMETRY Symmetry
CHECK_DEADLOCK FALSE
