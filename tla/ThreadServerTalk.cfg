SPECIFICATION Spec
CONSTANTS
  Clients = {c1, c2}
  NOBODY = NOBODY
  MESSAGES = 2
  Lengths = {1, 2}
  ZeroBytes = {1}
  Departures = {}
  BUFFER = 3
  MAX_CLIENTS = 2
  THREADS_MAY_FAIL = FALSE
  Stacks = {2}
INVARIANTS TurnsAlternate RelayedAsRead
CONSTRAINT ThreeMessages
SYMMETRY Symmetry
CHECK_DEADLOCK FALSE
