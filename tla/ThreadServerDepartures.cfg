SPECIFICATION FairSpec
CONSTANTS
  Clients = {c1, c2}
  NOBODY = NOBODY
  MESSAGES = 1
  Lengths = {1}
  ZeroBytes = {1}
  Departures = {"left"}
  BUFFER = 2
  MAX_CLIENTS = 2
  THREADS_MAY_FAIL = FALSE
  Stacks = {}
CONSTRAINT UntilEnd
PROPERTY DepartureEndsIt
CHECK_DEADLOCK FALSE
