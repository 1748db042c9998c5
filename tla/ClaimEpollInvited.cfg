SPECIFICATION Spec
CONSTANTS
  Clients = {c1, c2, c3}
  NOBODY = NOBODY
  MESSAGES = 1
  Lengths = {1}
  ZeroBytes = {}
  Departures = {"left"}
  BUFFER = 2
INVARIANT InvitedMayAsk
CHECK_DEADLOCK FALSE
