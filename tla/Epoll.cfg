SPECIFICATION FairSpec
CONSTANTS
  Clients = {c1, c2, c3}
  NOBODY = NOBODY
  MESSAGES = 1
  Lengths = {1, 2}
  ZeroBytes = {}
  Departures = {"left", "reset"}
  BUFFER = 2
INVARIANTS SafetyInv BatchIsOpen AnswersAreOwed PartiesArePresent InvitationStands
PROPERTIES ImplementsConversation EveryClientIsAccepted
CHECK_DEADLOCK FALSE
