SPECIFICATION Spec
CONSTANTS
  ELEVATORS = 1
  FLOORS = 3
  PASSENGERS = 2
  MAX_CAPACITY = 2
  SEATS = 2
  START = 2
  TRIPS_PER_PASSENGER = 2
INVARIANTS RideListExact ListAssertOnlyAfterOverlap DriveInv
CONSTRAINT OneReturns
CHECK_DEADLOCK FALSE
