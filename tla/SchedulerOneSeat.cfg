SPECIFICATION Spec
CONSTANTS
  ELEVATORS = 1
  FLOORS = 2
  PASSENGERS = 2
  MAX_CAPACITY = 1
  SEATS = 1
  START = 2
  TRIPS_PER_PASSENGER = 1
INVARIANTS TypeOK OccupantsExact HandshakeInv CallOrderIsSafe ChecksFailOnlyAfterOverlap
PROPERTY ImplementsBuilding
CHECK_DEADLOCK FALSE
