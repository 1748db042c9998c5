SPECIFICATION FairSpec
CONSTANTS
  ELEVATORS = 1
  FLOORS = 2
  PASSENGERS = 2
  MAX_CAPACITY = 1
  SEATS = 1
  START = 1
  TRIPS_PER_PASSENGER = 1
PROPERTY TripsCompleteUnlessParked
CONSTRAINT NotOverlapped
CHECK_DEADLOCK FALSE
