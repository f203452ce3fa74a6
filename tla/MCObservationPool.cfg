CONSTANTS
  Capacity = 2
  ReadbackCapacity = 2
  MaxRequests = 3
  MaxRevision = 0
SPECIFICATION Spec
INVARIANT ExhaustedMeansInFlight
CHECK_DEADLOCK FALSE
