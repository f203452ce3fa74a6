CONSTANTS
  Capacity = 2
  ReadbackCapacity = 2
  MaxRequests = 4
  MaxRevision = 2
SPECIFICATION FairSpec
INVARIANTS ObservationTypeOK PermitsAccounted BuffersAccounted PoolNeverEmpty ChannelsNeverFull AnswersInOrder
PROPERTIES ImplementsPort EveryRequestAnswered WorkerEnds
CHECK_DEADLOCK FALSE
