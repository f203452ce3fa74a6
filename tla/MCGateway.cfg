CONSTANTS
  k1 = k1
  k2 = k2
  k3 = k3
  k4 = k4
  k5 = k5
  t1 = t1
  t2 = t2
  g = g
  a = a
  b = b
  Keys = {k1, k2, k3, k4, k5}
  Transactions = {t1, t2}
  Groups = {g}
  Contents = {a, b}
  Commands <- MCCommands
  CommandCapacity = 2
  IdempotencyCapacity = 3
  MaxIdempotencyRecords = 5
  MaxEntries = 5
  MaxPoints = 1
SPECIFICATION FairGatewaySpec
INVARIANTS GatewayTypeOK KeysInOnePlace OnePlacePerGroup ReservationsFit RecordsAccounted RoomForRecord KeysAcceptedOnce ReceiptsInLog AcceptedAnswered
PROPERTIES CompletedStable NoOvertaking QueuedLeaves
