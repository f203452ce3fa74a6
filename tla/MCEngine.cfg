CONSTANTS
  MaxEntities = 2
  MaxIdempotencyRecords = 3
  MaxPendingRenderChanges = 3
  MaxHierarchyDepth = 1
  MaxOperations = 3
  MaxFiniteFactors = 2
  MaxU64 = 3
  MaxSceneEntities = 2
  MaxU32 = 2
  EntityIds = {1, 2, 3}
  Keys = {k1, k2, k3}
  Transactions = {t1}
  OperationLists <- MCOperationLists
  MaxEntries = 3
  MaxEntryBytes = 4
  MaxLogBytes = 10
  MaxPoints = 1
SPECIFICATION Spec
INVARIANTS TypeOK NoFaultAfterCommit SceneIsCurrent LogReproducesWorld RecordsMatchLog FrameFrontier PointsRestorable
CHECK_DEADLOCK FALSE
SYMMETRY KeySymmetry
