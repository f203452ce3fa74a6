CONSTANTS
  MaxEntities = 3
  MaxIdempotencyRecords = 4
  MaxPendingRenderChanges = 3
  MaxHierarchyDepth = 2
  MaxOperations = 5
  MaxFiniteFactors = 3
  MaxU64 = 3
  MaxSceneEntities = 3
  MaxU32 = 3
  EntityIds = {1, 2, 3}
  Keys = {k1, k2, k3, k4}
  Transactions = {t1}
  OperationLists <- MCOperationLists
SPECIFICATION Spec
INVARIANTS TypeOK NoInternalFault HierarchySound TransformsComposed PendingCoversDifferences ChangesExtractable CompactIdsPartition
PROPERTY CompactIdsStable
SYMMETRY KeySymmetry
