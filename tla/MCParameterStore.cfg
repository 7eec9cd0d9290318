SPECIFICATION Spec
CONSTANTS
  Sets = 2
  Values = {0, 1}
  Default = 0
  Schema <- MCSchema
INVARIANTS StoreInv SnapshotDurable OriginalKept
PROPERTIES AtomicRegister FailedSaveKeepsFile
