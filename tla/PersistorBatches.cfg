SPECIFICATION Spec
CONSTANTS
  Workers = {w1, w2}
  Flusher = main
  Files = {f1, f2, f3, f4, f5}
  BatchSize = 2
  MetaTables <- OneTable
  Faults = {"begin", "reject"}
SYMMETRY Symmetric
INVARIANTS
  WriteLockExclusion
  NoTransactionLeak
  RowsLinked
  DeletedIsStored
PROPERTY ImplementsFileStore
