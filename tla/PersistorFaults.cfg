SPECIFICATION FairSpecInTurn
CONSTANTS
  Workers = {w1, w2}
  Flusher = main
  Files = {f1, f2, f3, f4, f5}
  BatchSize = 2
  MetaTables <- OneTable
  Faults = {"begin", "reject", "insertRollback", "commitBusy", "commitRollback"}
INVARIANTS
  TypeOK
  NoUseAfterFree
  SavedOnce
PROPERTY EveryBatchEnds
