SPECIFICATION Spec
CONSTANTS
  Workers = {w1, w2}
  Flusher = main
  Files = {f1, f2}
  BatchSize = 2
  MetaTables <- OneTable
  Faults = {"insertRollback"}
SYMMETRY Symmetric
INVARIANT ProcessSurvives
