SPECIFICATION Spec
CONSTANTS
  Workers = {w1, w2}
  Flusher = main
  Files = {f1, f2, f3, f4}
  BatchSize = 2
  MetaTables <- OneTable
  Faults = {"commitBusy"}
SYMMETRY Symmetric
INVARIANT WriteLockExclusion
