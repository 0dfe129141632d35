SPECIFICATION Spec
CONSTANTS
  Main = main
  NoThread = nothread
  ScanThreads = {s1, s2}
  Workers = {w1, w2}
  Folders <- Directories
  Contents <- Tree
  MediaFiles <- Media
  Devices = {"dA", "dB"}
  RootOf <- Roots
  BatchSize = 2
  MaxInsertions = 2
  ThreadsMayFail = TRUE
  OpenMayFail = TRUE
SYMMETRY Symmetric
CHECK_DEADLOCK FALSE
INVARIANTS
  TypeOK
  FlushAfterExtraction
  NoUseAfterFree
  PoolFreedOnce
  StoredInItsDatabase
  ExtractedOnce
  StaleHandleUnused
