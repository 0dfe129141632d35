SPECIFICATION FairSpec
CONSTANTS
  Main = main
  NoThread = nothread
  ScanThreads = {s1, s2}
  Workers = {w1, w2}
  Folders <- SmallDirectories
  Contents <- SmallTree
  MediaFiles <- SmallMedia
  Devices = {"dA"}
  RootOf <- SmallRoots
  BatchSize = 2
  MaxInsertions = 2
  ThreadsMayFail = FALSE
  OpenMayFail = FALSE
CHECK_DEADLOCK FALSE
PROPERTIES
  TerminationExits
  TasksAreProcessed
