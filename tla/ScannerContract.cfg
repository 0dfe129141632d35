SPECIFICATION FairSpec
CONSTANTS
  Main = main
  NoThread = nothread
  ScanThreads = {s1, s2, s3}
  Folders <- TwoFolders
  Contents <- TwoFiles
  MaxRequests = 3
CHECK_DEADLOCK FALSE
INVARIANTS
  TypeOK
  OneScanThread
PROPERTIES
  JoinedOnce
  ImplementsScanService
  CancelReturnsWhenAwake
