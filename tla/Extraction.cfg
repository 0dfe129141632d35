SPECIFICATION FairSpec
CONSTANTS
  Workers = {w1, w2}
  MediaFiles <- Paths
  ThreadsMayFail = TRUE
  Encodings <- Known
  Extensions = {"MP3", "OGG"}
  Console = console
  Suffix <- Suffixes
  Upper <- UpperCase
  Songs <- TagsOf
CHECK_DEADLOCK FALSE
INVARIANTS
  TypeOK
  PrintedInFull
  CountedByThread
  FailuresAreReported
  DecodedInOrder
PROPERTIES
  SetUpBeforeThreads
  ImplementsPool
  TerminateReturns
