SPECIFICATION FairSpec
CONSTANTS
  main = main
  warm = warm
  Threads <- TwoThreads
  Main <- main
  BatchSize = 3
  MaxBatch = 2
  MaxMessages = 4
  MaxFaults = 2
INVARIANTS
  EachEntryOnce
  OldestFirst
  LoggerInv
PROPERTIES
  MainsLogArrives
CHECK_DEADLOCK FALSE
