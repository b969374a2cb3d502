SPECIFICATION FairSpec
CONSTANTS
  Streams <- BothStreams
  Lines <- OrdinaryLines
  PipeSize = 1
  ChanSize = 1
  MaxLines = 3
INVARIANTS
  RunnerInv
  OkMeansComplete
PROPERTIES
  RunnerEnds
CHECK_DEADLOCK FALSE
