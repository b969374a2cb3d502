SPECIFICATION FairSpec
CONSTANTS
  Streams <- BothStreams
  Lines <- PlainLines
  PipeSize = 1
  ChanSize = 1
  MaxLines = 3
PROPERTIES
  TimeoutEnds
CHECK_DEADLOCK FALSE
