SPECIFICATION FairTransferSpec
CONSTANTS
  Limits <- SomeLimits
  Second = 2
  Timeout = 4
  Chunk = 2
  FirstSize = 3
  MaxFileEvents = 2
INVARIANTS
  DigestTrue
  TransferInv
PROPERTIES
  TransferEnds
CHECK_DEADLOCK FALSE
