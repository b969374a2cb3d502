SPECIFICATION FairSpec
CONSTANTS
  c1 = c1
  c2 = c2
  NoCommand = NoCommand
  Commands <- TwoCommands
  Cancellable <- OneCancellable
  MaxWork = 1
  MaxFaults = 1
PROPERTIES
  EmptyBeatIsTemporary
  EveryCommandSettles
