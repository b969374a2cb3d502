SPECIFICATION Spec
CONSTANTS
  c1 = c1
  c2 = c2
  NoCommand = NoCommand
  Commands <- TwoCommands
  Cancellable <- OneCancellable
  MaxWork = 2
  MaxFaults = 2
INVARIANTS
  CancelLatency
  NoOrphanWithoutFault
  LoopInv
  EarlyCancelBinds
PROPERTIES
  KeepsContract
