SPECIFICATION FairCacheSpec
CONSTANTS
  a = a
  b = b
  r = r
  Main = Main
  Warm = Warm
  None = None
  Names <- TwoNames
  Refreshers <- OneRefresher
  MaxFaults = 1
  MaxDiskEvents = 2
INVARIANTS
  CacheTypeOK
  ImportVisible
PROPERTIES
  ImportKeepsTheirs
  ListCatchesUp
