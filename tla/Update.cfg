SPECIFICATION Spec
CONSTANTS
  s1 = s1
  s2 = s2
  NoManifest = NoManifest
  Torn = Torn
  Servers <- TwoServers
  Stock <- StockFile
  MaxBuild = 3
INVARIANTS
  TypeOK
  NoServerWhileInstalling
  ValidateRepairs
PROPERTIES
  SkipsOnlyWhole
  UpdateStartsPatched
