SPECIFICATION Spec
CONSTANTS
  a = a
  b = b
  pvp = pvp
  kz = kz
  None = None
  Names <- TwoNames
  Scalars <- AllScalars
  Flags <- AllFlags
  Vars <- TwoVars
  ProxyVars <- OneProxy
  Keys <- TwoKeys
  ModeKeys <- TwoModes
  Files <- SomeFiles
INVARIANTS
  ConfigInv
CHECK_DEADLOCK FALSE
