SPECIFICATION Spec
CONSTANTS
  Paths <- FourPaths
  NameOf <- SameNames
  Matching <- NotTheThird
  Times <- TwoTimes
  Sizes <- SmallPages
  Numbers <- AskedNumbers
  DefaultSize = 2
  MaxSize = 3
  Half = 16
  Exponent = 8
  MaxEvents = 3
INVARIANTS
  NoneSkipped
  PagingInv
CHECK_DEADLOCK FALSE
