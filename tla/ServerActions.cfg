SPECIFICATION Spec
CONSTANTS
  s1 = s1
  s2 = s2
  s3 = s3
  bad = bad
  k1 = k1
  k2 = k2
  NoRequest = NoRequest
  Servers <- ThreeServers
  Containers <- TwoContainers
  ContainerOf <- Names
  Requests <- AllRequests
  MaxFaults = 2
  MaxEvents = 2
INVARIANTS
  TypeOK
  SuccessMeansDone
  AllDownBeforeUp
  CancelTouchesOne
PROPERTIES
  OnlyListedTouched
  StartKeepsRunning
