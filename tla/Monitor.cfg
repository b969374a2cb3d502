SPECIFICATION FairSpec
CONSTANTS
  m = m
  a = a
  Servers <- TwoServers
  Profiles <- TwoProfiles
  Stable = 2
  Recover = 1
  Slack = 1
  Threshold = 1
  MaxRestarts = 1
  MaxFaults = 1
INVARIANTS
  TypeOK
  OkMeansAllProven
  SeenCancelStops
PROPERTIES
  SuccessMeansStable
  MonitorEnds
