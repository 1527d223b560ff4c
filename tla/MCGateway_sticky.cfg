\* A continuation after a reload moved its model to another provider.
CONSTANTS
  r1 = r1
  r2 = r2
  Requests = {r1, r2}
  Streaming = {r1}
  Configs <- MCConfigs
  Names = {"g"}
  NeedsSets <- MCNeeds
  QueueCap = 1
  TTL = 0
  MaxClock = 1
  MaxReloads = 1
  MaxStarts = 2
SPECIFICATION Spec
PROPERTIES
  PreviousKeepsModel
CHECK_DEADLOCK FALSE
