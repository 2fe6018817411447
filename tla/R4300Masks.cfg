SPECIFICATION FairSpec
CONSTANTS
  HalfRange = 16
  CountPerOp = 2
  PoolCapacity = 8
  Devices = {"VI", "DP"}
  Steps = {2}
  Delays = {3}
  VIDelay = 10
  CompareGaps = {}
  CountWrites = {3}
  StatusWrites <- MCStatusWrites
  MaskWrites <- MCMaskWrites
  PluginLines = {"DP"}
  Buttons = {}
  MaxLate = 2
  LateBound = 10
  PowerOnCount = 1
  NMIDelay = 6
  Disciplined = TRUE
CHECK_DEADLOCK FALSE
INVARIANTS
  TakenOnlyUnmasked
PROPERTIES
  Ip2FollowsMi
  DeviceServed
