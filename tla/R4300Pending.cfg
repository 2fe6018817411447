SPECIFICATION Spec
CONSTANTS
  HalfRange = 14
  CountPerOp = 2
  PoolCapacity = 6
  Devices = {"VI"}
  Steps = {2}
  Delays = {3}
  VIDelay = 10
  CompareGaps = {}
  CountWrites = {}
  StatusWrites <- MCStatusWrites
  MaskWrites <- MCMaskWrites
  PluginLines = {}
  Buttons = {}
  MaxLate = 2
  LateBound = 10
  PowerOnCount = 1
  NMIDelay = 6
  Disciplined = FALSE
CHECK_DEADLOCK FALSE
PROPERTIES
  PendingTaken
