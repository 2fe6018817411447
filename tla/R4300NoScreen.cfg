SPECIFICATION Spec
CONSTANTS
  HalfRange = 16
  CountPerOp = 2
  PoolCapacity = 7
  Devices = {"PI"}
  Steps = {2}
  Delays = {1, 4}
  VIDelay = 10
  CompareGaps = {5}
  CountWrites = {}
  StatusWrites <- MCNone
  MaskWrites <- MCNone
  PluginLines = {}
  Buttons = {}
  MaxLate = 2
  LateBound = 10
  PowerOnCount = 1
  NMIDelay = 6
  Disciplined = FALSE
CHECK_DEADLOCK FALSE
INVARIANTS
  HeadWithinReach
