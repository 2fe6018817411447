SPECIFICATION Spec
CONSTANTS
  HalfRange = 7
  CountPerOp = 2
  PoolCapacity = 7
  Devices = {"VI"}
  Steps = {2}
  Delays = {1}
  VIDelay = 5
  CompareGaps = {}
  CountWrites = {3}
  StatusWrites <- MCStatusWrites
  MaskWrites <- MCAllLines
  PluginLines = {}
  Buttons = {"soft", "hard"}
  MaxLate = 2
  LateBound = 10
  PowerOnCount = 1
  NMIDelay = 3
  Disciplined = TRUE
CHECK_DEADLOCK FALSE
INVARIANTS
  Anchored
  HeadMirrored
