SPECIFICATION Spec
CONSTANTS
  HalfRange = 16
  CountPerOp = 2
  PoolCapacity = 8
  Devices = {"VI", "PI"}
  Steps = {2}
  Delays = {1, 4}
  VIDelay = 10
  CompareGaps = {0, 1, 4}
  CountWrites = {3}
  StatusWrites <- MCStatusWrites
  MaskWrites <- MCMaskWrites
  PluginLines = {}
  Buttons = {}
  MaxLate = 2
  LateBound = 10
  PowerOnCount = 1
  NMIDelay = 6
  Disciplined = FALSE
CHECK_DEADLOCK FALSE
INVARIANTS
  TakenOnlyUnmasked
