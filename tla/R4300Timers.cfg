SPECIFICATION Spec
CONSTANTS
  HalfRange = 14
  CountPerOp = 2
  PoolCapacity = 8
  Devices = {"VI", "PI"}
  Steps = {2}
  Delays = {3}
  VIDelay = 12
  CompareGaps = {0, 5}
  CountWrites = {3}
  StatusWrites <- MCNone
  MaskWrites <- MCNone
  PluginLines = {}
  Buttons = {}
  MaxLate = 1
  LateBound = 9
  PowerOnCount = 1
  NMIDelay = 6
  Disciplined = TRUE
CHECK_DEADLOCK FALSE
INVARIANTS
  TypeOK
  NeverEarly
  InOrder
  HeadWithinReach
  NothingDropped
  SaveLoadFaithful
