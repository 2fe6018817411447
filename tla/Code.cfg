SPECIFICATION CodeSpec
CONSTANTS
  RamPages = {"v", "w"}
  VectorPage = "v"
  PageWords = 1
  Opcodes = {op, other}
  Enders = {}
  Jumps = {}
  JumpTargets <- MCJumpTargets
SYMMETRY MCSymmetry
INVARIANTS
  KsegFresh
  TlbFresh
CHECK_DEADLOCK FALSE
