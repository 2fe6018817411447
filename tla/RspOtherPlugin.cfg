SPECIFICATION Spec
CONSTANTS
  StatusWrites <- MCStatusWrites
  Tasks = {"gfx", "other"}
  Masks <- MCMasks
  Angrylion = FALSE
  MaxEvents = 2
INVARIANT
  SyncNeverLost
