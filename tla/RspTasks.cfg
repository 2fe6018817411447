SPECIFICATION FairSpec
CONSTANTS
  StatusWrites <- MCStatusWrites
  Tasks = {"gfx", "other"}
  Masks <- MCMasks
  Angrylion = TRUE
  MaxEvents = 2
INVARIANTS
  PumpAlive
  SyncNeverLost
  NoneMissed
PROPERTIES
  TaskReported
  SyncDelivered
