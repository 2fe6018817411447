SPECIFICATION FairSpec
CONSTANTS
  Teams <- MCTeams
  Commands <- MCCommands
  Slots = 3
  ListLen = 4
  SyncIds = {"texture"}
  RingSize = 4
  RingCommands <- MCRingCommands
  RingWords = 13
INVARIANTS
  RunComplete
  SlotsOwed
PROPERTIES
  PoolReturns
  RingPipe
  DrainComplete
  RingReturns
CHECK_DEADLOCK FALSE
