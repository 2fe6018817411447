SPECIFICATION FairSpec
CONSTANTS
  Buffers = {"a", "b"}
  AiLengths = {0, 1, 2, 3}
  DacRates = {1, 2}
  AccFrames = 3
  MaxPush = 4
  SiAddresses = {"x", "y"}
  PifCommands = {"c", "d"}
  Pages = 4
  SectorPages = 2
  PageData = {"p"}
  MaxPiEvents = 2
  Tracks = {"sys", "user"}
  SystemTrack = "sys"
  Protected = {"sys"}
  BadTracks = {"user"}
  Missing <- MCMissing
  DataSectors = 2
  MaxBmEvents = 2
  MaxRewrites = 1
INVARIANTS
  AiConserved
  AudioInOrder
  PiEvent
  FlashKept
  SectorsInOrder
PROPERTIES
  AudioReturns
  SiAnswered
  SiEnds
  TransferEnds
CHECK_DEADLOCK FALSE
