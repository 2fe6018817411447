SPECIFICATION FairSpec
CONSTANTS
  MemSize = 3
  DramSize = 4
  Lengths = {1, 2}
INVARIANTS
  TypeOK
  EventPerTransfer
  ViewsAgree
  AsProgrammed
PROPERTIES
  PipeSpec
  Started
