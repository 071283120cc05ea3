CONSTANTS
  c1 = c1
  c2 = c2
  Command <- MCCommand
  NoCommand = NoCommand
  MaxEvents = 3
  BufferSize = 2
  PollLimit = 2
  MaxRequests = 2
  MaxAsked = 2
  Settings <- MCSettings
SPECIFICATION FairSpec
INVARIANTS
  TypeOK
  PageIsTrue
PROPERTIES
  PageCatchesUp
