CONSTANTS
  e1 = e1
  OwnEvent = {e1}
  Given <- MCGiven
  Default <- MCDefault
  Horizon = 8
  MaxRestarts = 1
SPECIFICATION LoopFairSpec
INVARIANTS
  LoopTypeOK
  WaitIsBounded
  TriggersAreServed
PROPERTIES
  RecordedIsUploaded
