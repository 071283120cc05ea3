CONSTANTS
  c1 = c1
  c2 = c2
  Command = {c1}
  Skipped = {}
  NoFile = NoFile
  Settings <- MCNothingFails
SPECIFICATION Spec
INVARIANT NothingLostToDrain
CHECK_DEADLOCK FALSE
