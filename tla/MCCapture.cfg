CONSTANTS
  c1 = c1
  c2 = c2
  Command <- MCCommand
  Skipped = {c2}
  NoFile = NoFile
  Settings <- MCSettings
SPECIFICATION FairSpec
INVARIANTS
  TypeOK
  SpooledIsSafe
  DeliveredIsSafe
PROPERTIES
  SpooledIsStored
  DeadShellIsNoticed
CHECK_DEADLOCK FALSE
