CONSTANTS
  SniffLines = 2
  Second = 4
  Shell <- MCShell
  Text <- MCText
  Secret = {"secret"}
  Long = {"secret"}
  Unstored = {"key"}
  Redacted = "redacted"
  FirstTime = 5
  LastTime = 6
  MaxEntries <- MCMaxEntries
  Settings <- MCSettings
SPECIFICATION Spec
INVARIANTS
  TypeOK
  FoundAgain
  OrderIsKept
PROPERTIES
  UndatedStay
CHECK_DEADLOCK FALSE
