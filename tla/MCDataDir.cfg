CONSTANTS
  p1 = p1
  p2 = p2
  p3 = p3
  p4 = p4
  Process <- MCProcess
  Absent = Absent
  Empty = Empty
  Phrase = Phrase
  Settings <- MCSettings
SYMMETRY Symmetry
SPECIFICATION Spec
INVARIANTS
  TypeOK
  InstallIsWhole
PROPERTIES
  IdentitySettles
CHECK_DEADLOCK FALSE
