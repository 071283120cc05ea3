CONSTANTS
  a = a
  b = b
  c1 = c1
  c2 = c2
  make = make
  daemon = daemon
  picker = picker
  Device <- MCDevice
  Command <- MCCommand
  Text <- MCText
  NoText = NoText
  RedactedMarker = RedactedMarker
  NoRow = NoRow
  Event <- MCEvent
  Worlds <- MCWorlds
  Refresher <- MCRefresher
  DeviceOf <- MCDeviceOf
SYMMETRY MCSymmetry
SPECIFICATION Spec
INVARIANTS
  TypeOK
  RowsConverge
  RedactionSticks
  CacheFollowsLog
PROPERTIES
  ResultIsFinal
