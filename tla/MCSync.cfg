CONSTANTS
  a = a
  b = b
  ea = ea
  eb = eb
  Device <- MCDevice
  Engine <- MCEngine
  DeviceOf <- MCDeviceOf
  Event <- MCEvent
  Recorders <- MCRecorders
  MaxEventsPerBatch = 2
  Suffix = {0}
  MaxTime = 2
  FaultModels <- MCFaultModels
SPECIFICATION Spec
INVARIANTS
  TypeOK
  NoBatchSkipped
  SyncedIsPublished
  OwnEventsOnly
PROPERTIES
  BatchKeysMonotonic
CHECK_DEADLOCK FALSE
