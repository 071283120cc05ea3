CONSTANTS
  a = a
  b = b
  daemon = daemon
  cli = cli
  eb = eb
  Device <- MCDevice
  Engine <- MCEngine
  DeviceOf <- MCDeviceOf
  Event <- MCEvent
  Recorders <- MCRecorders
  MaxEventsPerBatch = 2
  Suffix = {0}
  MaxTime = 2
  FaultModels <- MCFaultModels
SPECIFICATION Spec
INVARIANTS
  NoBatchSkipped
CHECK_DEADLOCK FALSE
