CONSTANTS
  a = a
  b = b
  ea = ea
  eb = eb
  Device <- MCDevice
  Engine <- MCEngine
  DeviceOf <- MCDeviceOf
  Event <- MCEvent
  Recorders <- MCRecorders
  MaxEventsPerBatch = 1
  Suffix = {0}
  MaxTime = 2
  FaultModels <- MCFaultModels
SPECIFICATION FairSpec
PROPERTIES
  ImplementsPeerStreams
  EventsReachEveryDevice
CHECK_DEADLOCK FALSE
