SPECIFICATION Spec
CONSTANTS
  Ids = {a1, a2}
  Bodies = {b1, b2}
  NoBody = NoBody
  Torn = Torn
  NoId = NoId
  MaxRevision = 2
  MaxHistory = 1
  MaxFaults = 2
  FaultPoints <- AtomicFaultPoints
PROPERTY AtomicStore
CHECK_DEADLOCK FALSE
