SPECIFICATION Spec
CONSTANTS
  Ids = {a1}
  Bodies = {b1, b2}
  NoBody = NoBody
  Torn = Torn
  NoId = NoId
  MaxRevision = 1
  MaxHistory = 1
  MaxFaults = 1
  FaultPoints <- AllFaultPoints
INVARIANT FailedDeleteKeepsArtifact
CHECK_DEADLOCK FALSE
