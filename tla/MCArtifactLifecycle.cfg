SPECIFICATION Spec
CONSTANTS
  Ids = {a1}
  Bodies = {b1, b2}
  NoBody = NoBody
  Torn = Torn
  NoId = NoId
  MaxRevision = 4
  MaxHistory = 2
  MaxFaults = 3
  FaultPoints <- AllFaultPoints
INVARIANTS
  VisibleBodyMatches
  OutgoingBodySurvives
  HistoryAuthentic
  RetainedRevisionsRestorable
  UpdatePathClear
  NothingStranded
  ReconciliationSettles
PROPERTIES
  HistoryImmutable
  RestartServes
  GateReleased
CHECK_DEADLOCK FALSE
