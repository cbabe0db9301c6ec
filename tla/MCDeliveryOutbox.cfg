SPECIFICATION Spec
CONSTANTS
  e1 = e1
  e2 = e2
  hook = hook
  thread = thread
  org = org
  w1 = w1
  w2 = w2
  Events = {e1, e2}
  Keys = {hook, thread}
  Discussions = {thread}
  Tenant <- OneTenant
  Workers = {w1, w2}
  NoRow = NoRow
  NoWorker = NoWorker
  MaxAttempts = 2
  MaxQueueGlobal = 3
  MaxQueueTenant = 2
  MaxRows = 2
  MaxStops = 0
  MaxErrors = 0
  MaxLimits = 1
SYMMETRY Symmetric
INVARIANTS
  PostedInOrder
  PostedAfterDependency
  AcceptedMeansPosted
  PostsBounded
  GatedNotPosted
  ClaimCheckComplete
PROPERTIES
  TerminalIsFinal
  LeaseProtects
CHECK_DEADLOCK FALSE
