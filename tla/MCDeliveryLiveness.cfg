SPECIFICATION Spec
CONSTANTS
  e1 = e1
  e2 = e2
  hook = hook
  thread = thread
  org = org
  w1 = w1
  w2 = w2
  Events = {e1, e2}
  Keys = {hook, thread}
  Discussions = {thread}
  Tenant <- OneTenant
  Workers = {w1}
  NoRow = NoRow
  NoWorker = NoWorker
  MaxAttempts = 2
  MaxQueueGlobal = 3
  MaxQueueTenant = 3
  MaxRows = 2
  MaxStops = 1
  MaxErrors = 1
  MaxLimits = 0
PROPERTIES
  EveryRowSettles
CHECK_DEADLOCK FALSE
