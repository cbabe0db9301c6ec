SPECIFICATION Spec
CONSTANTS
  shared = shared
  own = own
  v1 = v1
  v2 = v2
  d1 = d1
  d2 = d2
  acme = acme
  admin = admin
  Keys = {shared, own}
  Viewers = {v1, v2}
  Owner <- MCOwner
  Everyone = Everyone
  Endpoints = {d1, d2}
  Orgs = {acme, admin}
  Admin = admin
  NoOrg = NoOrg
  NoSub = NoSub
  Registered <- MCRegistered
  OptedIn = {v1}
  ArmedReminderLimit = 1
  SubscriptionsPerViewer = 1
  MaxArmings = 2
  MaxSubscriptions = 3
  MaxChanges = 1
INVARIANTS
  PendingAddressee
  OncePerArming
  LimitsHold
PROPERTIES
  SettledStays
  QueueDrains
CHECK_DEADLOCK FALSE
