SPECIFICATION Spec
CONSTANTS
  b1 = b1
  b2 = b2
  NoBody = NoBody
  Bodies <- MCBodies
  Bytes <- MCBytes
  Tasks = {t1}
  Workers = {w1}
  MaxPending = 2
  MaxPendingBytes = 3
  MaxChanges = 1
  MaxExtras = 1
  MaxFaults = 1
INVARIANTS
  QueueAccounts
  PictureOfBody
  GalleryComplete
PROPERTIES
  TaskFinal
  TaskSettles
CHECK_DEADLOCK FALSE
