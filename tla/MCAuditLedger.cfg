SPECIFICATION Spec
CONSTANTS
  t1 = t1
  i1 = i1
  i2 = i2
  Tenants = {t1}
  Intents = {i1, i2}
  TenantOf <- MCTenantOf
  NoHash = NoHash
  Hash <- MCHash
  RootHash <- MCRootHash
  HeadMac <- MCHeadMac
  CheckpointMac <- MCCheckpointMac
  BatchSize = 2
  PageLimit = 1
  MaxSequence = 3
  MaxReservations = 2
  MaxPages = 2
SYMMETRY Symmetry
INVARIANTS
  LedgerVerifies
  TamperEvident
  OneTerminalEvent
  RefusedOnlyByRace
  ScanComplete
PROPERTIES
  LedgerAppendOnly
