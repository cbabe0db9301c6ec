SPECIFICATION Spec
CONSTANTS
  m1 = m1
  m2 = m2
  Messages = {m1, m2}
  ReplyTo <- ReplyChain
  NoMessage = NoMessage
  MaxEvents = 3
  MaxFetchAttempts = 2
  MaxLag = 1
  MaxCredential = 2
  MaxDisturbances = 2
INVARIANTS
  ModerationFinal
  Converges
PROPERTIES
  TombstoneFinal
  AuthorizedOnly
CHECK_DEADLOCK FALSE
