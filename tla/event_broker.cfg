CONSTANTS
  Clients = {c1, c2}
  Publishers = {pub1, pub2}
  ChanCap = 2
  MaxEvents = 2
  NoOne = no_one
SPECIFICATION Spec
INVARIANTS NoSendOnClosed OrderPerPublisher
PROPERTIES KeepsPromise NobodyBlocks
CHECK_DEADLOCK FALSE
