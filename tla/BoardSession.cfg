SPECIFICATION Spec
CONSTANTS
  PacketLen = 3
  HeaderLen = 2
  Totals = {2, 9}
  MaxChunks = 3
  MaxTurns = 2
INVARIANTS
  TypeOK
  FileIsPayload
  StaleIsBounded
PROPERTY
  StopEndsStream
CHECK_DEADLOCK FALSE
